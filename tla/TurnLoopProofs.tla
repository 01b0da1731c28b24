--------------------------- MODULE TurnLoopProofs ---------------------------
(***************************************************************************)
(* Theorems about TurnLoop for every number of turns, interrupts and calls *)
(* and every capacity: first the path of turns, streams and calls through  *)
(* the loop, then what history becomes in a turn-based loop.               *)
(***************************************************************************)
EXTENDS TurnLoop, SequenceLemmas, FiniteSetTheorems

CallId == 1..MaxCalls

(* What travels through the channels.                                      *)
MDelta == {d \in [pass : Nat, kind : PartKind, call : 0..MaxCalls] :
             d.kind = "call" => d.call \in CallId}
TDelta == {d \in [pass : Nat, kind : {"start", "result", "end", "err"},
                  call : 0..MaxCalls] : d.kind = "result" => d.call \in CallId}
Request == [pass : Nat, conv : Seq(Message), bare : BOOLEAN]
ToolBatch == [pass : Nat, calls : Seq(CallId)]
UserItem == {u \in [kind : {"turn", "interrupt", "close"}, id : 0..MaxTurns] :
               (u.kind = "turn" => u.id > 0) /\ (u.kind = "close" => u.id = 0)}

ConvTypes ==
    /\ hist \in Seq(Message) /\ held \in Seq(Message) /\ kernel \in Seq(Message)
    /\ passID \in Nat /\ outstanding \in Nat
    /\ open \in BOOLEAN /\ needsInf \in BOOLEAN
    /\ window \in Seq(MDelta) /\ toolWin \in Seq(TDelta)
    /\ \A m \in Elems(held) : m.role = "user"
    /\ \A d \in Elems(toolWin) : d.kind = "result"

ModelTypes ==
    /\ modelInbox \in Seq(Request) /\ Len(modelInbox) <= InboxCap
    /\ modelOut \in Seq(MDelta) /\ Len(modelOut) <= OutCap
    /\ model \in [pc : {"idle", "taken", "stream"}, pass : Nat, todo : Seq(MDelta)]
    /\ model.pc # "idle" => model.todo # <<>>
    /\ nextCall \in 0..MaxCalls /\ replies \in 0..MaxReplies

ToolTypes ==
    /\ toolInbox \in Seq(ToolBatch) /\ Len(toolInbox) <= ToolCap + 1
    /\ toolOut \in Seq(TDelta) /\ Len(toolOut) <= OutCap
    /\ tool \in [pc : {"idle", "taken", "run", "emit"}, pass : Nat,
                 calls : Seq(CallId), todo : Seq(TDelta), cancelled : BOOLEAN]
    /\ tool.pc = "emit" => tool.todo # <<>>
    /\ begun \in Seq(CallId)

UserTypes ==
    /\ userOut \in Seq(UserItem)
    /\ nextTurn \in 0..MaxTurns /\ interrupts \in 0..MaxInterrupts

TypeInv ==
    /\ ConvTypes /\ ModelTypes /\ ToolTypes /\ UserTypes
    /\ engine \in {"running", "failed", "stopped"}

-----------------------------------------------------------------------------
(* What the model's operators compute                                      *)

(* The calls a window reconstructs to, as the window grows.                *)
CallDeltas(w) == {d \in Elems(w) : IsCall(d)}

LEMMA CallsInType ==
    ASSUME NEW w \in Seq(MDelta)
    PROVE  /\ CallsIn(w) \in Seq(CallId)
           /\ Elems(CallsIn(w)) = {d.call : d \in CallDeltas(w)}
<1> DEFINE p == Only(w, CallDeltas(w))
<1>1. p \in Seq(MDelta) /\ Elems(p) = CallDeltas(w)
    BY OnlyType, OnlyElems DEF CallDeltas
<1>2. CallsIn(w) = [i \in 1..Len(p) |-> p[i].call]
    BY <1>1 DEF CallsIn, Map, CallOf, CallDeltas
<1> HIDE DEF p
<1>3. \A i \in 1..Len(p) : p[i] \in CallDeltas(w) /\ p[i] \in MDelta
    BY <1>1 DEF Elems
<1>4. \A i \in 1..Len(p) : p[i].call \in CallId
    BY <1>3 DEF CallDeltas, IsCall, MDelta
<1>5. CallsIn(w) \in Seq(CallId)
    BY <1>1, <1>2, <1>4
<1>6. Elems(CallsIn(w)) = {p[i].call : i \in 1..Len(p)}
    BY <1>1, <1>2 DEF Elems
<1>7. {p[i].call : i \in 1..Len(p)} = {d.call : d \in Elems(p)}
    BY <1>1 DEF Elems
<1> QED
    BY <1>1, <1>5, <1>6, <1>7

LEMMA CallsInEmpty == CallsIn(<<>>) = <<>>
<1>0. Elems(<<>>) = {}
    BY ElemsSmall
<1>1. <<>> \in Seq(MDelta) /\ CallDeltas(<<>>) = {}
    BY <1>0 DEF CallDeltas
<1>2. CallsIn(<<>>) \in Seq(CallId) /\ Elems(CallsIn(<<>>)) = {}
    BY <1>1, CallsInType
<1> QED
    BY <1>2, ElemsEmpty

(* The order in which a Go range appends.                                  *)
LEMMA CallsInAppend ==
    ASSUME NEW w \in Seq(MDelta), NEW d \in MDelta
    PROVE  CallsIn(Append(w, d)) = IF d.kind = "call" THEN Append(CallsIn(w), d.call)
                                   ELSE CallsIn(w)
<1> DEFINE wd == Append(w, d)
           p == Only(w, CallDeltas(w))
           q == Only(wd, CallDeltas(wd))
<1>1. wd \in Seq(MDelta) /\ Elems(wd) = Elems(w) \cup {d}
    BY AppendType, ElemsAppend
<1>2. Only(w, CallDeltas(wd)) = p
    <2>1. Elems(w) \cap CallDeltas(wd) = Elems(w) \cap CallDeltas(w)
        BY <1>1 DEF CallDeltas
    <2> QED
        BY <2>1, OnlySame
<1>3. q = IF d \in CallDeltas(wd) THEN Append(p, d) ELSE p
    BY <1>2, OnlyAppend
<1>4. d \in CallDeltas(wd) <=> d.kind = "call"
    BY <1>1 DEF CallDeltas, IsCall
<1>5. p \in Seq(MDelta)
    BY OnlyType
<1>6. CallsIn(w) = [i \in 1..Len(p) |-> p[i].call] /\ DOMAIN p = 1..Len(p)
    BY <1>5 DEF CallsIn, Map, CallOf, CallDeltas
<1>7. CallsIn(wd) = [i \in DOMAIN q |-> q[i].call]
    BY DEF CallsIn, Map, CallOf, CallDeltas
<1> HIDE DEF p, q, wd
<1>8. CASE d.kind # "call"
    BY <1>3, <1>4, <1>6, <1>7, <1>8 DEF wd
<1>9. CASE d.kind = "call"
    <2>1. q = Append(p, d)
        BY <1>3, <1>4, <1>9
    <2>2. CallsIn(w) \in Seq(CallId) /\ d.call \in CallId /\ CallsIn(wd) \in Seq(CallId)
        BY <1>1, <1>9, CallsInType DEF MDelta
    <2>3. /\ q \in Seq(MDelta) /\ Len(q) = Len(p) + 1 /\ q[Len(p) + 1] = d
          /\ \A i \in 1..Len(p) : q[i] = p[i]
          /\ Len(p) \in Nat
        BY <1>5, <2>1, AppendType
    <2>4. Len(CallsIn(w)) = Len(p) /\ Len(CallsIn(wd)) = Len(p) + 1
        BY <1>6, <1>7, <2>2, <2>3
    <2>5. \A i \in 1..(Len(p) + 1) : CallsIn(wd)[i] = Append(CallsIn(w), d.call)[i]
        <3> SUFFICES ASSUME NEW i \in 1..(Len(p) + 1)
                     PROVE  CallsIn(wd)[i] = Append(CallsIn(w), d.call)[i]
            OBVIOUS
        <3>1. CallsIn(wd)[i] = q[i].call
            BY <1>7, <2>3
        <3>2. CASE i = Len(p) + 1
            BY <2>2, <2>3, <2>4, <3>1, <3>2, AppendType
        <3>3. CASE i \in 1..Len(p)
            <4>1. CallsIn(w)[i] = p[i].call /\ q[i] = p[i]
                BY <1>6, <2>3, <3>3
            <4> QED
                BY <2>2, <2>4, <3>1, <3>3, <4>1, AppendType
        <3>4. i = Len(p) + 1 \/ i \in 1..Len(p)
            BY <2>3
        <3> QED
            BY <3>2, <3>3, <3>4
    <2>6. Append(CallsIn(w), d.call) \in Seq(CallId) /\ Len(Append(CallsIn(w), d.call)) = Len(p) + 1
        BY <2>2, <2>4, AppendType
    <2>7. CallsIn(wd) = Append(CallsIn(w), d.call)
        BY <2>2, <2>4, <2>5, <2>6, SeqEqual
    <2> QED
        BY <1>9, <2>7 DEF wd
<1> QED
    BY <1>8, <1>9

(* The ids of picked entries.                                              *)
PickedIds(s, T) == Map(Id, Only(s, T))

LEMMA PickedType ==
    ASSUME NEW S, \A e \in S : e.id \in Nat, NEW s \in Seq(S), NEW T
    PROVE  /\ PickedIds(s, T) \in Seq(Nat)
           /\ Len(PickedIds(s, T)) = Len(Only(s, T))
           /\ \A i \in 1..Len(Only(s, T)) : PickedIds(s, T)[i] = Only(s, T)[i].id
<1> DEFINE p == Only(s, T)
<1>1. p \in Seq(S)
    BY OnlyType
<1>2. PickedIds(s, T) = [i \in 1..Len(p) |-> p[i].id]
    BY <1>1 DEF PickedIds, Map, Id
<1> HIDE DEF p
<1>3. \A i \in 1..Len(p) : p[i].id \in Nat
    BY <1>1
<1>4. Len(p) \in Nat
    BY <1>1
<1>5. PickedIds(s, T) \in Seq(Nat) /\ Len(PickedIds(s, T)) = Len(p)
    BY <1>2, <1>3, <1>4
<1> QED
    BY <1>2, <1>5 DEF p

LEMMA PickedConcat ==
    ASSUME NEW S, \A e \in S : e.id \in Nat, NEW s \in Seq(S), NEW t \in Seq(S), NEW T
    PROVE  PickedIds(s \o t, T) = PickedIds(s, T) \o PickedIds(t, T)
<1> DEFINE p == Only(s, T)
           q == Only(t, T)
           a == PickedIds(s, T)
           b == PickedIds(t, T)
           c == PickedIds(s \o t, T)
<1>1. p \in Seq(S) /\ q \in Seq(S) /\ s \o t \in Seq(S) /\ Only(s \o t, T) = p \o q
    <2>1. p \in Seq(S) /\ q \in Seq(S)
        BY OnlyType
    <2>2. s \o t \in Seq(S)
        OBVIOUS
    <2>3. Only(s \o t, T) = p \o q
        BY OnlyConcat
    <2> QED
        BY <2>1, <2>2, <2>3
<1>2. /\ Len(p \o q) = Len(p) + Len(q) /\ Len(p) \in Nat /\ Len(q) \in Nat
      /\ \A i \in 1..Len(p) : (p \o q)[i] = p[i]
      /\ \A i \in 1..Len(q) : (p \o q)[Len(p) + i] = q[i]
    BY <1>1, ConcatProperties
<1>3. /\ a \in Seq(Nat) /\ Len(a) = Len(p) /\ \A i \in 1..Len(p) : a[i] = p[i].id
      /\ b \in Seq(Nat) /\ Len(b) = Len(q) /\ \A i \in 1..Len(q) : b[i] = q[i].id
    BY PickedType
<1> DEFINE st == s \o t
<1>4. st \in Seq(S)
    BY <1>1
<1> HIDE DEF st
<1>5. /\ PickedIds(st, T) \in Seq(Nat) /\ Len(PickedIds(st, T)) = Len(Only(st, T))
      /\ \A i \in 1..Len(Only(st, T)) : PickedIds(st, T)[i] = Only(st, T)[i].id
    BY <1>4, PickedType
<1>6. /\ c \in Seq(Nat) /\ Len(c) = Len(p) + Len(q)
      /\ \A i \in 1..(Len(p) + Len(q)) : c[i] = (p \o q)[i].id
    BY <1>1, <1>2, <1>5 DEF st
<1> HIDE DEF a, b, c, p, q
<1>7. /\ a \o b \in Seq(Nat) /\ Len(a \o b) = Len(p) + Len(q)
      /\ \A i \in 1..Len(p) : (a \o b)[i] = a[i]
      /\ \A i \in 1..Len(q) : (a \o b)[Len(p) + i] = b[i]
    <2>1. a \in Seq(Nat) /\ b \in Seq(Nat)
        BY <1>3
    <2>2. /\ a \o b \in Seq(Nat) /\ Len(a \o b) = Len(a) + Len(b)
          /\ \A i \in 1..Len(a) : (a \o b)[i] = a[i]
          /\ \A i \in 1..Len(b) : (a \o b)[Len(a) + i] = b[i]
        BY <2>1, ConcatType
    <2> QED
        BY <1>3, <2>2
<1>8. \A i \in 1..(Len(p) + Len(q)) : c[i] = (a \o b)[i]
    <2> SUFFICES ASSUME NEW i \in 1..(Len(p) + Len(q)) PROVE c[i] = (a \o b)[i]
        OBVIOUS
    <2>1. CASE i \in 1..Len(p)
        BY ZenonT(60), <1>2, <1>3, <1>6, <1>7, <2>1
    <2>2. CASE i \notin 1..Len(p)
        <3> DEFINE j == i - Len(p)
        <3>1. j \in 1..Len(q) /\ i = Len(p) + j
            BY <1>2, <2>2
        <3> HIDE DEF j
        <3>2. c[i] = q[j].id /\ (a \o b)[i] = b[j] /\ b[j] = q[j].id
            BY <1>2, <1>3, <1>6, <1>7, <3>1
        <3> QED
            BY <3>2
    <2> QED
        BY <2>1, <2>2
<1>9. c = a \o b
    BY <1>6, <1>7, <1>8, SeqEqual
<1> QED
    BY <1>9 DEF a, b, c

LEMMA PickedSame ==
    ASSUME NEW S, NEW s \in Seq(S), NEW T, NEW U, Elems(s) \cap T = Elems(s) \cap U
    PROVE  PickedIds(s, T) = PickedIds(s, U)
BY OnlySame DEF PickedIds

LEMMA PickedNone ==
    ASSUME NEW S, NEW s \in Seq(S), NEW T, Elems(s) \cap T = {}
    PROVE  PickedIds(s, T) = <<>>
<1>1. Only(s, T) = <<>>
    BY OnlyNone
<1>2. [i \in DOMAIN <<>> |-> <<>>[i].id] = <<>>
    OBVIOUS
<1> QED
    BY <1>1, <1>2 DEF PickedIds, Map, Id

LEMMA MessageIds == \A m \in Message : m.id \in Nat
BY TurnAssumption DEF Message

(* The user turns of a conversation and of the user outbox.                *)
UsersOf(h) == {m \in Elems(h) : IsUser(m)}
SentOf(q) == {u \in Elems(q) : u.id > 0}

LEMMA UserIdsConcat ==
    ASSUME NEW h \in Seq(Message), NEW k \in Seq(Message)
    PROVE  /\ UserIds(h \o k) = UserIds(h) \o UserIds(k)
           /\ UserIds(h) \in Seq(Nat) /\ UserIds(k) \in Seq(Nat)
<1> DEFINE U == UsersOf(h \o k)
<1>1. h \o k \in Seq(Message) /\ Elems(h \o k) = Elems(h) \cup Elems(k)
    BY ConcatProperties, ElemsConcat
<1>2. Elems(h) \cap U = Elems(h) \cap UsersOf(h) /\ Elems(k) \cap U = Elems(k) \cap UsersOf(k)
    BY <1>1 DEF UsersOf
<1>3. PickedIds(h, U) = UserIds(h) /\ PickedIds(k, U) = UserIds(k)
    BY <1>2, PickedSame DEF UserIds, PickedIds, UsersOf
<1>4. PickedIds(h \o k, U) = UserIds(h \o k)
    BY DEF UserIds, PickedIds, UsersOf
<1>5. PickedIds(h \o k, U) = PickedIds(h, U) \o PickedIds(k, U)
    BY MessageIds, PickedConcat
<1>6. PickedIds(h, U) \in Seq(Nat) /\ PickedIds(k, U) \in Seq(Nat)
    BY MessageIds, PickedType
<1> QED
    BY <1>3, <1>4, <1>5, <1>6

LEMMA UserIdsNone ==
    ASSUME NEW h \in Seq(Message), \A m \in Elems(h) : m.role # "user"
    PROVE  UserIds(h) = <<>>
<1>1. Elems(h) \cap UsersOf(h) = {}
    BY DEF UsersOf, IsUser
<1> QED
    BY <1>1, PickedNone DEF UserIds, PickedIds, UsersOf

LEMMA UserIdsOne ==
    ASSUME NEW t \in 1..MaxTurns
    PROVE  /\ User(t) \in Message /\ <<User(t)>> \in Seq(Message)
           /\ UserIds(<<User(t)>>) = <<t>>
<1>1. User(t) \in Message /\ User(t).id = t /\ User(t).role = "user"
    BY TurnAssumption DEF User, Message
<1>2. <<User(t)>> \in Seq(Message) /\ Elems(<<User(t)>>) = {User(t)}
    BY <1>1, ElemsSmall
<1>3. Elems(<<User(t)>>) \subseteq UsersOf(<<User(t)>>)
    BY <1>1, <1>2 DEF UsersOf, IsUser
<1>4. Only(<<User(t)>>, UsersOf(<<User(t)>>)) = <<User(t)>>
    BY <1>2, <1>3, OnlyAll
<1>5. [i \in DOMAIN <<User(t)>> |-> <<User(t)>>[i].id] = <<t>>
    BY <1>1
<1> QED
    BY <1>1, <1>2, <1>4, <1>5 DEF UserIds, Map, Id, UsersOf

LEMMA Constants ==
    /\ MaxTurns \in Nat /\ MaxInterrupts \in Nat /\ MaxCalls \in Nat /\ MaxReplies \in Nat
    /\ OutCap \in Nat \ {0} /\ InboxCap \in Nat \ {0} /\ ToolCap \in Nat \ {0}
    /\ Duplex \in BOOLEAN /\ RepeatIDs \in BOOLEAN /\ ToolsMayFail \in BOOLEAN
BY TurnAssumption

(* The positions of the calls of a response.                               *)
LEMMA NumCallsType ==
    ASSUME NEW s \in Seq(PartKind)
    PROVE  /\ NumCalls(s) \in Nat
           /\ \A i \in 1..Len(s) :
                /\ NumCalls(SubSeq(s, 1, i)) \in Nat
                /\ NumCalls(SubSeq(s, 1, i)) <= NumCalls(s)
                /\ s[i] = "call" => NumCalls(SubSeq(s, 1, i)) > 0
<1> DEFINE C(n) == {j \in 1..n : s[j] = "call"}
<1>1. Len(s) \in Nat /\ DOMAIN s = 1..Len(s)
    OBVIOUS
<1>2. IsFiniteSet(1..Len(s))
    BY <1>1, FS_Interval
<1>3. NumCalls(s) = Cardinality(C(Len(s)))
    BY <1>1 DEF NumCalls
<1>4. IsFiniteSet(C(Len(s)))
    <2>1. C(Len(s)) \in SUBSET (1..Len(s))
        OBVIOUS
    <2> QED
        BY <1>2, <2>1, FS_Subset
<1>5. NumCalls(s) \in Nat
    BY <1>3, <1>4, FS_CardinalityType
<1>6. ASSUME NEW i \in 1..Len(s)
      PROVE  /\ NumCalls(SubSeq(s, 1, i)) \in Nat
             /\ NumCalls(SubSeq(s, 1, i)) <= NumCalls(s)
             /\ s[i] = "call" => NumCalls(SubSeq(s, 1, i)) > 0
    <2> DEFINE r == SubSeq(s, 1, i)
    <2>1. DOMAIN r = 1..i /\ \A j \in 1..i : r[j] = s[j]
        BY <1>1
    <2> HIDE DEF r
    <2>2. NumCalls(r) = Cardinality(C(i))
        <3>1. {j \in DOMAIN r : r[j] = "call"} = C(i)
            BY <2>1
        <3> QED
            BY <3>1 DEF NumCalls
    <2>3. C(i) \in SUBSET C(Len(s))
        BY <1>1
    <2> HIDE DEF C
    <2>4. IsFiniteSet(C(i)) /\ Cardinality(C(i)) <= Cardinality(C(Len(s)))
        BY <1>4, <2>3, FS_Subset
    <2>5. Cardinality(C(i)) \in Nat
        BY <2>4, FS_CardinalityType
    <2>6. ASSUME s[i] = "call" PROVE Cardinality(C(i)) > 0
        <3>1. i \in C(i)
            BY <1>1, <2>6 DEF C
        <3>2. Cardinality(C(i)) # 0
            BY <2>4, <3>1, FS_EmptySet
        <3> QED
            BY <2>5, <3>2
    <2> QED
        BY <1>3, <2>2, <2>4, <2>5, <2>6 DEF r
<1> QED
    BY <1>5, <1>6

LEMMA ResponseType ==
    ASSUME NEW pass \in Nat, NEW shape \in Shapes, NEW base \in Nat,
           base + NumCalls(shape) <= MaxCalls
    PROVE  /\ Response(pass, shape, base) \in Seq(MDelta)
           /\ Response(pass, shape, base) # <<>>
           /\ Len(Response(pass, shape, base)) = Len(shape)
           /\ shape \in Seq(PartKind) /\ Len(shape) \in Nat
           /\ \A i \in 1..Len(shape) : Response(pass, shape, base)[i] =
                 [pass |-> pass, kind |-> shape[i],
                  call |-> IF shape[i] = "call"
                           THEN base + NumCalls(SubSeq(shape, 1, i)) ELSE 0]
<1> DEFINE R == Response(pass, shape, base)
           D(i) == [pass |-> pass, kind |-> shape[i],
                    call |-> IF shape[i] = "call"
                             THEN base + NumCalls(SubSeq(shape, 1, i)) ELSE 0]
<1>1. shape \in Seq(PartKind) /\ shape # <<>>
    BY TurnAssumption
<1>2. Len(shape) \in Nat /\ Len(shape) > 0 /\ DOMAIN shape = 1..Len(shape)
    BY <1>1
<1>3. R = [i \in 1..Len(shape) |-> D(i)]
    BY <1>2 DEF Response
<1>4. \A i \in 1..Len(shape) : D(i) \in MDelta
    <2> SUFFICES ASSUME NEW i \in 1..Len(shape) PROVE D(i) \in MDelta
        OBVIOUS
    <2> DEFINE c == IF shape[i] = "call"
                    THEN base + NumCalls(SubSeq(shape, 1, i)) ELSE 0
    <2>1. c \in 0..MaxCalls /\ (shape[i] = "call" => c \in CallId)
        <3>1. /\ NumCalls(shape) \in Nat
              /\ NumCalls(SubSeq(shape, 1, i)) \in Nat
              /\ NumCalls(SubSeq(shape, 1, i)) <= NumCalls(shape)
              /\ shape[i] = "call" => NumCalls(SubSeq(shape, 1, i)) > 0
            BY <1>1, NumCallsType
        <3>2. MaxCalls \in Nat
            BY Constants
        <3> QED
            BY <3>1, <3>2 DEF CallId
    <2>2. shape[i] \in PartKind
        BY <1>1
    <2> HIDE DEF c
    <2>3. [pass |-> pass, kind |-> shape[i], call |-> c] \in MDelta
        BY <2>1, <2>2 DEF MDelta
    <2> QED
        BY <2>3 DEF c
<1> HIDE DEF D
<1>5. R \in Seq(MDelta) /\ Len(R) = Len(shape)
    BY <1>2, <1>3, <1>4
<1>6. \A i \in 1..Len(shape) : R[i] = D(i)
    BY <1>3
<1> QED
    BY <1>1, <1>2, <1>5, <1>6 DEF D

(* A set of positions has a greatest one.                                  *)
LEMMA LatestExists ==
    ASSUME NEW n \in Nat, NEW P \in SUBSET (1..n), P # {}
    PROVE  /\ (CHOOSE i \in P : \A j \in P : j <= i) \in P
           /\ \A j \in P : j <= (CHOOSE i \in P : \A j2 \in P : j2 <= i)
<1> DEFINE Q == {n - i : i \in P}
<1>0. \A i \in P : i \in 1..n /\ n - i \in Nat
    OBVIOUS
<1>1. Q \in SUBSET Nat /\ Q # {}
    BY <1>0
<1>2. PICK x \in Q : \A y \in Q : x <= y
    BY <1>1, LeastNumber
<1>3. PICK i \in P : x = n - i
    BY <1>2
<1>4. \A j \in P : n - j \in Q /\ j \in Nat /\ i \in Nat
    OBVIOUS
<1>5. \A j \in P : n - i <= n - j
    BY <1>2, <1>3, <1>4
<1>6. \A j \in P : j <= i
    BY <1>4, <1>5
<1> QED
    BY <1>6

(* cancelledToolResults answers calls only.                                *)
LEMMA CancelledType ==
    ASSUME NEW h \in Seq(Message)
    PROVE  /\ CancelledResults(h) \in Seq(Message)
           /\ \A m \in Elems(CancelledResults(h)) : m.role = "cancelled" /\ m.calls = <<>>
<1> DEFINE calling == {i \in DOMAIN h : h[i].calls # <<>>}
           latest == CHOOSE i \in calling : \A j \in calling : j <= i
           after == SubSeq(h, latest + 1, Len(h))
           done == {m.id : m \in {x \in Elems(after) : IsResult(x)}}
           left == Only(h[latest].calls, Elems(h[latest].calls) \ done)
<1>1. CASE calling = {} \/ \E m \in Elems(after) : IsUser(m)
    <2>1. CancelledResults(h) = <<>>
        BY <1>1 DEF CancelledResults
    <2>2. Elems(<<>>) = {}
        BY ElemsSmall
    <2>3. <<>> \in Seq(Message)
        OBVIOUS
    <2> QED
        BY <2>1, <2>2, <2>3
<1>2. CASE calling # {} /\ ~ \E m \in Elems(after) : IsUser(m)
    <2>0. Len(h) \in Nat /\ calling \in SUBSET (1..Len(h)) /\ calling # {}
        BY <1>2
    <2>1. latest \in calling
        <3> HIDE DEF calling
        <3> QED
            BY <2>0, LatestExists
    <2>2. h[latest].calls \in Seq(CallId)
        <3> HIDE DEF latest
        <3>1. h[latest] \in Message
            BY <2>1
        <3> QED
            BY <3>1 DEF Message, CallId
    <2>3. left \in Seq(CallId)
        BY <2>2, OnlyType
    <2>4. CancelledResults(h) = [i \in DOMAIN left |-> Cancelled(left[i])]
        BY <1>2 DEF CancelledResults, Map
    <2> HIDE DEF left
    <2>5. \A i \in 1..Len(left) : Cancelled(left[i]) \in Message
        <3> SUFFICES ASSUME NEW i \in 1..Len(left) PROVE Cancelled(left[i]) \in Message
            OBVIOUS
        <3>1. left[i] \in CallId
            BY <2>3
        <3>2. left[i] \in 0..(MaxTurns + MaxCalls)
            BY <3>1, Constants DEF CallId
        <3> QED
            BY <3>2 DEF Cancelled, Message
    <2>6. DOMAIN left = 1..Len(left) /\ Len(left) \in Nat
        BY <2>3
    <2>7. CancelledResults(h) \in Seq(Message)
        BY <2>4, <2>5, <2>6
    <2>8. \A m \in Elems(CancelledResults(h)) : \E i \in 1..Len(left) : m = Cancelled(left[i])
        BY <2>4, <2>6 DEF Elems
    <2> QED
        BY <2>7, <2>8 DEF Cancelled
<1> QED
    BY <1>1, <1>2

-----------------------------------------------------------------------------
(* Types                                                                   *)

LEMMA MessageTypes ==
    /\ Assistant(<<>>) \in Message
    /\ \A cs \in Seq(CallId) : Assistant(cs) \in Message
    /\ \A c \in CallId : Result(c) \in Message
    /\ \A t \in 1..MaxTurns : User(t) \in Message /\ User(t).role = "user"
<1>1. 0 \in 0..(MaxTurns + MaxCalls)
    BY Constants
<1>2. /\ \A c \in CallId : c \in 0..(MaxTurns + MaxCalls)
      /\ \A t \in 1..MaxTurns : t \in 0..(MaxTurns + MaxCalls)
    BY Constants DEF CallId
<1>3. <<>> \in Seq(CallId)
    OBVIOUS
<1>4. Message = [role : {"user", "assistant", "tool", "cancelled"},
                 id : 0..(MaxTurns + MaxCalls), calls : Seq(CallId)]
    BY DEF Message, CallId
<1>5. \A cs \in Seq(CallId) : Assistant(cs) \in Message
    BY <1>1, <1>4 DEF Assistant
<1>6. \A c \in CallId : Result(c) \in Message
    BY <1>2, <1>3, <1>4 DEF Result
<1>7. \A t \in 1..MaxTurns : User(t) \in Message /\ User(t).role = "user"
    BY <1>2, <1>3, <1>4 DEF User
<1> QED
    BY <1>3, <1>5, <1>6, <1>7

(* The three conversations of an action.                                   *)
TalkTypes ==
    /\ hist \in Seq(Message) /\ held \in Seq(Message) /\ kernel \in Seq(Message)
    /\ \A m \in Elems(held) : m.role = "user"

LEMMA PlaceTypes ==
    ASSUME TalkTypes, NEW h \in Seq(Message), NEW k \in Seq(Message), PlaceHeld(h, k)
    PROVE  TalkTypes'
<1>1. hist' \in Seq(Message) /\ kernel' \in Seq(Message)
    BY ConcatType DEF TalkTypes, PlaceHeld
<1>2. held' = <<>> /\ Elems(<<>>) = {}
    BY ElemsSmall DEF PlaceHeld
<1>3. <<>> \in Seq(Message)
    OBVIOUS
<1> QED
    BY <1>1, <1>2, <1>3 DEF TalkTypes

LEMMA KeepTypes ==
    ASSUME TalkTypes, NEW h \in Seq(Message), NEW k \in Seq(Message), KeepHeld(h, k)
    PROVE  TalkTypes'
BY DEF TalkTypes, KeepHeld

LEMMA SettleTypes ==
    ASSUME TalkTypes, SettleHeld
    PROVE  TalkTypes'
<1>1. PICK kept \in SUBSET Elems(held) : kernel' = kernel \o Only(held, kept)
    BY DEF SettleHeld
<1>2. Only(held, kept) \in Seq(Message)
    BY OnlyType DEF TalkTypes
<1>3. hist' \in Seq(Message) /\ kernel' \in Seq(Message)
    BY <1>1, <1>2, ConcatType DEF TalkTypes, SettleHeld
<1>4. held' = <<>> /\ Elems(<<>>) = {}
    BY ElemsSmall DEF SettleHeld
<1>5. <<>> \in Seq(Message)
    OBVIOUS
<1> QED
    BY <1>3, <1>4, <1>5 DEF TalkTypes

LEMMA DispatchTypes ==
    ASSUME modelInbox \in Seq(Request), Len(modelInbox) <= InboxCap, passID' \in Nat,
           NEW conv \in Seq(Message), NEW bare \in BOOLEAN, Dispatch(conv, bare)
    PROVE  modelInbox' \in Seq(Request) /\ Len(modelInbox') <= InboxCap
<1> DEFINE r == [pass |-> passID', conv |-> conv, bare |-> bare]
<1>1. r \in Request
    BY DEF Request
<1>2. modelInbox' = IF Len(modelInbox) < InboxCap THEN Append(modelInbox, r) ELSE modelInbox
    BY DEF Dispatch
<1> HIDE DEF r
<1>3. Append(modelInbox, r) \in Seq(Request) /\ Len(Append(modelInbox, r)) = Len(modelInbox) + 1
    BY <1>1, AppendType
<1>4. InboxCap \in Nat /\ Len(modelInbox) \in Nat
    BY Constants
<1> QED
    BY <1>2, <1>3, <1>4

LEMMA StayTypes ==
    /\ ConvTypes /\ UNCHANGED convVars => ConvTypes'
    /\ ModelTypes /\ UNCHANGED modelVars => ModelTypes'
    /\ ToolTypes /\ UNCHANGED toolVars => ToolTypes'
    /\ UserTypes /\ UNCHANGED userVars => UserTypes'
<1>1. ConvTypes /\ UNCHANGED convVars => ConvTypes'
    BY DEF ConvTypes, convVars
<1>2. ModelTypes /\ UNCHANGED modelVars => ModelTypes'
    BY DEF ModelTypes, modelVars
<1>3. ToolTypes /\ UNCHANGED toolVars => ToolTypes'
    BY DEF ToolTypes, toolVars
<1>4. UserTypes /\ UNCHANGED userVars => UserTypes'
    BY DEF UserTypes, userVars
<1> QED
    BY <1>1, <1>2, <1>3, <1>4

LEMMA InitTypes == Init => TypeInv
<1> SUFFICES ASSUME Init PROVE TypeInv
    OBVIOUS
<1>1. /\ <<>> \in Seq(Message) /\ <<>> \in Seq(MDelta) /\ <<>> \in Seq(TDelta)
      /\ <<>> \in Seq(Request) /\ <<>> \in Seq(ToolBatch) /\ <<>> \in Seq(CallId)
      /\ <<>> \in Seq(UserItem) /\ Len(<<>>) = 0
    OBVIOUS
<1>2. Elems(<<>>) = {}
    BY ElemsSmall
<1>3. ConvTypes
    BY <1>1, <1>2 DEF Init, ConvTypes
<1>4. ModelTypes
    BY <1>1, Constants DEF Init, ModelTypes, NoModel
<1>5. ToolTypes
    BY <1>1, Constants DEF Init, ToolTypes, NoTool
<1>6. UserTypes
    BY <1>1, Constants DEF Init, UserTypes
<1> QED
    BY <1>3, <1>4, <1>5, <1>6 DEF TypeInv, Init

LEMMA CallerTypes ==
    ASSUME TypeInv, Caller
    PROVE  TypeInv'
<1> DEFINE u(k, i) == [kind |-> k, id |-> i]
<1>0. /\ userOut \in Seq(UserItem) /\ nextTurn \in 0..MaxTurns
      /\ interrupts \in 0..MaxInterrupts
    BY DEF TypeInv, UserTypes
<1>1. u("close", 0) \in UserItem /\ u("interrupt", 0) \in UserItem
    BY Constants DEF UserItem
<1>2. ASSUME nextTurn < MaxTurns
      PROVE  /\ u("turn", nextTurn + 1) \in UserItem /\ u("interrupt", nextTurn + 1) \in UserItem
             /\ nextTurn + 1 \in 0..MaxTurns
    <2>1. nextTurn + 1 \in 0..MaxTurns /\ nextTurn + 1 > 0
        BY <1>0, <1>2, Constants
    <2> QED
        BY <2>1 DEF UserItem
<1>3. interrupts < MaxInterrupts => interrupts + 1 \in 0..MaxInterrupts
    BY <1>0, Constants
<1> HIDE DEF u
<1>4. \A x \in UserItem : Append(userOut, x) \in Seq(UserItem)
    BY <1>0, AppendType
<1>5. UserTypes'
    <2>1. CASE Send
        <3>1. userOut' = Append(userOut, u("turn", nextTurn + 1)) /\ nextTurn < MaxTurns
              /\ nextTurn' = nextTurn + 1 /\ interrupts' = interrupts
            BY <2>1 DEF Send, u
        <3> QED
            BY <1>0, <1>2, <1>4, <3>1 DEF UserTypes
    <2>2. CASE SendInterrupt
        <3>1. /\ interrupts < MaxInterrupts /\ interrupts' = interrupts + 1
              /\ \/ userOut' = Append(userOut, u("interrupt", 0)) /\ nextTurn' = nextTurn
                 \/ /\ userOut' = Append(userOut, u("interrupt", nextTurn + 1))
                    /\ nextTurn < MaxTurns /\ nextTurn' = nextTurn + 1
            BY <2>2 DEF SendInterrupt, u
        <3> QED
            BY <1>0, <1>1, <1>2, <1>3, <1>4, <3>1 DEF UserTypes
    <2>3. CASE SendClose
        <3>1. userOut' = Append(userOut, u("close", 0)) /\ nextTurn' = nextTurn
              /\ interrupts' = interrupts
            BY <2>3 DEF SendClose, u
        <3> QED
            BY <1>0, <1>1, <1>4, <3>1 DEF UserTypes
    <2> QED
        BY <2>1, <2>2, <2>3 DEF Caller
<1>6. UNCHANGED <<convVars, engine, modelVars, toolVars>>
    BY DEF Caller, Send, SendInterrupt, SendClose
<1> QED
    BY <1>5, <1>6, StayTypes DEF TypeInv

LEMMA AnswerTypes ==
    ASSUME ModelTypes, NEW pass \in Nat, NEW pc \in {"taken", "stream"}, Answer(pass, pc)
    PROVE  /\ nextCall' \in 0..MaxCalls
           /\ model' \in [pc : {"idle", "taken", "stream"}, pass : Nat, todo : Seq(MDelta)]
           /\ model'.todo # <<>>
<1>1. PICK shape \in Shapes, base \in Nat :
        /\ base + NumCalls(shape) <= MaxCalls
        /\ nextCall' = IF base + NumCalls(shape) > nextCall
                       THEN base + NumCalls(shape) ELSE nextCall
        /\ model' = [pc |-> pc, pass |-> pass, todo |-> Response(pass, shape, base)]
    <2>1. nextCall \in Nat /\ (0..nextCall) \subseteq Nat
        BY Constants DEF ModelTypes
    <2> QED
        BY <2>1 DEF Answer
<1>2. Response(pass, shape, base) \in Seq(MDelta) /\ Response(pass, shape, base) # <<>>
    BY <1>1, ResponseType
<1>3. NumCalls(shape) \in Nat
    BY TurnAssumption, NumCallsType
<1>4. nextCall' \in 0..MaxCalls
    BY <1>1, <1>3, Constants DEF ModelTypes
<1> QED
    BY <1>1, <1>2, <1>4

LEMMA ModelStepTypes ==
    ASSUME TypeInv, ModelStep
    PROVE  TypeInv'
<1>0. ModelTypes
    BY DEF TypeInv
<1>1. ModelTypes'
    <2>1. CASE ModelTake
        <3>1. Head(modelInbox).pass \in Nat /\ Tail(modelInbox) \in Seq(Request)
              /\ Len(Tail(modelInbox)) <= InboxCap
            <4>1. modelInbox # <<>> /\ modelInbox \in Seq(Request) /\ Len(modelInbox) <= InboxCap
                BY <1>0, <2>1 DEF ModelTake, ModelTypes
            <4>2. Head(modelInbox) \in Request /\ Tail(modelInbox) \in Seq(Request)
                  /\ Len(Tail(modelInbox)) = Len(modelInbox) - 1
                BY <4>1, TailType
            <4>3. Len(modelInbox) \in Nat /\ InboxCap \in Nat
                BY <4>1, Constants
            <4> QED
                BY <4>1, <4>2, <4>3 DEF Request
        <3>2. Answer(Head(modelInbox).pass, "taken")
            BY <2>1 DEF ModelTake
        <3>3. /\ nextCall' \in 0..MaxCalls
              /\ model' \in [pc : {"idle", "taken", "stream"}, pass : Nat, todo : Seq(MDelta)]
              /\ model'.todo # <<>>
            BY <1>0, <3>1, <3>2, AnswerTypes
        <3>4. modelInbox' = Tail(modelInbox) /\ modelOut' = modelOut /\ replies' = replies
            BY <2>1 DEF ModelTake
        <3> QED
            BY <1>0, <3>1, <3>3, <3>4 DEF ModelTypes
    <2>2. CASE ModelArm
        BY <1>0, <2>2 DEF ModelArm, ModelTypes
    <2>3. CASE ModelEmit
        <3>1. model.todo \in Seq(MDelta) /\ model.todo # <<>> /\ modelOut \in Seq(MDelta)
              /\ Len(modelOut) < OutCap
            BY <1>0, <2>3 DEF ModelEmit, ModelTypes
        <3>2. Head(model.todo) \in MDelta /\ Tail(model.todo) \in Seq(MDelta)
              /\ Len(Tail(model.todo)) = Len(model.todo) - 1
            BY <3>1, TailType
        <3>3. Append(modelOut, Head(model.todo)) \in Seq(MDelta)
              /\ Len(Append(modelOut, Head(model.todo))) = Len(modelOut) + 1
            BY <3>1, <3>2, AppendType
        <3>4. modelOut' \in Seq(MDelta) /\ Len(modelOut') <= OutCap
            <4>1. Len(modelOut) \in Nat /\ OutCap \in Nat
                BY <3>1, Constants
            <4> QED
                BY <2>3, <3>1, <3>3, <4>1 DEF ModelEmit
        <3>5. Len(model.todo) # 1 => Tail(model.todo) # <<>>
            <4> DEFINE td == model.todo
            <4>1. /\ td \in Seq(MDelta) /\ Tail(td) \in Seq(MDelta)
                  /\ Len(Tail(td)) = Len(td) - 1
                BY <3>1, <3>2
            <4> HIDE DEF td
            <4>2. Len(td) \in Nat /\ Len(<<>>) = 0
                BY <4>1
            <4>3. Len(td) # 1 => Tail(td) # <<>>
                BY SMTT(60), <4>1, <4>2
            <4> QED
                BY <4>3 DEF td
        <3>6. /\ model' \in [pc : {"idle", "taken", "stream"}, pass : Nat, todo : Seq(MDelta)]
              /\ model'.pc # "idle" => model'.todo # <<>>
            <4>1. CASE Len(model.todo) = 1
                <5>1. <<>> \in Seq(MDelta)
                    OBVIOUS
                <5> QED
                    BY <2>3, <4>1, <5>1 DEF ModelEmit, NoModel
            <4>2. CASE Len(model.todo) # 1
                BY <1>0, <2>3, <3>2, <3>5, <4>2 DEF ModelEmit, ModelTypes
            <4> QED
                BY <4>1, <4>2
        <3>7. modelInbox' = modelInbox /\ nextCall' = nextCall /\ replies' = replies
            BY <2>3 DEF ModelEmit
        <3> QED
            BY <1>0, <3>4, <3>6, <3>7 DEF ModelTypes
    <2>4. CASE SessionTake
        <3>1. modelInbox # <<>> /\ modelInbox \in Seq(Request) /\ Len(modelInbox) <= InboxCap
            BY <1>0, <2>4 DEF SessionTake, ModelTypes
        <3>2. Tail(modelInbox) \in Seq(Request) /\ Len(Tail(modelInbox)) = Len(modelInbox) - 1
            BY <3>1, TailType
        <3>3. Len(modelInbox) \in Nat /\ InboxCap \in Nat
            BY <3>1, Constants
        <3>4. /\ modelInbox' = Tail(modelInbox)
              /\ UNCHANGED <<modelOut, model, nextCall, replies>>
            BY <2>4 DEF SessionTake
        <3> QED
            BY <1>0, <3>1, <3>2, <3>3, <3>4 DEF ModelTypes
    <2>5. CASE SessionRespond
        <3>1. Answer(0, "stream")
            BY <2>5 DEF SessionRespond
        <3>2. /\ nextCall' \in 0..MaxCalls
              /\ model' \in [pc : {"idle", "taken", "stream"}, pass : Nat, todo : Seq(MDelta)]
              /\ model'.todo # <<>>
            BY <1>0, <3>1, AnswerTypes
        <3>3. replies' \in 0..MaxReplies
            BY <1>0, <2>5, Constants DEF SessionRespond, ModelTypes
        <3>4. modelInbox' = modelInbox /\ modelOut' = modelOut
            BY <2>5 DEF SessionRespond
        <3> QED
            BY <1>0, <3>2, <3>3, <3>4 DEF ModelTypes
    <2> QED
        BY <2>1, <2>2, <2>3, <2>4, <2>5 DEF ModelStep
<1>2. UNCHANGED <<convVars, engine, toolVars, userVars>>
    BY DEF ModelStep, ModelTake, ModelArm, ModelEmit, SessionTake, SessionRespond
<1> QED
    BY <1>1, <1>2, StayTypes DEF TypeInv

LEMMA AdmitType ==
    ASSUME NEW cs \in Seq(CallId)
    PROVE  AdmitCalls(cs) \in Seq(CallId)
BY OnlyType DEF AdmitCalls

(* The deltas of a batch's results.                                        *)
LEMMA ReturnType ==
    ASSUME ToolTypes
    PROVE  LET rs == Map(LAMBDA c : ToolDelta("result", c), tool.calls)
               all == <<ToolDelta("start", 0)>> \o rs \o <<ToolDelta("end", 0)>>
           IN  /\ rs \in Seq(TDelta) /\ Len(rs) = Len(tool.calls)
               /\ \A i \in 1..Len(tool.calls) : rs[i] = ToolDelta("result", tool.calls[i])
               /\ all \in Seq(TDelta) /\ Len(all) = Len(tool.calls) + 2
<1> DEFINE rs == Map(LAMBDA c : ToolDelta("result", c), tool.calls)
           n == Len(tool.calls)
           a == ToolDelta("start", 0)
           b == ToolDelta("end", 0)
<1>1. tool.calls \in Seq(CallId) /\ tool.pass \in Nat
    BY DEF ToolTypes
<1>2. n \in Nat /\ DOMAIN tool.calls = 1..n /\ \A i \in 1..n : tool.calls[i] \in CallId
    BY <1>1
<1>3. rs = [i \in 1..n |-> ToolDelta("result", tool.calls[i])]
    BY <1>2 DEF Map
<1>4. a \in TDelta /\ b \in TDelta
    BY <1>1, Constants DEF ToolDelta, TDelta
<1>5. \A c \in CallId : ToolDelta("result", c) \in TDelta
    <2>1. \A c \in CallId : c \in 0..MaxCalls
        BY Constants DEF CallId
    <2> QED
        BY <1>1, <2>1 DEF ToolDelta, TDelta
<1> DEFINE D(i) == ToolDelta("result", tool.calls[i])
<1> HIDE DEF n
<1>51. \A i \in 1..n : D(i) \in TDelta
    BY <1>2, <1>5
<1>6. /\ rs \in Seq(TDelta) /\ Len(rs) = n
      /\ \A i \in 1..n : rs[i] = ToolDelta("result", tool.calls[i])
    <2>1. rs = [i \in 1..n |-> D(i)]
        BY <1>3
    <2> HIDE DEF D, rs
    <2>2. rs \in Seq(TDelta) /\ Len(rs) = n /\ \A i \in 1..n : rs[i] = D(i)
        BY <1>2, <1>51, <2>1
    <2> QED
        BY <2>2 DEF D
<1> HIDE DEF rs, a, b
<1>7. <<a>> \in Seq(TDelta) /\ Len(<<a>>) = 1 /\ <<b>> \in Seq(TDelta) /\ Len(<<b>>) = 1
    BY <1>4, SingletonType
<1>8. <<a>> \o rs \in Seq(TDelta) /\ Len(<<a>> \o rs) = 1 + n
    BY <1>6, <1>7, ConcatType
<1> DEFINE q == <<a>> \o rs
<1>9. q \in Seq(TDelta) /\ Len(q) = 1 + n
    BY <1>8
<1> HIDE DEF q
<1>10. q \o <<b>> \in Seq(TDelta) /\ Len(q \o <<b>>) = n + 2
    BY <1>2, <1>7, <1>9, ConcatType
<1> QED
    BY <1>6, <1>10 DEF n, rs, a, b, q

LEMMA ToolStepTypes ==
    ASSUME TypeInv, ToolStep
    PROVE  TypeInv'
<1> DEFINE Runner == [pc : {"idle", "taken", "run", "emit"}, pass : Nat,
                      calls : Seq(CallId), todo : Seq(TDelta), cancelled : BOOLEAN]
<1>0. /\ toolInbox \in Seq(ToolBatch) /\ Len(toolInbox) <= ToolCap + 1
      /\ toolOut \in Seq(TDelta) /\ Len(toolOut) <= OutCap
      /\ tool \in Runner /\ (tool.pc = "emit" => tool.todo # <<>>)
      /\ begun \in Seq(CallId)
    BY DEF TypeInv, ToolTypes
<1>1. NoTool \in Runner /\ NoTool.pc = "idle"
    <2>1. <<>> \in Seq(CallId) /\ <<>> \in Seq(TDelta)
        OBVIOUS
    <2> QED
        BY <2>1 DEF NoTool
<1>2. ToolTypes'
    <2>1. CASE ToolTake
        <3>1. /\ Head(toolInbox) \in ToolBatch /\ Tail(toolInbox) \in Seq(ToolBatch)
              /\ Len(Tail(toolInbox)) = Len(toolInbox) - 1
            BY <1>0, <2>1, TailType DEF ToolTake
        <3>2. Len(toolInbox) \in Nat /\ ToolCap \in Nat
            BY <1>0, Constants
        <3>3. toolInbox' \in Seq(ToolBatch) /\ Len(toolInbox') <= ToolCap + 1
            BY <1>0, <2>1, <3>1, <3>2 DEF ToolTake
        <3>4. tool' \in Runner /\ tool'.pc = "taken"
            BY <1>1, <2>1, <3>1 DEF ToolTake, ToolBatch, NoTool
        <3>5. toolOut' = toolOut /\ begun' = begun
            BY <2>1 DEF ToolTake
        <3> QED
            BY <1>0, <3>3, <3>4, <3>5 DEF ToolTypes
    <2>2. CASE ToolStart
        <3> DEFINE calls == AdmitCalls(tool.calls)
        <3>1. calls \in Seq(CallId)
            BY <1>0, AdmitType
        <3>2. /\ begun' = begun \o calls
              /\ tool' = IF calls = <<>> THEN NoTool
                         ELSE [tool EXCEPT !.pc = "run", !.calls = calls]
              /\ toolInbox' = toolInbox /\ toolOut' = toolOut
            BY <2>2 DEF ToolStart
        <3> HIDE DEF calls
        <3>3. begun' \in Seq(CallId)
            BY <1>0, <3>1, <3>2, ConcatType
        <3>4. tool' \in Runner /\ tool'.pc # "emit"
            BY <1>0, <1>1, <3>1, <3>2
        <3> QED
            BY <1>0, <3>2, <3>3, <3>4 DEF ToolTypes
    <2>3. CASE ToolReturn
        <3> DEFINE all == <<ToolDelta("start", 0)>>
                          \o Map(LAMBDA c : ToolDelta("result", c), tool.calls)
                          \o <<ToolDelta("end", 0)>>
        <3>1. all \in Seq(TDelta) /\ Len(all) = Len(tool.calls) + 2
            BY ReturnType DEF TypeInv
        <3>2. tool' = [tool EXCEPT !.pc = "emit", !.todo = all]
              /\ UNCHANGED <<toolInbox, toolOut, begun>>
            BY <2>3 DEF ToolReturn
        <3> HIDE DEF all
        <3>3. all # <<>>
            <4>1. Len(tool.calls) \in Nat /\ Len(<<>>) = 0
                BY <1>0
            <4> QED
                BY <3>1, <4>1
        <3>4. tool' \in Runner /\ tool'.todo = all
            BY <1>0, <3>1, <3>2
        <3> QED
            BY <1>0, <3>2, <3>3, <3>4 DEF ToolTypes
    <2>4. CASE ToolFail
        <3> DEFINE e == ToolDelta("err", 0)
        <3>1. e \in TDelta
            BY <1>0, Constants DEF ToolDelta, TDelta
        <3>2. tool' = [tool EXCEPT !.pc = "emit", !.todo = <<e>>]
              /\ UNCHANGED <<toolInbox, toolOut, begun>>
            BY <2>4 DEF ToolFail
        <3> HIDE DEF e
        <3>3. <<e>> \in Seq(TDelta) /\ <<e>> # <<>>
            BY <3>1
        <3>4. tool' \in Runner /\ tool'.todo = <<e>>
            BY <1>0, <3>2, <3>3
        <3> QED
            BY <1>0, <3>2, <3>3, <3>4 DEF ToolTypes
    <2>5. CASE ToolEmit
        <3> DEFINE td == tool.todo
        <3>1. td \in Seq(TDelta) /\ td # <<>> /\ Len(toolOut) < OutCap
            BY <1>0, <2>5 DEF ToolEmit
        <3>2. /\ toolOut' = Append(toolOut, Head(td))
              /\ tool' = IF Len(td) = 1 THEN NoTool ELSE [tool EXCEPT !.todo = Tail(td)]
              /\ toolInbox' = toolInbox /\ begun' = begun
            BY <2>5 DEF ToolEmit
        <3> HIDE DEF td
        <3>3. Head(td) \in TDelta /\ Tail(td) \in Seq(TDelta) /\ Len(Tail(td)) = Len(td) - 1
            BY <3>1, TailType
        <3>4. toolOut' \in Seq(TDelta) /\ Len(toolOut') = Len(toolOut) + 1
            BY <1>0, <3>2, <3>3, AppendType
        <3>5. Len(toolOut') <= OutCap
            <4>1. Len(toolOut) \in Nat /\ OutCap \in Nat
                BY <1>0, Constants
            <4> QED
                BY <3>1, <3>4, <4>1
        <3>6. Len(td) # 1 => Tail(td) # <<>>
            <4>1. Len(td) \in Nat /\ Len(<<>>) = 0
                BY <3>1
            <4> QED
                BY <3>3, <4>1
        <3>7. tool' \in Runner /\ (tool'.pc = "emit" => tool'.todo # <<>>)
            BY <1>0, <1>1, <3>2, <3>3, <3>6
        <3> QED
            BY <1>0, <3>2, <3>4, <3>5, <3>7 DEF ToolTypes
    <2> QED
        BY <2>1, <2>2, <2>3, <2>4, <2>5 DEF ToolStep
<1>3. UNCHANGED <<convVars, engine, modelVars, userVars>>
    BY DEF ToolStep, ToolTake, ToolStart, ToolReturn, ToolFail, ToolEmit
<1> QED
    BY <1>2, <1>3, StayTypes DEF TypeInv

(* What a tick that reads a model delta finds at the head of the outbox.   *)
LEMMA HeadModel ==
    ASSUME TypeInv, modelOut # <<>>
    PROVE  /\ Head(modelOut) \in MDelta
           /\ Tail(modelOut) \in Seq(MDelta) /\ Len(Tail(modelOut)) <= OutCap
<1>1. modelOut \in Seq(MDelta) /\ Len(modelOut) <= OutCap
    BY DEF TypeInv, ModelTypes
<1>2. /\ Head(modelOut) \in MDelta /\ Tail(modelOut) \in Seq(MDelta)
      /\ Len(Tail(modelOut)) = Len(modelOut) - 1
    BY <1>1, TailType
<1>3. Len(modelOut) \in Nat /\ OutCap \in Nat
    BY <1>1, Constants
<1> QED
    BY <1>1, <1>2, <1>3

LEMMA HeadTool ==
    ASSUME TypeInv, toolOut # <<>>
    PROVE  /\ Head(toolOut) \in TDelta
           /\ Tail(toolOut) \in Seq(TDelta) /\ Len(Tail(toolOut)) <= OutCap
<1>1. toolOut \in Seq(TDelta) /\ Len(toolOut) <= OutCap
    BY DEF TypeInv, ToolTypes
<1>2. /\ Head(toolOut) \in TDelta /\ Tail(toolOut) \in Seq(TDelta)
      /\ Len(Tail(toolOut)) = Len(toolOut) - 1
    BY <1>1, TailType
<1>3. Len(toolOut) \in Nat /\ OutCap \in Nat
    BY <1>1, Constants
<1> QED
    BY <1>1, <1>2, <1>3

LEMMA HeadUser ==
    ASSUME TypeInv, userOut # <<>>
    PROVE  Head(userOut) \in UserItem /\ Tail(userOut) \in Seq(UserItem)
BY TailType DEF TypeInv, UserTypes

LEMMA PassTypes ==
    ASSUME passID \in Nat
    PROVE  NextToolPass \in Nat /\ passID + 1 \in Nat
BY DEF NextToolPass

(* ConvTypes from its parts.                                               *)
LEMMA ConvParts ==
    ConvTypes <=> /\ TalkTypes
                  /\ passID \in Nat /\ outstanding \in Nat
                  /\ open \in BOOLEAN /\ needsInf \in BOOLEAN
                  /\ window \in Seq(MDelta) /\ toolWin \in Seq(TDelta)
                  /\ \A d \in Elems(toolWin) : d.kind = "result"
BY DEF ConvTypes, TalkTypes

RunnerType(m) ==
    /\ m \in [pc : {"idle", "taken", "stream"}, pass : Nat, todo : Seq(MDelta)]
    /\ m.pc # "idle" => m.todo # <<>>

(* A tick leaves the model runner alone except for the inbox and the       *)
(* outbox.                                                                 *)
LEMMA ModelParts ==
    ASSUME ModelTypes, UNCHANGED <<nextCall, replies>>,
           model' = model \/ RunnerType(model'),
           modelInbox' \in Seq(Request) /\ Len(modelInbox') <= InboxCap,
           modelOut' \in Seq(MDelta) /\ Len(modelOut') <= OutCap
    PROVE  ModelTypes'
BY DEF ModelTypes, RunnerType

LEMMA TickModelTypes ==
    ASSUME TypeInv,
           TickStaleModel \/ TickModelPart \/ TickReasoningEnd \/ TickModelCalls
             \/ TickModelFinal \/ TickModelError
    PROVE  TypeInv'
<1>0. /\ ConvTypes /\ ModelTypes /\ ToolTypes /\ UserTypes /\ TalkTypes
      /\ modelInbox \in Seq(Request) /\ Len(modelInbox) <= InboxCap
      /\ window \in Seq(MDelta) /\ passID \in Nat /\ outstanding \in Nat
      /\ hist \in Seq(Message) /\ kernel \in Seq(Message) /\ held \in Seq(Message)
      /\ open \in BOOLEAN /\ needsInf \in BOOLEAN
      /\ toolWin \in Seq(TDelta) /\ \A d \in Elems(toolWin) : d.kind = "result"
    BY DEF TypeInv, ConvTypes, ModelTypes, TalkTypes
<1>1. modelOut # <<>>
    BY DEF TickStaleModel, TickModelPart, TickReasoningEnd, TickModelCalls,
           TickModelFinal, TickModelError, ReadModel
<1>2. /\ Head(modelOut) \in MDelta
      /\ Tail(modelOut) \in Seq(MDelta) /\ Len(Tail(modelOut)) <= OutCap
    BY <1>1, HeadModel
<1>3. CallsIn(window) \in Seq(CallId)
    BY <1>0, CallsInType
<1>4. <<>> \in Seq(MDelta)
    OBVIOUS
<1>5. CASE TickStaleModel
    <2>1. ModelTypes'
        <3>1. modelOut' = Tail(modelOut) /\ UNCHANGED <<modelInbox, model, nextCall, replies>>
            BY <1>5 DEF TickStaleModel
        <3> QED
            BY <1>0, <1>2, <3>1, ModelParts
    <2>2. UNCHANGED <<convVars, engine, toolVars, userVars>>
        BY <1>5 DEF TickStaleModel
    <2> QED
        BY <2>1, <2>2, StayTypes DEF TypeInv
<1>6. CASE TickModelPart
    <2>1. ModelTypes'
        <3>1. /\ modelOut' = Tail(modelOut)
              /\ UNCHANGED <<modelInbox, model, nextCall, replies>>
            BY <1>6 DEF TickModelPart, ReadModel
        <3> QED
            BY <1>0, <1>2, <3>1, ModelParts
    <2>2. Append(window, Head(modelOut)) \in Seq(MDelta)
        BY <1>0, <1>2, AppendType
    <2>3. ConvTypes'
        <3>1. /\ window' = Append(window, Head(modelOut)) /\ open' = TRUE
              /\ UNCHANGED <<hist, held, passID, toolWin, outstanding, needsInf, kernel>>
            BY <1>6 DEF TickModelPart
        <3> QED
            BY <1>0, <2>2, <3>1 DEF ConvTypes
    <2>4. UNCHANGED <<engine, toolVars, userVars>>
        BY <1>6 DEF TickModelPart, ReadModel, toolVars
    <2> QED
        BY <2>1, <2>3, <2>4, StayTypes DEF TypeInv
<1>7. CASE TickReasoningEnd
    <2>1. ModelTypes'
        <3>1. /\ modelOut' = Tail(modelOut)
              /\ UNCHANGED <<modelInbox, model, nextCall, replies>>
            BY <1>7 DEF TickReasoningEnd, ReadModel
        <3> QED
            BY <1>0, <1>2, <3>1, ModelParts
    <2>2. TalkTypes'
        <3>1. /\ Append(hist, Assistant(<<>>)) \in Seq(Message)
              /\ Append(kernel, Assistant(<<>>)) \in Seq(Message)
            BY <1>0, MessageTypes, AppendType
        <3> QED
            BY <1>0, <1>7, <3>1, KeepTypes DEF TickReasoningEnd
    <2>3. ConvTypes'
        <3>1. /\ window' = <<>> /\ open' = TRUE
              /\ UNCHANGED <<passID, toolWin, outstanding, needsInf>>
            BY <1>7 DEF TickReasoningEnd
        <3> QED
            BY <1>0, <1>4, <2>2, <3>1, ConvParts DEF ConvTypes, TalkTypes
    <2>4. UNCHANGED <<engine, toolVars, userVars>>
        BY <1>7 DEF TickReasoningEnd, ReadModel, toolVars
    <2> QED
        BY <2>1, <2>3, <2>4, StayTypes DEF TypeInv
<1>8. CASE TickModelCalls
    <2> DEFINE calls == CallsIn(window)
               b == [pass |-> passID', calls |-> calls]
    <2>1. ModelTypes'
        <3>1. /\ modelOut' = Tail(modelOut)
              /\ UNCHANGED <<modelInbox, model, nextCall, replies>>
            BY <1>8 DEF TickModelCalls, ReadModel
        <3> QED
            BY <1>0, <1>2, <3>1, ModelParts
    <2>2. TalkTypes'
        <3>1. /\ Append(hist, Assistant(calls)) \in Seq(Message)
              /\ Append(kernel, Assistant(calls)) \in Seq(Message)
            BY <1>0, <1>3, MessageTypes, AppendType
        <3> QED
            BY <1>0, <1>8, <3>1, KeepTypes DEF TickModelCalls
    <2>3. passID' \in Nat /\ outstanding' \in Nat
        BY <1>0, <1>8, PassTypes DEF TickModelCalls
    <2>4. ConvTypes'
        <3>1. /\ window' = <<>> /\ open' = FALSE
              /\ UNCHANGED <<toolWin, needsInf>>
            BY <1>8 DEF TickModelCalls
        <3> QED
            BY <1>0, <1>4, <2>2, <2>3, <3>1 DEF ConvTypes, TalkTypes
    <2>5. ToolTypes'
        <3>1. b \in ToolBatch
            BY <1>3, <2>3 DEF ToolBatch
        <3>2. toolInbox' = Append(toolInbox, b) /\ UNCHANGED <<toolOut, tool, begun>>
            BY <1>8 DEF TickModelCalls, ReadModel
        <3>3. toolInbox \in Seq(ToolBatch) /\ Len(toolInbox) <= ToolCap
            BY <1>0, <1>8 DEF TickModelCalls, ReadModel, Ticking, ToolTypes
        <3> HIDE DEF b
        <3>4. toolInbox' \in Seq(ToolBatch) /\ Len(toolInbox') = Len(toolInbox) + 1
            BY <3>1, <3>2, <3>3, AppendType
        <3>5. Len(toolInbox) \in Nat /\ ToolCap \in Nat
            BY <3>3, Constants
        <3>6. Len(toolInbox') <= ToolCap + 1
            BY <3>3, <3>4, <3>5
        <3> QED
            BY <1>0, <3>2, <3>4, <3>6 DEF ToolTypes
    <2>6. UNCHANGED <<engine, userVars>>
        BY <1>8 DEF TickModelCalls, ReadModel
    <2> QED
        BY <1>0, <2>1, <2>4, <2>5, <2>6, StayTypes DEF TypeInv
<1>9. CASE TickModelFinal
    <2> DEFINE h == Append(hist, Assistant(<<>>))
               k == Append(kernel, Assistant(<<>>))
    <2>1. h \in Seq(Message) /\ k \in Seq(Message)
        BY <1>0, MessageTypes, AppendType
    <2>2. TalkTypes'
        <3>1. PlaceHeld(h, k) \/ KeepHeld(h, k)
            BY <1>9 DEF TickModelFinal
        <3> HIDE DEF h, k
        <3> QED
            BY <1>0, <2>1, <3>1, PlaceTypes, KeepTypes
    <2>3. /\ needsInf' \in BOOLEAN /\ passID' \in Nat
          /\ modelInbox' \in Seq(Request) /\ Len(modelInbox') <= InboxCap
        <3>1. CASE Resume
            <4>1. needsInf' = FALSE /\ passID' = passID + 1 /\ Dispatch(hist', FALSE)
                BY <1>9, <3>1 DEF TickModelFinal, DispatchInference
            <4>2. passID' \in Nat /\ hist' \in Seq(Message)
                BY <1>0, <2>2, <4>1 DEF TalkTypes
            <4> QED
                BY <1>0, <4>1, <4>2, DispatchTypes
        <3>2. CASE ~Resume
            BY <1>0, <1>9, <3>2 DEF TickModelFinal
        <3> QED
            BY <3>1, <3>2
    <2>4. ModelTypes'
        <3>1. /\ modelOut' = Tail(modelOut)
              /\ UNCHANGED <<model, nextCall, replies>>
            BY <1>9 DEF TickModelFinal, ReadModel
        <3> QED
            BY <1>0, <1>2, <2>3, <3>1, ModelParts
    <2>5. ConvTypes'
        <3>1. /\ window' = <<>> /\ open' = FALSE
              /\ UNCHANGED <<toolWin, outstanding>>
            BY <1>9 DEF TickModelFinal
        <3> QED
            BY <1>0, <1>4, <2>2, <2>3, <3>1 DEF ConvTypes, TalkTypes
    <2>6. UNCHANGED <<engine, toolVars, userVars>>
        BY <1>9 DEF TickModelFinal, ReadModel, toolVars
    <2> QED
        BY <1>0, <2>4, <2>5, <2>6, StayTypes DEF TypeInv
<1>10. CASE TickModelError
    <2>1. ModelTypes'
        <3>1. /\ modelOut' = <<>>
              /\ UNCHANGED <<modelInbox, model, nextCall, replies>>
            BY <1>10 DEF TickModelError, ReadModel
        <3>2. Len(<<>>) = 0 /\ OutCap \in Nat
            BY Constants
        <3> QED
            BY <1>0, <1>4, <3>1, <3>2, ModelParts
    <2>2. TalkTypes'
        BY <1>0, <1>10, SettleTypes DEF TickModelError
    <2>3. ConvTypes'
        <3>1. /\ window' = <<>>
              /\ UNCHANGED <<passID, toolWin, open, outstanding, needsInf>>
            BY <1>10 DEF TickModelError
        <3> QED
            BY <1>0, <1>4, <2>2, <3>1 DEF ConvTypes, TalkTypes
    <2>4. UNCHANGED <<toolVars, userVars>> /\ engine' = "failed"
        BY <1>10 DEF TickModelError, ReadModel, toolVars
    <2> QED
        BY <1>0, <2>1, <2>3, <2>4, StayTypes DEF TypeInv
<1> QED
    BY <1>5, <1>6, <1>7, <1>8, <1>9, <1>10

(* The results of a batch, as messages.                                    *)
LEMMA BatchMessages ==
    ASSUME ConvTypes
    PROVE  LET rs == Map(LAMBDA d : Result(d.call), toolWin)
           IN  /\ rs \in Seq(Message) /\ Len(rs) = Len(toolWin)
               /\ \A i \in 1..Len(toolWin) : rs[i] = Result(toolWin[i].call)
               /\ \A m \in Elems(rs) : m.role = "tool"
<1> DEFINE rs == Map(LAMBDA d : Result(d.call), toolWin)
           n == Len(toolWin)
           D(i) == Result(toolWin[i].call)
<1>1. toolWin \in Seq(TDelta) /\ n \in Nat /\ DOMAIN toolWin = 1..n
    BY DEF ConvTypes
<1>2. \A i \in 1..n : toolWin[i] \in TDelta /\ toolWin[i].kind = "result"
    BY <1>1, ElemsType DEF ConvTypes
<1>3. \A i \in 1..n : toolWin[i].call \in CallId
    BY <1>2 DEF TDelta
<1>4. \A i \in 1..n : D(i) \in Message /\ D(i).role = "tool"
    BY <1>3, MessageTypes DEF Result
<1>5. rs = [i \in 1..n |-> D(i)]
    BY <1>1 DEF Map
<1> HIDE DEF n, D, rs
<1>6. rs \in Seq(Message) /\ Len(rs) = n /\ \A i \in 1..n : rs[i] = D(i)
    BY <1>1, <1>4, <1>5
<1>7. \A m \in Elems(rs) : \E i \in 1..n : m = D(i)
    BY <1>6 DEF Elems
<1>8. \A m \in Elems(rs) : m.role = "tool"
    BY <1>4, <1>7
<1> QED
    BY <1>6, <1>8 DEF n, D, rs

LEMMA TickToolTypes ==
    ASSUME TypeInv, TickStaleTool \/ TickToolPart \/ TickToolEnd \/ TickToolError
    PROVE  TypeInv'
<1>0. /\ ConvTypes /\ ModelTypes /\ ToolTypes /\ UserTypes /\ TalkTypes
      /\ modelInbox \in Seq(Request) /\ Len(modelInbox) <= InboxCap
      /\ modelOut \in Seq(MDelta) /\ Len(modelOut) <= OutCap
      /\ window \in Seq(MDelta) /\ passID \in Nat /\ outstanding \in Nat
      /\ hist \in Seq(Message) /\ kernel \in Seq(Message) /\ held \in Seq(Message)
      /\ open \in BOOLEAN /\ needsInf \in BOOLEAN
      /\ toolWin \in Seq(TDelta) /\ \A d \in Elems(toolWin) : d.kind = "result"
    BY DEF TypeInv, ConvTypes, ModelTypes, TalkTypes
<1>1. toolOut # <<>> /\ toolOut' = Tail(toolOut) /\ UNCHANGED <<toolInbox, tool, begun, engine, userVars>>
    BY DEF TickStaleTool, TickToolPart, TickToolEnd, TickToolError, ReadTool
<1>2. /\ Head(toolOut) \in TDelta
      /\ Tail(toolOut) \in Seq(TDelta) /\ Len(Tail(toolOut)) <= OutCap
    BY <1>1, HeadTool
<1>3. ToolTypes'
    BY <1>0, <1>1, <1>2 DEF ToolTypes
<1>4. UserTypes' /\ engine' \in {"running", "failed", "stopped"}
    BY <1>1, StayTypes DEF TypeInv
<1>5. CASE TickStaleTool
    <2>1. UNCHANGED <<convVars, modelVars>>
        BY <1>5 DEF TickStaleTool
    <2> QED
        BY <1>0, <1>3, <1>4, <2>1, StayTypes DEF TypeInv
<1>6. CASE TickToolPart
    <2>1. UNCHANGED <<modelVars, hist, held, passID, window, open, outstanding, needsInf, kernel>>
        BY <1>6 DEF TickToolPart, ReadTool, modelVars
    <2>2. toolWin' \in Seq(TDelta) /\ \A d \in Elems(toolWin') : d.kind = "result"
        <3>1. CASE Head(toolOut).kind = "start"
            <4>1. toolWin' = <<>> /\ Elems(<<>>) = {}
                BY <1>6, <3>1, ElemsSmall DEF TickToolPart
            <4>2. <<>> \in Seq(TDelta)
                OBVIOUS
            <4> QED
                BY <4>1, <4>2
        <3>2. CASE Head(toolOut).kind # "start"
            <4>1. toolWin' = Append(toolWin, Head(toolOut)) /\ Head(toolOut).kind = "result"
                BY <1>6, <3>2 DEF TickToolPart, ReadTool
            <4> QED
                BY <1>0, <1>2, <4>1, AppendType, ElemsAppend
        <3> QED
            BY <3>1, <3>2
    <2>3. ConvTypes'
        BY <1>0, <2>1, <2>2 DEF ConvTypes
    <2>4. ModelTypes'
        BY <1>0, <2>1, StayTypes
    <2> QED
        BY <1>3, <1>4, <2>3, <2>4 DEF TypeInv
<1>7. CASE TickToolEnd
    <2> DEFINE rs == Map(LAMBDA d : Result(d.call), toolWin)
               h == hist \o rs
               k == kernel \o rs
    <2>1. rs \in Seq(Message)
        BY <1>0, BatchMessages
    <2>2. h \in Seq(Message) /\ k \in Seq(Message)
        <3> HIDE DEF rs
        <3> QED
            BY <1>0, <2>1, ConcatType
    <2>3. PlaceHeld(h, k) \/ KeepHeld(h, k)
        BY <1>7 DEF TickToolEnd
    <2>4. Dispatch(h, FALSE) \/ Dispatch(hist', FALSE)
        BY <1>7 DEF TickToolEnd
    <2>5. passID' \in Nat /\ outstanding' \in Nat /\ needsInf' \in BOOLEAN
        <3>1. passID' \in Nat
            BY <1>0, <1>7, PassTypes DEF TickToolEnd
        <3>2. outstanding' = IF outstanding > 0 THEN outstanding - 1 ELSE 0
            BY <1>7 DEF TickToolEnd
        <3>3. needsInf' \in {FALSE, needsInf}
            BY <1>7 DEF TickToolEnd
        <3>4. outstanding' \in Nat
            BY <1>0, <3>2
        <3>5. needsInf' \in BOOLEAN
            BY <1>0, <3>3
        <3> QED
            BY <3>1, <3>4, <3>5
    <2>6. window' = <<>> /\ UNCHANGED <<toolWin, open, modelOut, model, nextCall, replies>>
        BY <1>7 DEF TickToolEnd, ReadTool
    <2> HIDE DEF rs, h, k
    <2>7. TalkTypes'
        BY <1>0, <2>2, <2>3, PlaceTypes, KeepTypes
    <2>8. hist' \in Seq(Message)
        BY <2>7 DEF TalkTypes
    <2>9. modelInbox' \in Seq(Request) /\ Len(modelInbox') <= InboxCap
        BY <1>0, <2>2, <2>4, <2>5, <2>8, DispatchTypes
    <2>10. ModelTypes'
        BY <1>0, <2>6, <2>9, ModelParts
    <2>11. <<>> \in Seq(MDelta)
        OBVIOUS
    <2>12. ConvTypes'
        BY <1>0, <2>5, <2>6, <2>7, <2>11 DEF ConvTypes, TalkTypes
    <2> QED
        BY <1>3, <1>4, <2>10, <2>12 DEF TypeInv
<1>8. CASE TickToolError
    <2>1. PlaceHeld(hist, kernel) \/ KeepHeld(hist, kernel)
        BY <1>8 DEF TickToolError
    <2>2. TalkTypes'
        BY <1>0, <2>1, PlaceTypes, KeepTypes
    <2>3. UNCHANGED <<modelVars, passID, window, toolWin, open, outstanding, needsInf>>
        BY <1>8 DEF TickToolError, ReadTool, modelVars
    <2>4. ConvTypes'
        BY <1>0, <2>2, <2>3 DEF ConvTypes, TalkTypes
    <2> QED
        BY <1>0, <1>3, <1>4, <2>3, <2>4, StayTypes DEF TypeInv
<1> QED
    BY <1>5, <1>6, <1>7, <1>8

LEMMA CancelModelType ==
    ASSUME ModelTypes, CancelModel
    PROVE  model' = model \/ RunnerType(model')
<1> SUFFICES ASSUME model.pc = "stream" PROVE RunnerType(model')
    BY DEF CancelModel
<1> DEFINE td == model.todo
           head == Head(td)
           err == [pass |-> model.pass, kind |-> "err", call |-> 0]
<1>1. td \in Seq(MDelta) /\ td # <<>> /\ model.pass \in Nat
      /\ model \in [pc : {"idle", "taken", "stream"}, pass : Nat, todo : Seq(MDelta)]
    BY DEF ModelTypes
<1>2. head \in MDelta
    BY <1>1, TailType
<1>3. err \in MDelta
    BY <1>1, Constants DEF MDelta, PartKind
<1>4. PICK q \in {<<err>>, <<head>>, <<head, err>>} : model' = [model EXCEPT !.todo = q]
    BY DEF CancelModel
<1> HIDE DEF td, head, err
<1>5. q \in Seq(MDelta) /\ q # <<>>
    <2>1. <<err>> \in Seq(MDelta) /\ <<head>> \in Seq(MDelta) /\ <<head, err>> \in Seq(MDelta)
        BY <1>2, <1>3
    <2>2. <<err>> # <<>> /\ <<head>> # <<>> /\ <<head, err>> # <<>>
        OBVIOUS
    <2> QED
        BY <1>4, <2>1, <2>2
<1> QED
    BY <1>1, <1>4, <1>5 DEF RunnerType

LEMMA PartialType ==
    ASSUME window \in Seq(MDelta)
    PROVE  /\ Partial \in Seq(Message)
           /\ \A m \in Elems(Partial) : m.role = "assistant"
<1>1. CallsIn(window) \in Seq(CallId)
    BY CallsInType
<1>2. Assistant(CallsIn(window)) \in Message /\ Assistant(CallsIn(window)).role = "assistant"
    BY <1>1, MessageTypes DEF Assistant
<1> DEFINE a == Assistant(CallsIn(window))
<1>3. Partial = <<>> \/ Partial = <<a>>
    BY DEF Partial
<1> HIDE DEF a
<1>4. <<>> \in Seq(Message) /\ Elems(<<>>) = {} /\ Elems(<<a>>) = {a}
    <2>1. <<>> \in Seq(Message)
        OBVIOUS
    <2> QED
        BY <2>1, ElemsSmall
<1>5. a \in Message /\ a.role = "assistant" /\ <<a>> \in Seq(Message)
    BY <1>2 DEF a
<1> QED
    BY <1>3, <1>4, <1>5

LEMMA TickUserTypes ==
    ASSUME TypeInv, TickUser \/ TickUserHeld \/ TickInterrupt \/ TickClose
    PROVE  TypeInv'
<1>0. /\ ConvTypes /\ ModelTypes /\ ToolTypes /\ UserTypes /\ TalkTypes
      /\ modelInbox \in Seq(Request) /\ Len(modelInbox) <= InboxCap
      /\ modelOut \in Seq(MDelta) /\ Len(modelOut) <= OutCap
      /\ window \in Seq(MDelta) /\ passID \in Nat /\ outstanding \in Nat
      /\ hist \in Seq(Message) /\ kernel \in Seq(Message) /\ held \in Seq(Message)
      /\ open \in BOOLEAN /\ needsInf \in BOOLEAN
      /\ toolWin \in Seq(TDelta) /\ \A d \in Elems(toolWin) : d.kind = "result"
      /\ \A m \in Elems(held) : m.role = "user"
    BY DEF TypeInv, ConvTypes, ModelTypes, TalkTypes
<1>1. /\ userOut # <<>> /\ userOut' = Tail(userOut)
      /\ UNCHANGED <<engine, modelOut, nextCall, replies, toolInbox, toolOut, begun, nextTurn, interrupts>>
    BY DEF TickUser, TickUserHeld, TickInterrupt, TickClose, ReadUser
<1>2. Head(userOut) \in UserItem /\ Tail(userOut) \in Seq(UserItem)
    BY <1>1, HeadUser
<1>3. UserTypes' /\ engine' \in {"running", "failed", "stopped"}
    BY <1>0, <1>1, <1>2 DEF TypeInv, UserTypes
<1>4. Head(userOut).id \in 0..MaxTurns
      /\ (Head(userOut).kind = "turn" => Head(userOut).id \in 1..MaxTurns)
    BY <1>2, Constants DEF UserItem
<1>5. <<>> \in Seq(MDelta)
    OBVIOUS
<1>6. CASE TickUser
    <2> DEFINE m == User(Head(userOut).id)
    <2>1. m \in Message
        BY <1>4, <1>6, MessageTypes DEF TickUser, ReadUser
    <2>2. KeepHeld(Append(hist, m), Append(kernel, m))
        BY <1>6 DEF TickUser
    <2>3. passID' = passID + 1 /\ Dispatch(hist', FALSE)
        BY <1>6 DEF TickUser, DispatchInference
    <2>4. window' = <<>> /\ UNCHANGED <<toolWin, open, outstanding, needsInf, model, tool>>
        BY <1>6 DEF TickUser
    <2> HIDE DEF m
    <2>5. Append(hist, m) \in Seq(Message) /\ Append(kernel, m) \in Seq(Message)
        BY <1>0, <2>1, AppendType
    <2>6. TalkTypes'
        BY <1>0, <2>2, <2>5, KeepTypes
    <2>7. passID' \in Nat /\ hist' \in Seq(Message)
        BY <1>0, <2>3, <2>6 DEF TalkTypes
    <2>8. modelInbox' \in Seq(Request) /\ Len(modelInbox') <= InboxCap
        BY <1>0, <2>3, <2>7, DispatchTypes
    <2>9. ModelTypes'
        BY <1>0, <1>1, <2>4, <2>8, ModelParts
    <2>10. ConvTypes'
        BY <1>0, <1>5, <2>4, <2>6, <2>7 DEF ConvTypes, TalkTypes
    <2>11. ToolTypes'
        BY <1>0, <1>1, <2>4, StayTypes DEF toolVars
    <2> QED
        BY <1>3, <2>9, <2>10, <2>11 DEF TypeInv
<1>7. CASE TickUserHeld
    <2> DEFINE m == User(Head(userOut).id)
    <2>1. m \in Message /\ m.role = "user"
        BY <1>4, <1>7, MessageTypes DEF TickUserHeld, ReadUser
    <2>2. held' = Append(held, m) /\ UNCHANGED <<hist, window, toolWin, open, outstanding, kernel, model, tool>>
        BY <1>7 DEF TickUserHeld
    <2>3. \/ passID' = passID + 1 /\ Dispatch(hist \o held', FALSE) /\ needsInf' = needsInf
          \/ needsInf' = TRUE /\ UNCHANGED <<passID, modelInbox>>
        BY <1>7 DEF TickUserHeld, DispatchInference
    <2> HIDE DEF m
    <2>4. held' \in Seq(Message) /\ Elems(held') = Elems(held) \cup {m}
        BY <1>0, <2>1, <2>2, AppendType, ElemsAppend
    <2>5. hist \o held' \in Seq(Message)
        BY <1>0, <2>4, ConcatType
    <2>6. passID' \in Nat
        <3>1. passID' = passID + 1 \/ passID' = passID
            BY <2>3
        <3> QED
            BY <1>0, <3>1
    <2>7. needsInf' \in BOOLEAN
        <3>1. needsInf' = TRUE \/ needsInf' = needsInf
            BY <2>3
        <3> QED
            BY <1>0, <3>1
    <2>8. modelInbox' \in Seq(Request) /\ Len(modelInbox') <= InboxCap
        BY <1>0, <2>3, <2>5, <2>6, DispatchTypes
    <2>9. ModelTypes'
        BY <1>0, <1>1, <2>2, <2>8, ModelParts
    <2>10. ConvTypes'
        BY <1>0, <2>1, <2>2, <2>4, <2>6, <2>7 DEF ConvTypes
    <2>11. ToolTypes'
        BY <1>0, <1>1, <2>2, StayTypes DEF toolVars
    <2> QED
        BY <1>3, <2>9, <2>10, <2>11 DEF TypeInv
<1>8. CASE TickInterrupt
    <2> DEFINE id == Head(userOut).id
               saved == hist \o Partial
               results == CancelledResults(saved)
               follow == IF id = 0 THEN <<>> ELSE <<User(id)>>
    <2>1. saved \in Seq(Message)
        BY <1>0, PartialType, ConcatType
    <2>2. /\ hist' = saved \o results \o held \o follow
          /\ kernel' = kernel \o results \o held
          /\ held' = <<>> /\ window' = <<>> /\ passID' = passID + 1
          /\ Dispatch(hist', id = 0)
          /\ open' = FALSE /\ outstanding' = 0 /\ needsInf' = FALSE /\ toolWin' = toolWin
          /\ CancelModel /\ CancelTool
        BY <1>8 DEF TickInterrupt
    <2>3. follow \in Seq(Message)
        <3>1. <<>> \in Seq(Message)
            OBVIOUS
        <3>2. id # 0 => id \in 1..MaxTurns
            BY <1>4, Constants
        <3>3. id # 0 => User(id) \in Message
            BY <3>2, MessageTypes
        <3>4. id # 0 => <<User(id)>> \in Seq(Message)
            BY <3>3, SingletonType
        <3> QED
            BY <3>1, <3>4
    <2> HIDE DEF saved, follow
    <2>4. results \in Seq(Message)
        BY <2>1, CancelledType
    <2> HIDE DEF results
    <2>5. saved \o results \in Seq(Message) /\ kernel \o results \in Seq(Message)
        BY <1>0, <2>1, <2>4, ConcatType
    <2>6. saved \o results \o held \in Seq(Message) /\ kernel' \in Seq(Message)
        BY <1>0, <2>2, <2>5, ConcatType
    <2>7. hist' \in Seq(Message)
        BY <2>2, <2>3, <2>6, ConcatType
    <2>8. passID' \in Nat /\ (id = 0) \in BOOLEAN
        BY <1>0, <2>2
    <2>9. modelInbox' \in Seq(Request) /\ Len(modelInbox') <= InboxCap
        BY <1>0, <2>2, <2>7, <2>8, DispatchTypes
    <2>10. ModelTypes'
        BY <1>0, <1>1, <2>2, <2>9, CancelModelType, ModelParts
    <2>11. <<>> \in Seq(Message) /\ Elems(<<>>) = {}
        <3>1. <<>> \in Seq(Message)
            OBVIOUS
        <3> QED
            BY <3>1, ElemsSmall
    <2>12. ConvTypes'
        BY <1>0, <1>5, <2>2, <2>6, <2>7, <2>8, <2>11 DEF ConvTypes
    <2>13. ToolTypes'
        BY <1>0, <1>1, <2>2 DEF CancelTool, ToolTypes
    <2> QED
        BY <1>3, <2>10, <2>12, <2>13 DEF TypeInv
<1>9. CASE TickClose
    <2>1. TalkTypes'
        BY <1>0, <1>9, PlaceTypes DEF TickClose
    <2>2. UNCHANGED <<passID, window, toolWin, open, outstanding, needsInf, model, tool, modelInbox>>
        BY <1>9 DEF TickClose
    <2>3. ConvTypes'
        BY <1>0, <2>1, <2>2 DEF ConvTypes, TalkTypes
    <2>4. ModelTypes' /\ ToolTypes'
        BY <1>0, <1>1, <2>2, StayTypes DEF modelVars, toolVars
    <2> QED
        BY <1>3, <2>3, <2>4 DEF TypeInv
<1> QED
    BY <1>6, <1>7, <1>8, <1>9

LEMMA NextTypes == TypeInv /\ [Next]_vars => TypeInv'
<1> SUFFICES ASSUME TypeInv, [Next]_vars PROVE TypeInv'
    OBVIOUS
<1>1. CASE Caller
    BY <1>1, CallerTypes
<1>2. CASE ModelStep
    BY <1>2, ModelStepTypes
<1>3. CASE ToolStep
    BY <1>3, ToolStepTypes
<1>4. CASE Tick
    BY <1>4, TickModelTypes, TickToolTypes, TickUserTypes DEF Tick
<1>5. CASE Stop
    <2>1. TalkTypes
        BY DEF TypeInv, ConvTypes, TalkTypes
    <2>2. TalkTypes'
        BY <1>5, <2>1, SettleTypes DEF Stop
    <2>3. UNCHANGED <<passID, window, toolWin, open, outstanding, needsInf>>
        BY <1>5 DEF Stop
    <2>4. ConvTypes'
        BY <2>2, <2>3 DEF TypeInv, ConvTypes, TalkTypes
    <2>5. UNCHANGED <<modelVars, toolVars, userVars>> /\ engine' = "stopped"
        BY <1>5 DEF Stop
    <2> QED
        BY <2>4, <2>5, StayTypes DEF TypeInv
<1>6. CASE UNCHANGED vars
    BY <1>6, StayTypes DEF TypeInv, vars
<1> QED
    BY <1>1, <1>2, <1>3, <1>4, <1>5, <1>6 DEF Next

LEMMA Typed == Spec => []TypeInv
BY InitTypes, NextTypes, PTL DEF Spec

(* The conversation, the channels and the runners keep their shapes and    *)
(* capacities: no tick writes past ModelInbox, none but the one waiting    *)
(* for room past ToolInbox, and no runner past its DeltaOutbox.            *)
THEOREM TypeCorrect == Spec => []TypeOK
<1>1. TypeInv => TypeOK
    <2> SUFFICES ASSUME TypeInv PROVE TypeOK
        OBVIOUS
    <2> DEFINE a == hist \o held
               b == hist \o held \o kernel
    <2>1. a \in Seq(Message)
        BY ConcatType DEF TypeInv, ConvTypes
    <2> HIDE DEF a
    <2>2. a \o kernel \in Seq(Message)
        BY <2>1, ConcatType DEF TypeInv, ConvTypes
    <2>3. b \in Seq(Message)
        BY <2>2 DEF a
    <2> HIDE DEF b
    <2>4. \A m \in Elems(b) : m \in Message
        BY <2>3, ElemsType
    <2>5. \A m \in Elems(hist \o held \o kernel) : m \in Message
        BY <2>4 DEF b
    <2> QED
        BY <2>5 DEF TypeInv, TypeOK, ConvTypes, ModelTypes, ToolTypes, UserTypes
<1> QED
    BY <1>1, Typed, PTL

-----------------------------------------------------------------------------
(* Held turns                                                              *)

(* Every action but these leaves the held turns and what they wait for.    *)
waitVars == <<held, engine, open, outstanding, needsInf>>

LEMMA WaitStays ==
    ASSUME Caller \/ ModelStep \/ ToolStep \/ TickStaleModel \/ TickStaleTool
             \/ TickToolPart
    PROVE  UNCHANGED <<waitVars, hist, kernel>>
<1>1. CASE Caller
    BY <1>1 DEF Caller, Send, SendInterrupt, SendClose, waitVars, convVars
<1>2. CASE ModelStep
    BY <1>2 DEF ModelStep, ModelTake, ModelArm, ModelEmit, SessionTake, SessionRespond,
                waitVars, convVars
<1>3. CASE ToolStep
    BY <1>3 DEF ToolStep, ToolTake, ToolStart, ToolReturn, ToolFail, ToolEmit,
                waitVars, convVars
<1>4. CASE TickStaleModel \/ TickStaleTool
    BY <1>4 DEF TickStaleModel, TickStaleTool, waitVars, convVars
<1>5. CASE TickToolPart
    BY <1>5 DEF TickToolPart, ReadTool, waitVars
<1> QED
    BY <1>1, <1>2, <1>3, <1>4, <1>5

LEMMA NextAwaited ==
    TypeInv /\ HeldTurnsAwaited /\ [Next]_vars => HeldTurnsAwaited'
<1> SUFFICES ASSUME TypeInv, HeldTurnsAwaited, [Next]_vars PROVE HeldTurnsAwaited'
    OBVIOUS
<1>0. outstanding \in Nat
    BY DEF TypeInv, ConvTypes
<1>1. CASE UNCHANGED waitVars
    BY <1>1 DEF waitVars, HeldTurnsAwaited
<1>2. CASE held' = <<>>
    BY <1>2 DEF HeldTurnsAwaited
<1>3. CASE TickModelPart \/ TickReasoningEnd
    BY <1>3 DEF TickModelPart, TickReasoningEnd, KeepHeld, HeldTurnsAwaited
<1>4. CASE TickModelCalls
    <2>1. outstanding' > 0
        BY <1>0, <1>4 DEF TickModelCalls
    <2> QED
        BY <1>4, <2>1 DEF TickModelCalls, KeepHeld, HeldTurnsAwaited
<1>5. CASE TickModelFinal
    <2>1. held' = <<>> \/ (Duplex /\ outstanding' > 0 /\ held' = held /\ engine' = engine)
        BY <1>5 DEF TickModelFinal, PlaceHeld, KeepHeld, Holding
    <2> QED
        BY <1>2, <2>1 DEF HeldTurnsAwaited
<1>6. CASE TickToolEnd
    <2>1. \/ held' = <<>>
          \/ /\ open' \/ outstanding' > 0
             /\ held' = held /\ engine' = engine /\ needsInf' = needsInf
        BY <1>6 DEF TickToolEnd, PlaceHeld, KeepHeld, Holding, ReadTool
    <2> QED
        BY <1>2, <2>1 DEF HeldTurnsAwaited
<1>7. CASE TickToolError
    <2>1. held' = <<>> \/ UNCHANGED waitVars
        BY <1>7 DEF TickToolError, PlaceHeld, KeepHeld, ReadTool, waitVars
    <2> QED
        BY <1>1, <1>2, <2>1
<1>8. CASE TickUser
    <2>1. ~(open \/ outstanding > 0) /\ held' = held
        BY <1>8 DEF TickUser, Holding, KeepHeld
    <2> QED
        BY <1>2, <2>1 DEF HeldTurnsAwaited
<1>9. CASE TickUserHeld
    <2>1. /\ engine' = "running" /\ (open' \/ outstanding' > 0)
          /\ Duplex \/ needsInf'
        BY <1>9 DEF TickUserHeld, ReadUser, Ticking, Holding
    <2> QED
        BY <2>1 DEF HeldTurnsAwaited
<1>10. CASE TickModelError \/ TickInterrupt \/ TickClose \/ Stop
    BY <1>2, <1>10 DEF TickModelError, TickInterrupt, TickClose, Stop, SettleHeld, PlaceHeld
<1>11. CASE UNCHANGED vars
    BY <1>1, <1>11 DEF vars, waitVars, convVars
<1> QED
    BY <1>1, <1>3, <1>4, <1>5, <1>6, <1>7, <1>8, <1>9, <1>10, <1>11, WaitStays
    DEF Next, Tick

(* No user turn is ever held by an exchange that is already over: while    *)
(* HeldUserMessages has an entry a response or a batch is open, and in a   *)
(* turn-based loop the turn's inference is still owed.                     *)
THEOREM Awaited == Spec => []HeldTurnsAwaited
<1>1. Init => HeldTurnsAwaited
    BY DEF Init, HeldTurnsAwaited
<1> QED
    BY <1>1, NextAwaited, Typed, PTL DEF Spec

-----------------------------------------------------------------------------
(* The full-message stream of a duplex session                             *)

(* A duplex caller sends no interrupt.                                     *)
NoInterrupts == \A u \in Elems(userOut) : u.kind # "interrupt"

LEMMA NextUninterrupted ==
    ASSUME Duplex
    PROVE  TypeInv /\ NoInterrupts /\ [Next]_vars => NoInterrupts'
<1> SUFFICES ASSUME TypeInv, NoInterrupts, [Next]_vars PROVE NoInterrupts'
    OBVIOUS
<1>0. userOut \in Seq(UserItem) /\ nextTurn \in 0..MaxTurns
    BY DEF TypeInv, UserTypes
<1>1. CASE userOut' = userOut
    BY <1>1 DEF NoInterrupts
<1>2. CASE Caller
    <2> DEFINE x == IF Send THEN [kind |-> "turn", id |-> nextTurn + 1]
                    ELSE [kind |-> "close", id |-> 0]
    <2>1. userOut' = Append(userOut, x)
        BY <1>2 DEF Caller, Send, SendInterrupt, SendClose
    <2>2. x.kind # "interrupt"
        OBVIOUS
    <2>3. x \in UserItem
        <3>1. Send => nextTurn + 1 \in 0..MaxTurns /\ nextTurn + 1 > 0
            BY <1>0, Constants DEF Send
        <3>2. 0 \in 0..MaxTurns
            BY Constants
        <3> QED
            BY <3>1, <3>2 DEF UserItem
    <2> HIDE DEF x
    <2>4. Elems(userOut') = Elems(userOut) \cup {x}
        BY <1>0, <2>1, <2>3, ElemsAppend
    <2> QED
        BY <2>2, <2>4 DEF NoInterrupts
<1>3. CASE userOut # <<>> /\ userOut' = Tail(userOut)
    BY <1>0, <1>3, ElemsTail DEF NoInterrupts
<1>4. ModelStep \/ ToolStep \/ Stop \/ UNCHANGED vars => userOut' = userOut
    BY DEF ModelStep, ModelTake, ModelArm, ModelEmit, SessionTake, SessionRespond,
           ToolStep, ToolTake, ToolStart, ToolReturn, ToolFail, ToolEmit, Stop,
           vars, userVars
<1>5. TickUser \/ TickUserHeld \/ TickInterrupt \/ TickClose
        => userOut # <<>> /\ userOut' = Tail(userOut)
    BY DEF TickUser, TickUserHeld, TickInterrupt, TickClose, ReadUser
<1>6. TickStaleModel \/ TickModelPart \/ TickReasoningEnd \/ TickModelCalls
        \/ TickModelFinal \/ TickModelError \/ TickStaleTool \/ TickToolPart
        \/ TickToolEnd \/ TickToolError => userOut' = userOut
    BY DEF TickStaleModel, TickModelPart, TickReasoningEnd, TickModelCalls,
           TickModelFinal, TickModelError, TickStaleTool, TickToolPart, TickToolEnd,
           TickToolError, ReadModel, ReadTool, userVars
<1> QED
    BY <1>1, <1>2, <1>3, <1>4, <1>5, <1>6 DEF Next, Tick

LEMMA NextAgrees ==
    ASSUME Duplex
    PROVE  TypeInv /\ NoInterrupts /\ KernelAgrees /\ [Next]_vars => KernelAgrees'
<1> SUFFICES ASSUME TypeInv, NoInterrupts, KernelAgrees, [Next]_vars,
                    engine' = "running"
             PROVE  kernel' = hist'
    BY DEF KernelAgrees
<1>1. engine = "running" => kernel = hist
    BY DEF KernelAgrees
<1>2. CASE Caller \/ ModelStep \/ ToolStep \/ TickStaleModel \/ TickStaleTool \/ TickToolPart
    BY <1>1, <1>2, WaitStays DEF waitVars
<1>3. CASE TickModelPart \/ TickUserHeld
    BY <1>1, <1>3 DEF TickModelPart, TickUserHeld, ReadModel, ReadUser, Ticking
<1>4. CASE TickReasoningEnd \/ TickModelCalls \/ TickUser
    <2>1. engine = "running"
        BY <1>4 DEF TickReasoningEnd, TickModelCalls, TickUser, ReadModel, ReadUser, Ticking
    <2>2. \E m : hist' = Append(hist, m) /\ kernel' = Append(kernel, m)
        BY <1>4 DEF TickReasoningEnd, TickModelCalls, TickUser, KeepHeld
    <2> QED
        BY <1>1, <2>1, <2>2
<1>5. CASE TickModelFinal
    BY <1>1, <1>5 DEF TickModelFinal, KeepHeld, PlaceHeld, ReadModel, Ticking
<1>6. CASE TickToolEnd
    BY <1>1, <1>6 DEF TickToolEnd, KeepHeld, PlaceHeld, ReadTool, Ticking
<1>7. CASE TickToolError \/ TickClose
    BY <1>1, <1>7 DEF TickToolError, TickClose, KeepHeld, PlaceHeld, ReadTool, ReadUser, Ticking
<1>8. CASE TickInterrupt
    <2>1. userOut # <<>> /\ Head(userOut).kind = "interrupt"
        BY <1>8 DEF TickInterrupt, ReadUser
    <2>2. Head(userOut) \in Elems(userOut)
        BY <2>1, ElemsTail DEF TypeInv, UserTypes
    <2> QED
        BY <2>1, <2>2 DEF NoInterrupts
<1>9. CASE TickModelError \/ Stop
    BY <1>9 DEF TickModelError, Stop
<1>10. CASE UNCHANGED vars
    BY <1>1, <1>10 DEF vars, convVars
<1> QED
    BY <1>2, <1>3, <1>4, <1>5, <1>6, <1>7, <1>8, <1>9, <1>10 DEF Next, Tick

(* In a duplex session the full messages on the kernel stream are the      *)
(* history, whatever path a message took to both.  An interrupt, which a   *)
(* duplex caller cannot send, saves its partial response to history only.  *)
THEOREM StreamAgrees ==
    ASSUME Duplex
    PROVE  Spec => []KernelAgrees
<1>1. Init => NoInterrupts /\ KernelAgrees
    BY ElemsSmall DEF Init, NoInterrupts, KernelAgrees
<1> QED
    BY <1>1, NextUninterrupted, NextAgrees, Typed, PTL DEF Spec

-----------------------------------------------------------------------------
(* The order of user turns                                                 *)

SentIds(q) == PickedIds(q, SentOf(q))

LEMMA SentConcat ==
    ASSUME NEW q \in Seq(UserItem), NEW r \in Seq(UserItem)
    PROVE  SentIds(q \o r) = SentIds(q) \o SentIds(r)
           /\ SentIds(q) \in Seq(Nat) /\ SentIds(r) \in Seq(Nat)
<1> DEFINE U == SentOf(q \o r)
<1>0. \A u \in UserItem : u.id \in Nat
    BY Constants DEF UserItem
<1>1. Elems(q \o r) = Elems(q) \cup Elems(r)
    BY ElemsConcat
<1>2. Elems(q) \cap U = Elems(q) \cap SentOf(q) /\ Elems(r) \cap U = Elems(r) \cap SentOf(r)
    BY <1>1 DEF SentOf
<1>3. PickedIds(q, U) = SentIds(q) /\ PickedIds(r, U) = SentIds(r)
    BY <1>2, PickedSame DEF SentIds
<1>4. PickedIds(q \o r, U) = PickedIds(q, U) \o PickedIds(r, U)
    BY <1>0, PickedConcat
<1>5. PickedIds(q, U) \in Seq(Nat) /\ PickedIds(r, U) \in Seq(Nat)
    BY <1>0, PickedType
<1>6. PickedIds(q \o r, U) = SentIds(q \o r)
    BY DEF SentIds
<1> QED
    BY <1>3, <1>4, <1>5, <1>6

LEMMA SentOne ==
    ASSUME NEW x \in UserItem
    PROVE  SentIds(<<x>>) = IF x.id = 0 THEN <<>> ELSE <<x.id>>
<1>1. <<x>> \in Seq(UserItem) /\ Elems(<<x>>) = {x} /\ x.id \in Nat
    BY SingletonType, ElemsSmall, Constants DEF UserItem
<1>2. CASE x.id = 0
    <2>1. Elems(<<x>>) \cap SentOf(<<x>>) = {}
        BY <1>1, <1>2 DEF SentOf
    <2> QED
        BY <1>1, <1>2, <2>1, PickedNone DEF SentIds
<1>3. CASE x.id # 0
    <2>1. Elems(<<x>>) \subseteq SentOf(<<x>>)
        BY <1>1, <1>3 DEF SentOf
    <2>2. Only(<<x>>, SentOf(<<x>>)) = <<x>>
        BY <1>1, <2>1, OnlyAll
    <2>3. [i \in DOMAIN <<x>> |-> <<x>>[i].id] = <<x.id>>
        OBVIOUS
    <2> QED
        BY <1>3, <2>2, <2>3 DEF SentIds, PickedIds, Map, Id
<1> QED
    BY <1>2, <1>3

(* The user turns in the order in which they will be in history.           *)
Line == UserIds(hist) \o UserIds(held) \o SentIds(userOut)

LEMMA LineIs == UserTurnsInOrder <=> Line = [i \in 1..nextTurn |-> i]
BY DEF UserTurnsInOrder, Line, SentIds, PickedIds, SentOf

LEMMA EmptyIds == UserIds(<<>>) = <<>>
<1>1. <<>> \in Seq(Message) /\ Elems(<<>>) = {}
    <2>1. <<>> \in Seq(Message)
        OBVIOUS
    <2> QED
        BY <2>1, ElemsSmall
<1> QED
    BY <1>1, UserIdsNone

LEMMA IdsType ==
    ASSUME NEW h \in Seq(Message)
    PROVE  UserIds(h) \in Seq(Nat)
BY UserIdsConcat

LEMMA EmptySides ==
    ASSUME NEW S, NEW s \in Seq(S)
    PROVE  s \o <<>> = s /\ <<>> \o s = s
BY ConcatEmptySeq

(* What joins history without being a user turn does not disturb the line. *)
LEMMA GrowIds ==
    ASSUME NEW h \in Seq(Message), NEW x \in Seq(Message),
           \A m \in Elems(x) : m.role # "user"
    PROVE  h \o x \in Seq(Message) /\ UserIds(h \o x) = UserIds(h)
<1>1. UserIds(h \o x) = UserIds(h) \o UserIds(x) /\ UserIds(x) = <<>>
    BY UserIdsConcat, UserIdsNone
<1> QED
    BY <1>1, IdsType, EmptySides, ConcatType

LEMMA AppendIds ==
    ASSUME NEW h \in Seq(Message), NEW m \in Message, m.role # "user"
    PROVE  Append(h, m) \in Seq(Message) /\ UserIds(Append(h, m)) = UserIds(h)
<1>1. <<m>> \in Seq(Message) /\ Elems(<<m>>) = {m}
    BY SingletonType, ElemsSmall
<1>2. UserIds(h \o <<m>>) = UserIds(h)
    BY <1>1, GrowIds
<1> QED
    BY <1>2, AppendType, AppendIsConcat

LEMMA SameLine ==
    ASSUME TypeInv, NEW h \in Seq(Message), UserIds(h) = UserIds(hist),
           (hist' = h /\ held' = held) \/ (hist' = h \o held /\ held' = <<>>),
           userOut' = userOut
    PROVE  Line' = Line
<1> DEFINE H == UserIds(hist)
           E == UserIds(held)
           S == SentIds(userOut)
<1>0. hist \in Seq(Message) /\ held \in Seq(Message)
    BY DEF TypeInv, ConvTypes
<1>1. H \in Seq(Nat) /\ E \in Seq(Nat) /\ UserIds(h \o held) = H \o E
    BY <1>0, UserIdsConcat, IdsType
<1>2. Line' = UserIds(hist') \o UserIds(held') \o S
    BY DEF Line
<1>3. UserIds(hist') \o UserIds(held') = H \o E
    <2>1. CASE hist' = h /\ held' = held
        BY <2>1
    <2>2. CASE hist' = h \o held /\ held' = <<>>
        <3>1. UserIds(hist') = H \o E /\ UserIds(held') = <<>>
            BY <1>1, <2>2, EmptyIds
        <3>2. H \o E \in Seq(Nat)
            <4> HIDE DEF H, E
            <4> QED
                BY <1>1, ConcatType
        <3> QED
            BY <3>1, <3>2, EmptySides
    <2> QED
        BY <2>1, <2>2
<1> QED
    BY <1>2, <1>3 DEF Line

(* Reading the head of the user outbox.                                    *)
LEMMA SentHead ==
    ASSUME TypeInv, userOut # <<>>
    PROVE  /\ SentIds(Tail(userOut)) \in Seq(Nat)
           /\ Head(userOut).id = 0 => SentIds(userOut) = SentIds(Tail(userOut))
           /\ Head(userOut).id # 0 => /\ Head(userOut).id \in 1..MaxTurns
                                      /\ SentIds(userOut) = <<Head(userOut).id>>
                                                            \o SentIds(Tail(userOut))
<1> DEFINE x == Head(userOut)
           q == Tail(userOut)
<1>0. userOut \in Seq(UserItem)
    BY DEF TypeInv, UserTypes
<1>1. x \in UserItem /\ q \in Seq(UserItem) /\ userOut = <<x>> \o q
    BY <1>0, TailType, PassHead
<1>2. x.id \in 0..MaxTurns
    BY <1>1 DEF UserItem
<1> HIDE DEF x, q
<1>3. <<x>> \in Seq(UserItem)
    BY <1>1, SingletonType
<1>4. SentIds(userOut) = SentIds(<<x>>) \o SentIds(q) /\ SentIds(q) \in Seq(Nat)
    BY <1>1, <1>3, SentConcat
<1>5. SentIds(<<x>>) = IF x.id = 0 THEN <<>> ELSE <<x.id>>
    BY <1>1, SentOne
<1>6. <<>> \o SentIds(q) = SentIds(q)
    BY <1>4, EmptySides
<1>7. x.id # 0 => x.id \in 1..MaxTurns
    BY <1>2, Constants
<1> QED
    BY <1>4, <1>5, <1>6, <1>7 DEF x, q

(* A caller's item joins the end of the line.                              *)
LEMMA CallerLine ==
    ASSUME TypeInv, Caller, UserTurnsInOrder
    PROVE  UserTurnsInOrder'
<1> DEFINE H == UserIds(hist)
           E == UserIds(held)
           S == SentIds(userOut)
<1>0. /\ hist \in Seq(Message) /\ held \in Seq(Message) /\ userOut \in Seq(UserItem)
      /\ nextTurn \in 0..MaxTurns /\ nextTurn \in Nat
    BY Constants DEF TypeInv, ConvTypes, UserTypes
<1>1. hist' = hist /\ held' = held
    BY DEF Caller, Send, SendInterrupt, SendClose, convVars
<1>2. H \in Seq(Nat) /\ E \in Seq(Nat) /\ S \in Seq(Nat)
    BY <1>0, IdsType, SentConcat
<1>3. Line = [i \in 1..nextTurn |-> i] /\ Line = (H \o E) \o S
    BY LineIs DEF Line
<1>4. Line' = (H \o E) \o SentIds(userOut')
    BY <1>1 DEF Line
<1>5. CASE \E k \in {"interrupt", "close"} :
              userOut' = Append(userOut, [kind |-> k, id |-> 0]) /\ nextTurn' = nextTurn
    <2>1. PICK k \in {"interrupt", "close"} :
             userOut' = Append(userOut, [kind |-> k, id |-> 0]) /\ nextTurn' = nextTurn
        BY <1>5
    <2> DEFINE x == [kind |-> k, id |-> 0]
    <2>2. x \in UserItem /\ x.id = 0
        BY Constants DEF UserItem
    <2>3. userOut' = Append(userOut, x)
        BY <2>1
    <2> HIDE DEF x
    <2>4. userOut' = userOut \o <<x>> /\ <<x>> \in Seq(UserItem)
        BY <1>0, <2>2, <2>3, AppendIsConcat, SingletonType
    <2>5. SentIds(userOut') = S \o <<>>
        BY <1>0, <2>2, <2>4, SentConcat, SentOne
    <2>6. SentIds(userOut') = S
        BY <1>2, <2>5, EmptySides
    <2>7. Line' = [i \in 1..nextTurn' |-> i]
        BY <1>3, <1>4, <2>1, <2>6
    <2> QED
        BY <2>7, LineIs DEF UserTurnsInOrder, Line, SentIds, PickedIds, SentOf
<1>6. CASE \E k \in {"turn", "interrupt"} :
              /\ userOut' = Append(userOut, [kind |-> k, id |-> nextTurn + 1])
              /\ nextTurn' = nextTurn + 1 /\ nextTurn < MaxTurns
    <2>1. PICK k \in {"turn", "interrupt"} :
             /\ userOut' = Append(userOut, [kind |-> k, id |-> nextTurn + 1])
             /\ nextTurn' = nextTurn + 1 /\ nextTurn < MaxTurns
        BY <1>6
    <2> DEFINE x == [kind |-> k, id |-> nextTurn + 1]
               n == nextTurn
    <2>2. x \in UserItem /\ x.id = n + 1 /\ n + 1 # 0
        <3>1. n + 1 \in 0..MaxTurns /\ n + 1 > 0
            BY <1>0, <2>1, Constants
        <3> QED
            BY <3>1 DEF UserItem
    <2>3. userOut' = Append(userOut, x)
        BY <2>1
    <2> HIDE DEF x
    <2>4. userOut' = userOut \o <<x>> /\ <<x>> \in Seq(UserItem)
        BY <1>0, <2>2, <2>3, AppendIsConcat, SingletonType
    <2>5. SentIds(userOut') = S \o <<n + 1>>
        BY <1>0, <2>2, <2>4, SentConcat, SentOne
    <2> HIDE DEF H, E, S
    <2>6. H \o E \in Seq(Nat)
        BY <1>2, ConcatType
    <2> DEFINE he == H \o E
               q == [i \in 1..n |-> i]
    <2>7. he \in Seq(Nat) /\ Line = he \o S /\ Line' = he \o SentIds(userOut')
        BY <1>3, <1>4, <2>6
    <2> HIDE DEF he
    <2>8. he \o (S \o <<n + 1>>) = (he \o S) \o <<n + 1>>
        <3>1. n + 1 \in Nat
            BY <1>0
        <3>2. <<n + 1>> \in Seq(Nat)
            BY <3>1, SingletonType
        <3> QED
            BY SMTT(60), <1>2, <2>7, <3>2, ConcatAssociative
    <2>9. Line' = q \o <<n + 1>>
        BY <1>3, <2>5, <2>7, <2>8
    <2>10. q \o <<n + 1>> = [i \in 1..(n + 1) |-> i]
        <3>1. n \in Nat /\ q \in Seq(Nat) /\ Len(q) = n /\ \A i \in 1..n : q[i] = i
            BY <1>0
        <3>2. <<n + 1>> \in Seq(Nat) /\ Len(<<n + 1>>) = 1 /\ <<n + 1>>[1] = n + 1
            BY <3>1
        <3> DEFINE u == q \o <<n + 1>>
                   v == [i \in 1..(n + 1) |-> i]
        <3> HIDE DEF q
        <3>3. /\ u \in Seq(Nat) /\ Len(u) = n + 1 /\ \A i \in 1..n : u[i] = q[i]
              /\ u[n + 1] = n + 1
            BY <3>1, <3>2, ConcatType
        <3>4. v \in Seq(Nat) /\ Len(v) = n + 1 /\ \A i \in 1..(n + 1) : v[i] = i
            BY <3>1
        <3> HIDE DEF u, v
        <3>5. \A i \in 1..(n + 1) : i \in 1..n \/ i = n + 1
            BY <3>1
        <3>6. \A i \in 1..(n + 1) : u[i] = v[i]
            BY <3>1, <3>3, <3>4, <3>5
        <3>7. u = v
            BY <3>3, <3>4, <3>6, SeqEqual
        <3> QED
            BY <3>7 DEF u, v
    <2>11. Line' = [i \in 1..nextTurn' |-> i]
        BY <2>1, <2>9, <2>10
    <2> QED
        BY <2>11 DEF UserTurnsInOrder, Line, SentIds, PickedIds, SentOf
<1>7. \/ \E k \in {"interrupt", "close"} :
              userOut' = Append(userOut, [kind |-> k, id |-> 0]) /\ nextTurn' = nextTurn
      \/ \E k \in {"turn", "interrupt"} :
              /\ userOut' = Append(userOut, [kind |-> k, id |-> nextTurn + 1])
              /\ nextTurn' = nextTurn + 1 /\ nextTurn < MaxTurns
    BY DEF Caller, Send, SendInterrupt, SendClose
<1> QED
    BY <1>5, <1>6, <1>7

LEMMA SettleLine ==
    ASSUME TypeInv, SettleHeld, userOut' = userOut
    PROVE  Line' = Line
<1>1. hist \in Seq(Message) /\ hist' = hist \o held /\ held' = <<>>
    BY DEF TypeInv, ConvTypes, SettleHeld
<1> QED
    BY <1>1, SameLine

LEMMA TickModelLine ==
    ASSUME TypeInv, TickReasoningEnd \/ TickModelCalls \/ TickModelFinal \/ TickModelError
    PROVE  Line' = Line
<1>0. hist \in Seq(Message) /\ window \in Seq(MDelta)
    BY DEF TypeInv, ConvTypes
<1>1. userOut' = userOut
    BY DEF TickReasoningEnd, TickModelCalls, TickModelFinal, TickModelError, ReadModel, userVars
<1>2. ASSUME NEW cs \in Seq(CallId),
             \E k : KeepHeld(Append(hist, Assistant(cs)), k)
                    \/ PlaceHeld(Append(hist, Assistant(cs)), k)
      PROVE  Line' = Line
    <2> DEFINE h == Append(hist, Assistant(cs))
    <2>1. Assistant(cs) \in Message /\ Assistant(cs).role # "user"
        BY MessageTypes DEF Assistant
    <2>2. h \in Seq(Message) /\ UserIds(h) = UserIds(hist)
        BY <1>0, <2>1, AppendIds
    <2>3. (hist' = h /\ held' = held) \/ (hist' = h \o held /\ held' = <<>>)
        BY <1>2 DEF KeepHeld, PlaceHeld
    <2> HIDE DEF h
    <2> QED
        BY <1>1, <2>2, <2>3, SameLine
<1>3. CallsIn(window) \in Seq(CallId)
    BY <1>0, CallsInType
<1>4. <<>> \in Seq(CallId)
    OBVIOUS
<1>5. CASE TickReasoningEnd
    BY <1>2, <1>4, <1>5 DEF TickReasoningEnd
<1>6. CASE TickModelCalls
    BY <1>2, <1>3, <1>6 DEF TickModelCalls
<1>7. CASE TickModelFinal
    BY <1>2, <1>4, <1>7 DEF TickModelFinal
<1>8. CASE TickModelError
    BY <1>1, <1>8, SettleLine DEF TickModelError
<1> QED
    BY <1>5, <1>6, <1>7, <1>8

LEMMA TickToolLine ==
    ASSUME TypeInv, TickToolEnd \/ TickToolError
    PROVE  Line' = Line
<1>0. hist \in Seq(Message) /\ ConvTypes
    BY DEF TypeInv, ConvTypes
<1>1. userOut' = userOut
    BY DEF TickToolEnd, TickToolError, ReadTool, userVars
<1>2. CASE TickToolEnd
    <2> DEFINE rs == Map(LAMBDA d : Result(d.call), toolWin)
               h == hist \o rs
    <2>1. rs \in Seq(Message) /\ \A m \in Elems(rs) : m.role = "tool"
        BY <1>0, BatchMessages
    <2>2. (hist' = h /\ held' = held) \/ (hist' = h \o held /\ held' = <<>>)
        BY <1>2 DEF TickToolEnd, KeepHeld, PlaceHeld
    <2> HIDE DEF rs
    <2>3. \A m \in Elems(rs) : m.role # "user"
        BY <2>1
    <2>4. h \in Seq(Message) /\ UserIds(h) = UserIds(hist)
        BY <1>0, <2>1, <2>3, GrowIds
    <2> HIDE DEF h
    <2> QED
        BY <1>1, <2>2, <2>4, SameLine
<1>3. CASE TickToolError
    <2>1. (hist' = hist /\ held' = held) \/ (hist' = hist \o held /\ held' = <<>>)
        BY <1>3 DEF TickToolError, KeepHeld, PlaceHeld
    <2> QED
        BY <1>0, <1>1, <2>1, SameLine
<1> QED
    BY <1>2, <1>3

(* A user turn leaves the outbox and joins the conversation behind every   *)
(* turn that is in history or held.                                        *)
LEMMA TickUserLine ==
    ASSUME TypeInv, HeldTurnsAwaited,
           TickUser \/ TickUserHeld \/ TickInterrupt \/ TickClose
    PROVE  Line' = Line
<1> DEFINE id == Head(userOut).id
           H == UserIds(hist)
           E == UserIds(held)
           R == SentIds(Tail(userOut))
<1>0. hist \in Seq(Message) /\ held \in Seq(Message) /\ window \in Seq(MDelta)
    BY DEF TypeInv, ConvTypes
<1>1. userOut # <<>> /\ userOut' = Tail(userOut)
    BY DEF TickUser, TickUserHeld, TickInterrupt, TickClose, ReadUser
<1>2. /\ R \in Seq(Nat)
      /\ id = 0 => SentIds(userOut) = R
      /\ id # 0 => id \in 1..MaxTurns /\ SentIds(userOut) = <<id>> \o R
    BY <1>1, SentHead
<1>3. Head(userOut) \in UserItem
    BY <1>1, HeadUser
<1>4. (Head(userOut).kind = "turn" => id # 0) /\ (Head(userOut).kind = "close" => id = 0)
    BY <1>3 DEF UserItem
<1>5. H \in Seq(Nat) /\ E \in Seq(Nat)
    BY <1>0, IdsType
<1>6. Line = (H \o E) \o SentIds(userOut)
      /\ Line' = (UserIds(hist') \o UserIds(held')) \o R
    BY <1>1 DEF Line
<1>7. id # 0 => /\ <<User(id)>> \in Seq(Message) /\ UserIds(<<User(id)>>) = <<id>>
                /\ User(id) \in Message
                /\ <<id>> \in Seq(Nat)
    <2>1. id # 0 => id \in 1..MaxTurns /\ id \in Nat
        BY <1>2, Constants
    <2>2. id # 0 => <<id>> \in Seq(Nat)
        BY <2>1, SingletonType
    <2> QED
        BY <2>1, <2>2, UserIdsOne
<1> HIDE DEF H, E, R, id
<1>8. ASSUME id # 0, UserIds(hist') \o UserIds(held') = (H \o E) \o <<id>>
      PROVE  Line' = Line
    <2> DEFINE he == H \o E
    <2>1. he \in Seq(Nat)
        BY <1>5, ConcatType
    <2> HIDE DEF he
    <2>2. (he \o <<id>>) \o R = he \o (<<id>> \o R)
        BY SMTT(60), <1>2, <1>7, <1>8, <2>1, ConcatAssociative
    <2> QED
        BY <1>2, <1>6, <1>8, <2>2 DEF he
<1>9. ASSUME id = 0, UserIds(hist') \o UserIds(held') = H \o E
      PROVE  Line' = Line
    BY <1>2, <1>6, <1>9
<1>10. CASE TickUser
    <2>1. id # 0 /\ hist' = Append(hist, User(id)) /\ held' = held
        BY <1>4, <1>10 DEF TickUser, ReadUser, KeepHeld, id
    <2>2. held = <<>>
        BY <1>10 DEF TickUser, Holding, HeldTurnsAwaited
    <2>3. hist' = hist \o <<User(id)>>
        BY <1>0, <1>7, <2>1, AppendIsConcat
    <2>4. UserIds(hist') = H \o <<id>>
        BY <1>0, <1>7, <2>1, <2>3, UserIdsConcat DEF H
    <2>5. UserIds(held') = <<>> /\ E = <<>>
        BY <2>1, <2>2, EmptyIds DEF E
    <2>6. H \o <<id>> \in Seq(Nat) /\ H \o E = H
        BY <1>5, <1>7, <2>1, <2>5, ConcatType, EmptySides
    <2>7. (H \o <<id>>) \o <<>> = (H \o E) \o <<id>>
        BY <2>6, EmptySides
    <2> QED
        BY <1>8, <2>1, <2>4, <2>5, <2>7
<1>11. CASE TickUserHeld
    <2>1. id # 0 /\ held' = Append(held, User(id)) /\ hist' = hist
        BY <1>4, <1>11 DEF TickUserHeld, ReadUser, id
    <2>2. held' = held \o <<User(id)>>
        BY <1>0, <1>7, <2>1, AppendIsConcat
    <2>3. UserIds(held') = E \o <<id>>
        BY <1>0, <1>7, <2>1, <2>2, UserIdsConcat DEF E
    <2>4. H \o (E \o <<id>>) = (H \o E) \o <<id>>
        BY <1>5, <1>7, <2>1, ConcatAssociative
    <2> QED
        BY <1>8, <2>1, <2>3, <2>4 DEF H
<1>12. CASE TickInterrupt
    <2> DEFINE saved == hist \o Partial
               results == CancelledResults(saved)
               follow == IF id = 0 THEN <<>> ELSE <<User(id)>>
    <2>1. hist' = saved \o results \o held \o follow /\ held' = <<>>
        BY <1>12 DEF TickInterrupt, id
    <2>2. saved \in Seq(Message) /\ UserIds(saved) = H
        <3>1. Partial \in Seq(Message) /\ \A m \in Elems(Partial) : m.role = "assistant"
            BY <1>0, PartialType
        <3>2. \A m \in Elems(Partial) : m.role # "user"
            BY <3>1
        <3> QED
            BY <1>0, <3>1, <3>2, GrowIds DEF H
    <2> HIDE DEF saved
    <2>3. results \in Seq(Message) /\ \A m \in Elems(results) : m.role # "user"
        BY <2>2, CancelledType
    <2> HIDE DEF results
    <2> DEFINE sr == saved \o results
    <2>4. sr \in Seq(Message) /\ UserIds(sr) = H
        BY <2>2, <2>3, GrowIds
    <2> HIDE DEF sr
    <2> DEFINE srh == sr \o held
    <2>5. srh \in Seq(Message) /\ UserIds(srh) = H \o E
        BY <1>0, <2>4, UserIdsConcat, ConcatType DEF E
    <2> HIDE DEF srh
    <2>6. hist' = srh \o follow
        BY <2>1 DEF srh, sr
    <2>7. H \o E \in Seq(Nat)
        BY <1>5, ConcatType
    <2>8. UserIds(held') = <<>>
        BY <2>1, EmptyIds
    <2>9. CASE id = 0
        <3>1. hist' = srh
            BY <2>5, <2>6, <2>9, EmptySides
        <3>2. UserIds(hist') \o UserIds(held') = H \o E
            BY <2>5, <2>7, <2>8, <3>1, EmptySides
        <3> QED
            BY <1>9, <2>9, <3>2
    <2>10. CASE id # 0
        <3>1. hist' = srh \o <<User(id)>>
            BY <2>6, <2>10
        <3>2. UserIds(hist') = (H \o E) \o <<id>>
            BY <1>7, <2>5, <2>10, <3>1, UserIdsConcat
        <3>3. (H \o E) \o <<id>> \in Seq(Nat)
            BY <1>7, <2>7, <2>10, ConcatType
        <3>4. UserIds(hist') \o UserIds(held') = (H \o E) \o <<id>>
            BY <2>8, <3>2, <3>3, EmptySides
        <3> QED
            BY <1>8, <2>10, <3>4
    <2> QED
        BY <2>9, <2>10
<1>13. CASE TickClose
    <2>1. id = 0 /\ hist' = hist \o held /\ held' = <<>>
        BY <1>4, <1>13 DEF TickClose, ReadUser, PlaceHeld, id
    <2>2. UserIds(hist') = H \o E /\ UserIds(held') = <<>>
        BY <1>0, <2>1, UserIdsConcat, EmptyIds DEF H, E
    <2>3. H \o E \in Seq(Nat)
        BY <1>5, ConcatType
    <2>4. UserIds(hist') \o UserIds(held') = H \o E
        BY <2>2, <2>3, EmptySides
    <2> QED
        BY <1>9, <2>1, <2>4
<1> QED
    BY <1>10, <1>11, <1>12, <1>13

LEMMA NextInOrder ==
    TypeInv /\ HeldTurnsAwaited /\ UserTurnsInOrder /\ [Next]_vars => UserTurnsInOrder'
<1> SUFFICES ASSUME TypeInv, HeldTurnsAwaited, UserTurnsInOrder, [Next]_vars
             PROVE  UserTurnsInOrder'
    OBVIOUS
<1>1. CASE Caller
    BY <1>1, CallerLine
<1>2. ASSUME Line' = Line, nextTurn' = nextTurn PROVE UserTurnsInOrder'
    <2>1. Line' = [i \in 1..nextTurn' |-> i]
        BY <1>2, LineIs
    <2> QED
        BY <2>1 DEF UserTurnsInOrder, Line, SentIds, PickedIds, SentOf
<1>3. CASE ModelStep \/ ToolStep \/ TickStaleModel \/ TickStaleTool \/ TickToolPart
    <2>1. hist' = hist /\ held' = held
        BY <1>3, WaitStays DEF waitVars
    <2>2. UNCHANGED userVars
        BY <1>3 DEF ModelStep, ModelTake, ModelArm, ModelEmit, SessionTake, SessionRespond,
           ToolStep, ToolTake, ToolStart, ToolReturn, ToolFail, ToolEmit, TickStaleModel,
           TickStaleTool, TickToolPart, ReadTool
    <2> QED
        BY <1>2, <2>1, <2>2 DEF Line, userVars
<1>4. CASE TickModelPart \/ UNCHANGED vars
    <2>1. UNCHANGED <<hist, held, userOut, nextTurn>>
        BY <1>4 DEF TickModelPart, ReadModel, userVars, vars, convVars
    <2> QED
        BY <1>2, <2>1 DEF Line
<1>5. CASE TickReasoningEnd \/ TickModelCalls \/ TickModelFinal \/ TickModelError
    <2>1. nextTurn' = nextTurn
        BY <1>5 DEF TickReasoningEnd, TickModelCalls, TickModelFinal, TickModelError,
                    ReadModel, userVars
    <2> QED
        BY <1>2, <1>5, <2>1, TickModelLine
<1>6. CASE TickToolEnd \/ TickToolError
    <2>1. nextTurn' = nextTurn
        BY <1>6 DEF TickToolEnd, TickToolError, ReadTool, userVars
    <2> QED
        BY <1>2, <1>6, <2>1, TickToolLine
<1>7. CASE TickUser \/ TickUserHeld \/ TickInterrupt \/ TickClose
    <2>1. nextTurn' = nextTurn
        BY <1>7 DEF TickUser, TickUserHeld, TickInterrupt, TickClose, ReadUser
    <2> QED
        BY <1>2, <1>7, <2>1, TickUserLine
<1>8. CASE Stop
    <2>1. SettleHeld /\ userOut' = userOut /\ nextTurn' = nextTurn
        BY <1>8 DEF Stop, userVars
    <2> QED
        BY <1>2, <2>1, SettleLine
<1> QED
    BY <1>1, <1>3, <1>4, <1>5, <1>6, <1>7, <1>8 DEF Next, Tick

(* Every user turn the caller sent is, exactly once and in the order of    *)
(* sending, in history, held or in the user outbox: no interleaving of     *)
(* responses, batches, interrupts and exits loses, repeats or reorders one. *)
THEOREM TurnsInOrder == Spec => []UserTurnsInOrder
<1>1. Init => UserTurnsInOrder
    <2> SUFFICES ASSUME Init PROVE Line = [i \in 1..nextTurn |-> i]
        BY LineIs
    <2>1. SentIds(<<>>) = <<>>
        <3>1. <<>> \in Seq(UserItem) /\ Elems(<<>>) \cap SentOf(<<>>) = {}
            <4>1. <<>> \in Seq(UserItem)
                OBVIOUS
            <4> QED
                BY <4>1, ElemsSmall
        <3> QED
            BY <3>1, PickedNone DEF SentIds
    <2>2. Line = (<<>> \o <<>>) \o <<>>
        BY <2>1, EmptyIds DEF Init, Line
    <2>3. Line = <<>>
        BY <2>2, EmptyPath
    <2>4. [i \in 1..0 |-> i] = <<>>
        OBVIOUS
    <2> QED
        BY <2>3, <2>4 DEF Init
<1> QED
    BY <1>1, NextInOrder, Typed, Awaited, PTL DEF Spec

-----------------------------------------------------------------------------
(***************************************************************************)
(* What becomes of a tool call: theorems that need the order in which the  *)
(* deltas of a response travel from the model runner to the coordinator's  *)
(* window.                                                                 *)
(***************************************************************************)

IsTerm(d) == d.kind \in {"end", "err"}

(* A terminator of d's response lies between positions i and j of s.       *)
Cut(s, i, j) == \E k \in (i + 1)..(j - 1) : IsTerm(s[k]) /\ s[k].pass = s[i].pass

(* A provider that reasons does so before it makes its calls.              *)
ReasoningFirst ==
    \A s \in Shapes : \A i, j \in 1..Len(s) :
        s[i] = "call" /\ s[j] = "rend" => j < i

(* What may come behind the call a in one response.                        *)
Follows(a, b) ==
    /\ IsCall(b) => a.call < b.call
    /\ ReasoningFirst => b.kind # "rend"

(* The calls of one pass rise until a terminator of the pass.              *)
InStep(s) ==
    \A i, j \in 1..Len(s) :
        /\ i < j /\ IsCall(s[i]) /\ s[i].pass = s[j].pass
        /\ ~Cut(s, i, j)
        => Follows(s[i], s[j])

(* Every call has the terminator of its response behind it.                *)
Closed(s) ==
    \A i \in 1..Len(s) :
        IsCall(s[i]) => \E k \in (i + 1)..Len(s) : IsTerm(s[k]) /\ s[k].pass = s[i].pass

Whole(s) == InStep(s) /\ Closed(s)

LEMMA WholeSuffix ==
    ASSUME NEW s \in Seq(MDelta), NEW t \in Seq(MDelta), Whole(s \o t)
    PROVE  Whole(t)
<1> DEFINE u == s \o t
           n == Len(s)
<1>1. /\ n \in Nat /\ Len(t) \in Nat /\ Len(u) = n + Len(t)
      /\ \A i \in 1..Len(t) : u[n + i] = t[i]
    BY ConcatType
<1> HIDE DEF u, n
<1>2. InStep(u) /\ Closed(u)
    BY DEF Whole, u
<1>3. ASSUME NEW i \in 1..Len(t), NEW j \in 1..Len(t), i < j, Cut(u, n + i, n + j)
      PROVE  Cut(t, i, j)
    <2>1. PICK k \in ((n + i) + 1)..((n + j) - 1) : IsTerm(u[k]) /\ u[k].pass = u[n + i].pass
        BY <1>3 DEF Cut
    <2> DEFINE l == k - n
    <2>2. l \in (i + 1)..(j - 1) /\ l \in 1..Len(t) /\ k = n + l
        BY <1>1
    <2> HIDE DEF l
    <2>3. u[k] = t[l] /\ u[n + i] = t[i]
        BY <1>1, <2>2
    <2> QED
        BY <2>1, <2>2, <2>3 DEF Cut
<1>4. InStep(t)
    <2> SUFFICES ASSUME NEW i \in 1..Len(t), NEW j \in 1..Len(t),
                        i < j, IsCall(t[i]), t[i].pass = t[j].pass, ~Cut(t, i, j)
                 PROVE  Follows(t[i], t[j])
        BY DEF InStep
    <2>1. n + i \in 1..Len(u) /\ n + j \in 1..Len(u) /\ n + i < n + j
        BY <1>1
    <2>2. u[n + i] = t[i] /\ u[n + j] = t[j]
        BY <1>1
    <2>3. ~Cut(u, n + i, n + j)
        BY <1>3
    <2> QED
        BY <1>2, <2>1, <2>2, <2>3 DEF InStep
<1>5. Closed(t)
    <2> SUFFICES ASSUME NEW i \in 1..Len(t), IsCall(t[i])
                 PROVE  \E k \in (i + 1)..Len(t) : IsTerm(t[k]) /\ t[k].pass = t[i].pass
        BY DEF Closed
    <2>1. n + i \in 1..Len(u) /\ u[n + i] = t[i]
        BY <1>1
    <2>2. PICK k \in ((n + i) + 1)..Len(u) : IsTerm(u[k]) /\ u[k].pass = t[i].pass
        BY <1>2, <2>1 DEF Closed
    <2> DEFINE l == k - n
    <2>3. l \in (i + 1)..Len(t) /\ l \in 1..Len(t) /\ k = n + l
        BY <1>1
    <2> HIDE DEF l
    <2>4. u[k] = t[l]
        BY <1>1, <2>3
    <2> QED
        BY <2>2, <2>3, <2>4
<1> QED
    BY <1>4, <1>5 DEF Whole

(* What is whole may follow what is whole.                                 *)
LEMMA WholeConcat ==
    ASSUME NEW s \in Seq(MDelta), NEW t \in Seq(MDelta), Whole(s), Whole(t)
    PROVE  Whole(s \o t)
<1> DEFINE u == s \o t
           n == Len(s)
<1>1. /\ n \in Nat /\ Len(t) \in Nat /\ Len(u) = n + Len(t)
      /\ \A i \in 1..n : u[i] = s[i]
      /\ \A i \in 1..Len(t) : u[n + i] = t[i]
    BY ConcatType
<1> HIDE DEF u, n
<1>2. InStep(s) /\ Closed(s) /\ InStep(t) /\ Closed(t)
    BY DEF Whole
<1>3. \A i \in 1..Len(u) : i \notin 1..n => i - n \in 1..Len(t) /\ u[i] = t[i - n]
    <2> SUFFICES ASSUME NEW i \in 1..Len(u), i \notin 1..n
                 PROVE  i - n \in 1..Len(t) /\ u[i] = t[i - n]
        OBVIOUS
    <2> DEFINE l == i - n
    <2>1. l \in 1..Len(t) /\ i = n + l
        BY <1>1
    <2> HIDE DEF l
    <2>2. u[i] = t[l]
        BY <1>1, <2>1
    <2> QED
        BY <2>1, <2>2 DEF l
<1>4. InStep(u)
    <2> SUFFICES ASSUME NEW i \in 1..Len(u), NEW j \in 1..Len(u),
                        i < j, IsCall(u[i]), u[i].pass = u[j].pass, ~Cut(u, i, j)
                 PROVE  Follows(u[i], u[j])
        BY DEF InStep
    <2>1. CASE j \in 1..n
        <3>1. i \in 1..n /\ u[i] = s[i] /\ u[j] = s[j]
            BY <1>1, <2>1
        <3>2. ~Cut(s, i, j)
            <4>1. \A k \in (i + 1)..(j - 1) : u[k] = s[k]
                BY SMTT(60), <1>1, <2>1, <3>1
            <4> QED
                BY <3>1, <4>1 DEF Cut
        <3> QED
            BY <1>2, <2>1, <3>1, <3>2 DEF InStep, n
    <2>2. CASE i \in 1..n /\ j \notin 1..n
        <3>1. u[i] = s[i]
            BY <1>1, <2>2
        <3>2. PICK k \in (i + 1)..n : IsTerm(s[k]) /\ s[k].pass = s[i].pass
            BY <1>2, <2>2, <3>1 DEF Closed, n
        <3>3. k \in (i + 1)..(j - 1) /\ u[k] = s[k]
            BY <1>1, <2>2
        <3> QED
            BY <3>1, <3>2, <3>3 DEF Cut
    <2>3. CASE i \notin 1..n
        <3> DEFINE a == i - n
                   b == j - n
        <3>1. j \notin 1..n
            BY <1>1, <2>3
        <3>2. a \in 1..Len(t) /\ b \in 1..Len(t) /\ u[i] = t[a] /\ u[j] = t[b]
            BY <1>3, <2>3, <3>1
        <3>3. a < b /\ i = n + a /\ j = n + b
            BY <1>1
        <3> HIDE DEF a, b
        <3>4. ~Cut(t, a, b)
            <4> SUFFICES ASSUME NEW k \in (a + 1)..(b - 1), IsTerm(t[k]), t[k].pass = t[a].pass
                         PROVE  FALSE
                BY DEF Cut
            <4>1. n + k \in (i + 1)..(j - 1) /\ u[n + k] = t[k]
                BY <1>1, <3>2, <3>3
            <4> QED
                BY <3>2, <4>1 DEF Cut
        <3> QED
            BY <1>2, <3>2, <3>3, <3>4 DEF InStep
    <2> QED
        BY <2>1, <2>2, <2>3
<1>5. Closed(u)
    <2> SUFFICES ASSUME NEW i \in 1..Len(u), IsCall(u[i])
                 PROVE  \E k \in (i + 1)..Len(u) : IsTerm(u[k]) /\ u[k].pass = u[i].pass
        BY DEF Closed
    <2>1. CASE i \in 1..n
        <3>1. u[i] = s[i]
            BY <1>1, <2>1
        <3>2. PICK k \in (i + 1)..n : IsTerm(s[k]) /\ s[k].pass = s[i].pass
            BY <1>2, <2>1, <3>1 DEF Closed, n
        <3>3. k \in (i + 1)..Len(u) /\ u[k] = s[k]
            BY <1>1, <2>1
        <3> QED
            BY <3>1, <3>2, <3>3
    <2>2. CASE i \notin 1..n
        <3> DEFINE a == i - n
        <3>1. a \in 1..Len(t) /\ u[i] = t[a] /\ i = n + a
            BY <1>1, <1>3, <2>2
        <3> HIDE DEF a
        <3>2. PICK k \in (a + 1)..Len(t) : IsTerm(t[k]) /\ t[k].pass = t[a].pass
            BY <1>2, <3>1 DEF Closed
        <3>3. n + k \in (i + 1)..Len(u) /\ u[n + k] = t[k]
            BY <1>1, <3>1
        <3> QED
            BY <3>1, <3>2, <3>3
    <2> QED
        BY <2>1, <2>2
<1> QED
    BY <1>4, <1>5 DEF Whole, u

(* A delta of another pass than everything before it may be dropped.       *)
LEMMA WholeDrop ==
    ASSUME NEW s \in Seq(MDelta), NEW d \in MDelta, NEW t \in Seq(MDelta),
           Whole(s \o (<<d>> \o t)), \A x \in Elems(s) : x.pass # d.pass
    PROVE  Whole(s \o t)
<1> DEFINE dt == <<d>> \o t
           v == s \o dt
           u == s \o t
           n == Len(s)
           m == Len(t)
<1>1. /\ dt \in Seq(MDelta) /\ Len(dt) = 1 + m /\ dt[1] = d
      /\ \A i \in 1..m : dt[1 + i] = t[i]
      /\ n \in Nat /\ m \in Nat
    <2>1. <<d>> \in Seq(MDelta) /\ Len(<<d>>) = 1 /\ <<d>>[1] = d
        BY SingletonType
    <2> QED
        BY <2>1, ConcatType
<1> HIDE DEF dt
<1>2. /\ Len(u) = n + m /\ (\A i \in 1..n : u[i] = s[i])
      /\ \A i \in 1..m : u[n + i] = t[i]
    BY ConcatType
<1>3. /\ Len(v) = n + (1 + m) /\ (\A i \in 1..n : v[i] = s[i])
      /\ \A i \in 1..(1 + m) : v[n + i] = dt[i]
    <2>1. dt \in Seq(MDelta)
        BY <1>1
    <2>2. /\ Len(v) = n + Len(dt) /\ (\A i \in 1..n : v[i] = s[i])
          /\ \A i \in 1..Len(dt) : v[n + i] = dt[i]
        BY <2>1, ConcatType
    <2> QED
        BY <1>1, <2>2
<1> HIDE DEF u, v, n, m
<1>4. InStep(v) /\ Closed(v)
    BY DEF Whole, dt, v
<1>5. \A i \in 1..n : v[i].pass # d.pass /\ u[i] = v[i]
    <2>1. \A i \in 1..n : s[i] \in Elems(s)
        BY ElemsType DEF n
    <2> QED
        BY <1>2, <1>3, <2>1
<1>6. v[n + 1] = d
    BY <1>1, <1>3
<1>7. \A i \in (n + 1)..(n + m) : u[i] = v[i + 1]
    <2> SUFFICES ASSUME NEW i \in (n + 1)..(n + m) PROVE u[i] = v[i + 1]
        OBVIOUS
    <2> DEFINE l == i - n
    <2>1. l \in 1..m /\ i = n + l /\ 1 + l \in 1..(1 + m) /\ i + 1 = n + (1 + l)
        BY <1>1
    <2> HIDE DEF l
    <2>2. u[i] = t[l] /\ dt[1 + l] = t[l] /\ v[n + (1 + l)] = dt[1 + l]
        BY <1>1, <1>2, <1>3, <2>1
    <2> QED
        BY <2>1, <2>2
<1> DEFINE f(i) == IF i <= n THEN i ELSE i + 1
<1>8. \A i \in 1..Len(u) : f(i) \in 1..Len(v) /\ u[i] = v[f(i)] /\ f(i) \in Nat
    <2> SUFFICES ASSUME NEW i \in 1..Len(u)
                 PROVE  f(i) \in 1..Len(v) /\ u[i] = v[f(i)] /\ f(i) \in Nat
        OBVIOUS
    <2>1. CASE i \in 1..n
        BY <1>1, <1>2, <1>3, <1>5, <2>1
    <2>2. CASE i \in (n + 1)..(n + m)
        BY <1>1, <1>2, <1>3, <1>7, <2>2
    <2> QED
        BY <1>1, <1>2, <2>1, <2>2
<1>9. \A i, j \in 1..Len(u) : i < j => f(i) < f(j)
    BY <1>1, <1>2
(* Every position of v but the dropped one has its place in u.             *)
<1>10. ASSUME NEW k \in 1..Len(v), k # n + 1
       PROVE  \E l \in 1..Len(u) : f(l) = k
    <2> DEFINE l == IF k <= n THEN k ELSE k - 1
    <2>1. l \in 1..Len(u) /\ f(l) = k
        BY <1>1, <1>2, <1>3, <1>10
    <2> QED
        BY <2>1
<1> HIDE DEF f
<1>11. \A i, j \in 1..Len(u) : f(i) < f(j) => i < j
    BY <1>1, <1>2 DEF f
<1>12. ASSUME NEW i \in 1..Len(u), NEW k \in 1..Len(v), f(i) < k, IsTerm(v[k]),
              v[k].pass = v[f(i)].pass, IsCall(v[f(i)])
       PROVE  k # n + 1 \/ i \notin 1..n
    BY <1>5, <1>6, <1>8, <1>12
<1>13. \A i \in 1..Len(u) : f(i) < n + 1 <=> i \in 1..n
    BY <1>1, <1>2 DEF f
<1>14. ASSUME NEW i \in 1..Len(u), NEW k \in 1..Len(v), f(i) < k, IsTerm(v[k]),
              v[k].pass = v[f(i)].pass, IsCall(v[f(i)])
       PROVE  \E l \in 1..Len(u) : f(l) = k /\ i < l
    <2>1. k # n + 1
        BY <1>12, <1>13, <1>14
    <2>2. PICK l \in 1..Len(u) : f(l) = k
        BY <1>10, <2>1
    <2> QED
        BY <1>11, <1>14, <2>2
<1>15. InStep(u)
    <2> SUFFICES ASSUME NEW i \in 1..Len(u), NEW j \in 1..Len(u),
                        i < j, IsCall(u[i]), u[i].pass = u[j].pass, ~Cut(u, i, j)
                 PROVE  Follows(u[i], u[j])
        BY DEF InStep
    <2>1. f(i) \in 1..Len(v) /\ f(j) \in 1..Len(v) /\ f(i) < f(j)
          /\ u[i] = v[f(i)] /\ u[j] = v[f(j)]
        BY <1>8, <1>9
    <2>2. ~Cut(v, f(i), f(j))
        <3> SUFFICES ASSUME NEW k \in (f(i) + 1)..(f(j) - 1),
                            IsTerm(v[k]), v[k].pass = v[f(i)].pass
                     PROVE  FALSE
            BY DEF Cut
        <3>1. k \in 1..Len(v) /\ f(i) < k /\ k < f(j)
            BY SMTT(60), <1>1, <1>3, <2>1
        <3>2. PICK l \in 1..Len(u) : f(l) = k /\ i < l
            BY <1>14, <2>1, <3>1
        <3>3. l < j /\ u[l] = v[k]
            BY <1>8, <1>11, <3>1, <3>2
        <3>4. l \in (i + 1)..(j - 1)
            BY <3>2, <3>3
        <3> QED
            BY <2>1, <3>3, <3>4 DEF Cut
    <2> QED
        BY <1>4, <2>1, <2>2 DEF InStep
<1>16. Closed(u)
    <2> SUFFICES ASSUME NEW i \in 1..Len(u), IsCall(u[i])
                 PROVE  \E k \in (i + 1)..Len(u) : IsTerm(u[k]) /\ u[k].pass = u[i].pass
        BY DEF Closed
    <2>1. f(i) \in 1..Len(v) /\ u[i] = v[f(i)]
        BY <1>8
    <2>2. PICK k \in (f(i) + 1)..Len(v) : IsTerm(v[k]) /\ v[k].pass = v[f(i)].pass
        BY <1>4, <2>1 DEF Closed
    <2>3. k \in 1..Len(v) /\ f(i) < k
        BY <1>1, <1>3, <2>1
    <2>4. PICK l \in 1..Len(u) : f(l) = k /\ i < l
        BY <1>14, <2>1, <2>2, <2>3
    <2>5. u[l] = v[k] /\ l \in (i + 1)..Len(u)
        BY <1>8, <2>4
    <2> QED
        BY <2>1, <2>2, <2>5
<1> QED
    BY <1>15, <1>16 DEF Whole, u

(* The tail of a response may be replaced by one terminator.               *)
LEMMA WholeCutOff ==
    ASSUME NEW v \in Seq(MDelta), NEW w \in Seq(MDelta), NEW m \in Nat,
           m <= Len(v), Len(w) = m + 1, \A i \in 1..m : w[i] = v[i],
           IsTerm(w[m + 1]), \A k \in (m + 1)..Len(v) : v[k].pass = w[m + 1].pass,
           Whole(v)
    PROVE  Whole(w)
<1>0. Len(v) \in Nat /\ InStep(v) /\ Closed(v)
    BY DEF Whole
<1>1. ~IsCall(w[m + 1]) /\ w[m + 1].kind # "rend"
    BY DEF IsTerm, IsCall
<1>2. InStep(w)
    <2> SUFFICES ASSUME NEW i \in 1..Len(w), NEW j \in 1..Len(w),
                        i < j, IsCall(w[i]), w[i].pass = w[j].pass, ~Cut(w, i, j)
                 PROVE  Follows(w[i], w[j])
        BY DEF InStep
    <2>0. SUFFICES ASSUME j # m + 1 PROVE Follows(w[i], w[j])
        BY <1>1 DEF Follows
    <2>1. j \in 1..m /\ i \in 1..m /\ i \in 1..Len(v) /\ j \in 1..Len(v)
        BY <1>0, <2>0
    <2>2. \A k \in (i + 1)..(j - 1) : w[k] = v[k]
        BY <2>1
    <2>3. ~Cut(v, i, j)
        BY <2>1, <2>2 DEF Cut
    <2> QED
        BY <1>0, <2>1, <2>3 DEF InStep
<1>3. Closed(w)
    <2> SUFFICES ASSUME NEW i \in 1..Len(w), IsCall(w[i])
                 PROVE  \E k \in (i + 1)..Len(w) : IsTerm(w[k]) /\ w[k].pass = w[i].pass
        BY DEF Closed
    <2>1. i \in 1..m /\ i \in 1..Len(v) /\ w[i] = v[i]
        BY <1>0, <1>1
    <2>2. PICK k \in (i + 1)..Len(v) : IsTerm(v[k]) /\ v[k].pass = v[i].pass
        BY <1>0, <2>1 DEF Closed
    <2>3. CASE k \in 1..m
        BY SMTT(60), <2>1, <2>2, <2>3
    <2>4. CASE k \in (m + 1)..Len(v)
        <3>1. w[m + 1].pass = w[i].pass /\ m + 1 \in (i + 1)..Len(w)
            BY <2>1, <2>2, <2>4
        <3> QED
            BY <3>1
    <2>5. k \in 1..m \/ k \in (m + 1)..Len(v)
        BY <1>0, <2>1
    <2> QED
        BY <2>3, <2>4, <2>5
<1> QED
    BY <1>2, <1>3 DEF Whole

(* The calls of a response are numbered in their order.                    *)
LEMMA NumCallsRise ==
    ASSUME NEW s \in Seq(PartKind), NEW i \in 1..Len(s), NEW j \in 1..Len(s),
           i < j, s[j] = "call"
    PROVE  NumCalls(SubSeq(s, 1, i)) < NumCalls(SubSeq(s, 1, j))
<1> DEFINE C(n) == {k \in 1..n : s[k] = "call"}
<1>1. ASSUME NEW n \in 1..Len(s)
      PROVE  NumCalls(SubSeq(s, 1, n)) = Cardinality(C(n)) /\ IsFiniteSet(C(n))
    <2> DEFINE r == SubSeq(s, 1, n)
    <2>1. DOMAIN r = 1..n /\ \A k \in 1..n : r[k] = s[k]
        OBVIOUS
    <2> HIDE DEF r
    <2>2. {k \in DOMAIN r : r[k] = "call"} = C(n)
        BY <2>1
    <2>3. NumCalls(r) = Cardinality(C(n))
        BY <2>2 DEF NumCalls
    <2>4. C(n) \in SUBSET (1..n) /\ IsFiniteSet(1..n)
        BY FS_Interval
    <2>5. IsFiniteSet(C(n))
        <3> HIDE DEF C
        <3> QED
            BY <2>4, FS_Subset
    <2> QED
        BY <2>3, <2>5 DEF r
<1>2. C(i) \subseteq C(j) /\ j \in C(j) /\ j \notin C(i)
    OBVIOUS
<1> HIDE DEF C
<1>3. C(i) \in SUBSET C(j) /\ C(i) # C(j)
    BY <1>2
<1>4. IsFiniteSet(C(j)) /\ IsFiniteSet(C(i))
    BY <1>1
<1>5. Cardinality(C(i)) <= Cardinality(C(j))
      /\ (Cardinality(C(i)) = Cardinality(C(j)) => C(i) = C(j))
    BY <1>3, <1>4, FS_Subset
<1>6. Cardinality(C(i)) \in Nat /\ Cardinality(C(j)) \in Nat
    BY <1>4, FS_CardinalityType
<1> QED
    BY <1>1, <1>3, <1>5, <1>6

LEMMA ResponseWhole ==
    ASSUME NEW pass \in Nat, NEW shape \in Shapes, NEW base \in Nat,
           base + NumCalls(shape) <= MaxCalls
    PROVE  LET R == Response(pass, shape, base)
           IN  /\ Whole(R) /\ IsTerm(R[Len(R)])
               /\ \A d \in Elems(R) : d.pass = pass
<1> DEFINE R == Response(pass, shape, base)
<1>1. /\ R \in Seq(MDelta) /\ R # <<>> /\ Len(R) = Len(shape)
      /\ shape \in Seq(PartKind) /\ Len(shape) \in Nat
      /\ \A i \in 1..Len(shape) : R[i] =
                 [pass |-> pass, kind |-> shape[i],
                  call |-> IF shape[i] = "call"
                           THEN base + NumCalls(SubSeq(shape, 1, i)) ELSE 0]
    BY ResponseType
<1> HIDE DEF R
<1>2. Len(R) > 0
    BY <1>1, TailType
<1>3. \A i \in 1..Len(R) : /\ R[i].pass = pass /\ R[i].kind = shape[i]
                           /\ shape[i] = "call"
                                => R[i].call = base + NumCalls(SubSeq(shape, 1, i))
    <2> SUFFICES ASSUME NEW i \in 1..Len(R)
                 PROVE  /\ R[i].pass = pass /\ R[i].kind = shape[i]
                        /\ shape[i] = "call"
                             => R[i].call = base + NumCalls(SubSeq(shape, 1, i))
        OBVIOUS
    <2> DEFINE c == IF shape[i] = "call" THEN base + NumCalls(SubSeq(shape, 1, i)) ELSE 0
    <2>1. R[i] = [pass |-> pass, kind |-> shape[i], call |-> c]
        BY <1>1
    <2>2. shape[i] = "call" => c = base + NumCalls(SubSeq(shape, 1, i))
        OBVIOUS
    <2> HIDE DEF c
    <2> QED
        BY <2>1, <2>2
<1>4. \A i \in 1..Len(R) : shape[i] \in {"end", "err"} <=> i = Len(R)
    <2>1. DOMAIN shape = 1..Len(shape)
        BY <1>1
    <2> QED
        BY <1>1, <2>1, TurnAssumption
<1>5. IsTerm(R[Len(R)])
    BY <1>1, <1>2, <1>3, <1>4 DEF IsTerm
<1>6. \A i \in 1..Len(R) : IsCall(R[i]) => i < Len(R)
    BY <1>1, <1>3, <1>4 DEF IsCall
<1>7. Closed(R)
    <2> SUFFICES ASSUME NEW i \in 1..Len(R), IsCall(R[i])
                 PROVE  \E k \in (i + 1)..Len(R) : IsTerm(R[k]) /\ R[k].pass = R[i].pass
        BY DEF Closed
    <2>1. Len(R) \in (i + 1)..Len(R) /\ Len(R) \in 1..Len(R)
        BY <1>1, <1>6
    <2> QED
        BY <1>3, <1>5, <2>1
<1>8. InStep(R)
    <2> SUFFICES ASSUME NEW i \in 1..Len(R), NEW j \in 1..Len(R), i < j, IsCall(R[i])
                 PROVE  Follows(R[i], R[j])
        BY DEF InStep
    <2>1. shape[i] = "call" /\ i \in 1..Len(shape) /\ j \in 1..Len(shape)
        BY <1>1, <1>3 DEF IsCall
    <2>2. ASSUME IsCall(R[j]) PROVE R[i].call < R[j].call
        <3>0. shape[j] = "call"
            BY <1>3, <2>2 DEF IsCall
        <3>1. NumCalls(SubSeq(shape, 1, i)) < NumCalls(SubSeq(shape, 1, j))
            BY <1>1, <2>1, <3>0, NumCallsRise
        <3>2. NumCalls(SubSeq(shape, 1, i)) \in Nat /\ NumCalls(SubSeq(shape, 1, j)) \in Nat
            BY <1>1, <2>1, NumCallsType
        <3> QED
            BY <1>3, <2>1, <3>0, <3>1, <3>2
    <2>3. ReasoningFirst => R[j].kind # "rend"
        BY <1>1, <1>3, <2>1 DEF ReasoningFirst
    <2> QED
        BY <2>2, <2>3 DEF Follows
<1>9. \A d \in Elems(R) : d.pass = pass
    BY <1>1, <1>3 DEF Elems
<1> QED
    BY <1>5, <1>7, <1>8, <1>9 DEF Whole, R

(* A window holds the calls of one response, each once.                    *)
Rising(w) ==
    \A i, j \in 1..Len(w) : i < j /\ IsCall(w[i]) /\ IsCall(w[j]) => w[i].call < w[j].call

LEMMA RisingDistinct ==
    ASSUME NEW w \in Seq(MDelta), Rising(w)
    PROVE  Distinct(CallsIn(w))
<1> DEFINE G == {q \in Seq(MDelta) : Rising(q) => Distinct(CallsIn(q))}
<1>1. <<>> \in G
    <2>1. <<>> \in Seq(MDelta)
        OBVIOUS
    <2>2. Distinct(<<>>)
        BY DEF Distinct
    <2> QED
        BY <2>1, <2>2, CallsInEmpty
<1>2. \A q \in G, e \in MDelta : Append(q, e) \in G
    <2> SUFFICES ASSUME NEW q \in Seq(MDelta), NEW e \in MDelta,
                        Rising(q) => Distinct(CallsIn(q)), Rising(Append(q, e))
                 PROVE  Distinct(CallsIn(Append(q, e)))
        BY AppendType
    <2> DEFINE r == Append(q, e)
    <2>1. /\ r \in Seq(MDelta) /\ Len(r) = Len(q) + 1 /\ Len(q) \in Nat
          /\ (\A i \in 1..Len(q) : r[i] = q[i]) /\ r[Len(q) + 1] = e
        BY AppendType
    <2>2. Rising(r)
        OBVIOUS
    <2> HIDE DEF r
    <2>3. Rising(q)
        <3> SUFFICES ASSUME NEW i \in 1..Len(q), NEW j \in 1..Len(q),
                            i < j, IsCall(q[i]), IsCall(q[j])
                     PROVE  q[i].call < q[j].call
            BY DEF Rising
        <3>1. i \in 1..Len(r) /\ j \in 1..Len(r) /\ r[i] = q[i] /\ r[j] = q[j]
            BY SMTT(60), <2>1
        <3> QED
            BY <2>2, <3>1 DEF Rising
    <2>4. CallsIn(q) \in Seq(CallId) /\ Elems(CallsIn(q)) = {d.call : d \in CallDeltas(q)}
        BY CallsInType
    <2>5. CASE e.kind # "call"
        BY <2>3, <2>5, CallsInAppend
    <2>6. CASE e.kind = "call"
        <3>1. e.call \in CallId /\ e.call \in Nat
            BY <2>6, Constants DEF MDelta, CallId
        <3>2. e.call \notin Elems(CallsIn(q))
            <4> SUFFICES ASSUME NEW d \in CallDeltas(q), d.call = e.call PROVE FALSE
                BY <2>4
            <4>1. PICK i \in 1..Len(q) : d = q[i]
                BY DEF CallDeltas, Elems
            <4>2. IsCall(q[i])
                BY <4>1 DEF CallDeltas
            <4>3. i \in 1..Len(r) /\ Len(q) + 1 \in 1..Len(r) /\ i < Len(q) + 1
                BY <2>1
            <4>4. IsCall(r[i]) /\ IsCall(r[Len(q) + 1])
                BY <2>1, <2>6, <4>2 DEF IsCall
            <4>5. r[i].call < r[Len(q) + 1].call
                BY <2>2, <4>3, <4>4 DEF Rising
            <4>6. d.call < e.call
                BY <2>1, <4>1, <4>5
            <4> QED
                BY <3>1, <4>6
        <3>3. Distinct(Append(CallsIn(q), e.call))
            BY <2>3, <2>4, <3>1, <3>2, DistinctAppend
        <3> QED
            BY <2>6, <3>3, CallsInAppend
    <2> QED
        BY <2>5, <2>6
<1>3. G \in SUBSET Seq(MDelta)
    OBVIOUS
<1> HIDE DEF G
<1>4. G = Seq(MDelta)
    BY <1>1, <1>2, <1>3, AppendInduction
<1> QED
    BY <1>4 DEF G

LEMMA WindowDistinct ==
    ASSUME NEW s \in Seq(MDelta), NEW t \in Seq(MDelta), Whole(s \o t), NEW p,
           \A d \in Elems(s) : ~IsTerm(d) /\ d.pass = p
    PROVE  Distinct(CallsIn(s))
<1> DEFINE u == s \o t
<1>1. /\ Len(u) = Len(s) + Len(t) /\ Len(s) \in Nat /\ Len(t) \in Nat
      /\ \A i \in 1..Len(s) : u[i] = s[i]
    BY ConcatType
<1>2. InStep(u)
    BY DEF Whole
<1> HIDE DEF u
<1>3. \A i \in 1..Len(s) : ~IsTerm(s[i]) /\ s[i].pass = p
    BY ElemsType
<1>4. Rising(s)
    <2> SUFFICES ASSUME NEW i \in 1..Len(s), NEW j \in 1..Len(s),
                        i < j, IsCall(s[i]), IsCall(s[j])
                 PROVE  s[i].call < s[j].call
        BY DEF Rising
    <2>1. i \in 1..Len(u) /\ j \in 1..Len(u) /\ u[i] = s[i] /\ u[j] = s[j]
        BY <1>1
    <2>2. \A k \in (i + 1)..(j - 1) : k \in 1..Len(s) /\ u[k] = s[k]
        BY <1>1
    <2>3. ~Cut(u, i, j)
        BY <1>3, <2>2 DEF Cut
    <2>4. u[i].pass = u[j].pass
        BY <1>3, <2>1
    <2> QED
        BY <1>2, <2>1, <2>3, <2>4 DEF InStep, Follows
<1> QED
    BY <1>4, RisingDistinct

(* The model deltas under way, oldest first.                               *)
Stream == window \o (modelOut \o model.todo)

(* The passes of the model's deltas.  A duplex session's carry none; those *)
(* of a turn-based loop never exceed the current pass, and the window only *)
(* holds deltas of the current pass.                                       *)
ModelPass(d) == IF Duplex THEN d.pass = 0 ELSE d.pass \in 1..passID

PassInv ==
    /\ \A r \in Elems(modelInbox) : r.pass \in 1..passID
    /\ \A d \in Elems(modelOut) : ModelPass(d)
    /\ \A d \in Elems(model.todo) : ModelPass(d) /\ d.pass = model.pass
    /\ \A d \in Elems(window) :
          ~IsTerm(d) /\ d.pass = IF Duplex THEN 0 ELSE passID

(* A response under way ends with its terminator.                          *)
LastInv ==
    /\ model.pc = "idle" => model.todo = <<>>
    /\ model.todo # <<>> => IsTerm(model.todo[Len(model.todo)])

(* No batch names a call twice, and none starts one twice.                 *)
BatchInv ==
    /\ \A b \in Elems(toolInbox) : Distinct(b.calls)
    /\ Distinct(tool.calls) /\ Distinct(begun)

StreamInv == Whole(Stream) /\ PassInv /\ LastInv

LEMMA StreamParts ==
    ASSUME TypeInv
    PROVE  /\ window \in Seq(MDelta) /\ modelOut \in Seq(MDelta)
           /\ model.todo \in Seq(MDelta) /\ modelOut \o model.todo \in Seq(MDelta)
           /\ passID \in Nat /\ modelInbox \in Seq(Request)
<1>1. window \in Seq(MDelta) /\ modelOut \in Seq(MDelta) /\ model.todo \in Seq(MDelta)
    BY DEF TypeInv, ConvTypes, ModelTypes
<1> QED
    BY <1>1, ConcatType DEF TypeInv, ConvTypes, ModelTypes

(* The head of the outbox as part of the stream.                           *)
LEMMA StreamHead ==
    ASSUME TypeInv, modelOut # <<>>
    PROVE  /\ modelOut \o model.todo = <<Head(modelOut)>> \o (Tail(modelOut) \o model.todo)
           /\ Head(modelOut) \in MDelta /\ <<Head(modelOut)>> \in Seq(MDelta)
           /\ Tail(modelOut) \in Seq(MDelta) /\ Tail(modelOut) \o model.todo \in Seq(MDelta)
<1> DEFINE d == Head(modelOut)
           r == Tail(modelOut)
           td == model.todo
<1>1. d \in MDelta /\ r \in Seq(MDelta) /\ modelOut = <<d>> \o r /\ td \in Seq(MDelta)
    BY StreamParts, TailType, PassHead
<1> HIDE DEF d, r, td
<1>2. <<d>> \in Seq(MDelta) /\ r \o td \in Seq(MDelta)
    BY <1>1, SingletonType, ConcatType
<1>3. (<<d>> \o r) \o td = <<d>> \o (r \o td)
    BY <1>1, <1>2, ConcatAssociative
<1> QED
    BY <1>1, <1>2, <1>3 DEF d, r, td

LEMMA StreamSuffixes ==
    ASSUME TypeInv, Whole(Stream)
    PROVE  /\ Whole(modelOut \o model.todo) /\ Whole(model.todo)
           /\ modelOut # <<>> => Whole(Tail(modelOut) \o model.todo)
<1>1. Whole(modelOut \o model.todo)
    BY StreamParts, WholeSuffix DEF Stream
<1>2. Whole(model.todo)
    BY <1>1, StreamParts, WholeSuffix
<1>3. ASSUME modelOut # <<>> PROVE Whole(Tail(modelOut) \o model.todo)
    <2> DEFINE a == <<Head(modelOut)>>
               b == Tail(modelOut) \o model.todo
    <2>1. a \in Seq(MDelta) /\ b \in Seq(MDelta) /\ Whole(a \o b)
        BY <1>1, <1>3, StreamHead
    <2> HIDE DEF a, b
    <2>2. Whole(b)
        BY <2>1, WholeSuffix
    <2> QED
        BY <2>2 DEF b
<1> QED
    BY <1>1, <1>2, <1>3

LEMMA PassRises ==
    ASSUME passID \in Nat
    PROVE  /\ NextToolPass \in Nat /\ NextToolPass >= passID /\ NextToolPass >= 1
           /\ passID + 1 \in Nat /\ passID + 1 >= passID /\ passID + 1 >= 1
BY DEF NextToolPass

(* The requests in the inbox.                                              *)
InboxPass == \A r \in Elems(modelInbox) : r.pass \in 1..passID

LEMMA DispatchPass ==
    ASSUME TypeInv, InboxPass, passID' \in Nat, passID' >= passID, passID' >= 1,
           NEW conv \in Seq(Message), NEW bare \in BOOLEAN, Dispatch(conv, bare)
    PROVE  InboxPass'
<1> DEFINE r == [pass |-> passID', conv |-> conv, bare |-> bare]
<1>0. modelInbox \in Seq(Request) /\ passID \in Nat
    BY StreamParts
<1>1. r \in Request /\ r.pass = passID'
    BY DEF Request
<1>2. modelInbox' = Append(modelInbox, r) \/ modelInbox' = modelInbox
    BY DEF Dispatch
<1> HIDE DEF r
<1>3. Elems(modelInbox') \subseteq Elems(modelInbox) \cup {r}
    BY ZenonT(60), <1>0, <1>1, <1>2, ElemsAppend
<1>4. \A x \in Elems(modelInbox) : x.pass \in 1..passID'
    BY <1>0 DEF InboxPass
<1>5. passID' \in 1..passID'
    OBVIOUS
<1> QED
    BY <1>1, <1>3, <1>4, <1>5 DEF InboxPass

LEMMA StayPass ==
    ASSUME TypeInv, InboxPass, passID' \in Nat, passID' >= passID, modelInbox' = modelInbox
    PROVE  InboxPass'
<1>0. passID \in Nat
    BY StreamParts
<1> QED
    BY <1>0 DEF InboxPass

LEMMA ModelPassRises ==
    ASSUME passID \in Nat, passID' \in Nat, passID' >= passID
    PROVE  \A d : ModelPass(d) => ModelPass(d)'
BY DEF ModelPass

(* The window is emptied; the outbox may lose its head, or everything.     *)
LEMMA WindowReset ==
    ASSUME TypeInv, StreamInv, passID' \in Nat, passID' >= passID, InboxPass',
           window' = <<>>, model' = model,
           \/ modelOut' = modelOut \/ modelOut' = <<>>
           \/ modelOut # <<>> /\ modelOut' = Tail(modelOut)
    PROVE  StreamInv'
<1> DEFINE td == model.todo
<1>0. /\ window \in Seq(MDelta) /\ modelOut \in Seq(MDelta) /\ passID \in Nat
      /\ td \in Seq(MDelta)
    BY StreamParts
<1>1. Elems(modelOut') \subseteq Elems(modelOut) /\ modelOut' \in Seq(MDelta)
    <2>1. CASE modelOut' = modelOut
        BY <1>0, <2>1
    <2>2. CASE modelOut' = <<>>
        <3>1. <<>> \in Seq(MDelta)
            OBVIOUS
        <3> QED
            BY <2>2, <3>1, ElemsSmall
    <2>3. CASE modelOut # <<>> /\ modelOut' = Tail(modelOut)
        BY <1>0, <2>3, ElemsTail, TailType
    <2> QED
        BY <2>1, <2>2, <2>3
<1>2. Whole(modelOut' \o td)
    <2>1. Whole(Stream)
        BY DEF StreamInv
    <2>2. <<>> \o td = td
        BY <1>0, EmptySides
    <2> QED
        BY <2>1, <2>2, StreamSuffixes
<1>3. Whole(Stream')
    <2>1. Stream' = <<>> \o (modelOut' \o td)
        BY DEF Stream
    <2>2. modelOut' \o td \in Seq(MDelta)
        BY <1>0, <1>1, ConcatType
    <2> QED
        BY <1>2, <2>1, <2>2, EmptySides
<1>4. Whole(Stream)'
    BY <1>3 DEF Whole, InStep, Closed, Cut, Stream
<1>5. PassInv'
    <2>1. \A d : ModelPass(d) => ModelPass(d)'
        BY <1>0, ModelPassRises
    <2>2. Elems(window') = {}
        BY ElemsSmall
    <2>3. /\ \A d \in Elems(modelOut) : ModelPass(d)
          /\ \A d \in Elems(model.todo) : ModelPass(d) /\ d.pass = model.pass
        BY DEF StreamInv, PassInv
    <2>4. \A d \in Elems(modelOut') : ModelPass(d)'
        BY <1>1, <2>1, <2>3
    <2>5. \A d \in Elems(model'.todo) : ModelPass(d)' /\ d.pass = model'.pass
        BY <2>1, <2>3
    <2> QED
        BY <2>2, <2>4, <2>5 DEF PassInv, InboxPass
<1>6. LastInv'
    BY DEF StreamInv, LastInv
<1> QED
    BY <1>4, <1>5, <1>6 DEF StreamInv

streamVars == <<window, modelOut, model, modelInbox, passID>>

LEMMA StreamStays ==
    ASSUME StreamInv, UNCHANGED streamVars
    PROVE  StreamInv'
<1>1. Whole(Stream')
    BY DEF StreamInv, Stream, streamVars
<1>2. Whole(Stream)'
    BY <1>1 DEF Whole, InStep, Closed, Cut, Stream
<1>3. PassInv'
    BY DEF StreamInv, PassInv, ModelPass, streamVars
<1>4. LastInv'
    BY DEF StreamInv, LastInv, streamVars
<1> QED
    BY <1>2, <1>3, <1>4 DEF StreamInv

(* Everything that empties the window.                                     *)
LEMMA ResetStream ==
    ASSUME TypeInv, TypeInv', StreamInv,
           TickReasoningEnd \/ TickModelCalls \/ TickModelFinal \/ TickModelError
             \/ TickToolEnd \/ TickUser
    PROVE  StreamInv'
<1>0. /\ passID \in Nat /\ InboxPass /\ passID' \in Nat /\ hist' \in Seq(Message)
      /\ hist \in Seq(Message)
    BY DEF TypeInv, ConvTypes, StreamInv, PassInv, InboxPass
<1>1. window' = <<>> /\ model' = model
    BY DEF TickReasoningEnd, TickModelCalls, TickModelFinal, TickModelError,
           TickToolEnd, TickUser, ReadModel, ReadTool
<1>2. \/ modelOut' = modelOut \/ modelOut' = <<>>
      \/ modelOut # <<>> /\ modelOut' = Tail(modelOut)
    BY DEF TickReasoningEnd, TickModelCalls, TickModelFinal, TickModelError,
           TickToolEnd, TickUser, ReadModel, ReadTool, ReadUser
<1>3. passID' >= passID /\ InboxPass'
    <2>1. CASE TickReasoningEnd \/ TickModelError
        <3>1. passID' = passID /\ modelInbox' = modelInbox
            BY <2>1 DEF TickReasoningEnd, TickModelError
        <3>2. passID' >= passID
            BY <1>0, <3>1
        <3> QED
            BY <1>0, <3>1, <3>2, StayPass
    <2>2. CASE TickModelCalls
        <3>1. passID' >= passID /\ modelInbox' = modelInbox
            BY <1>0, <2>2, PassRises DEF TickModelCalls
        <3> QED
            BY <1>0, <3>1, StayPass
    <2>3. CASE TickModelFinal
        <3>1. CASE Resume
            <4>1. passID' = passID + 1 /\ Dispatch(hist', FALSE)
                BY <2>3, <3>1 DEF TickModelFinal, DispatchInference
            <4>2. passID' >= passID /\ passID' >= 1
                BY <1>0, <4>1, PassRises
            <4> QED
                BY <1>0, <4>1, <4>2, DispatchPass
        <3>2. CASE ~Resume
            <4>1. passID' = passID /\ modelInbox' = modelInbox
                BY <2>3, <3>2 DEF TickModelFinal
            <4>2. passID' >= passID
                BY <1>0, <4>1
            <4> QED
                BY <1>0, <4>1, <4>2, StayPass
        <3> QED
            BY <3>1, <3>2
    <2>4. CASE TickToolEnd
        <3> DEFINE h == hist \o Map(LAMBDA d : Result(d.call), toolWin)
        <3>1. h \in Seq(Message)
            <4> DEFINE rs == Map(LAMBDA d : Result(d.call), toolWin)
            <4>1. rs \in Seq(Message)
                BY BatchMessages DEF TypeInv
            <4> HIDE DEF rs
            <4>2. hist \o rs \in Seq(Message)
                BY <1>0, <4>1, ConcatType
            <4> QED
                BY <4>2 DEF rs
        <3>2. passID' = NextToolPass /\ (Dispatch(h, FALSE) \/ Dispatch(hist', FALSE))
            BY <2>4 DEF TickToolEnd
        <3> HIDE DEF h
        <3>3. passID' >= passID /\ passID' >= 1
            BY <1>0, <3>2, PassRises
        <3> QED
            BY <1>0, <3>1, <3>2, <3>3, DispatchPass
    <2>5. CASE TickUser
        <3>1. passID' = passID + 1 /\ Dispatch(hist', FALSE)
            BY <2>5 DEF TickUser, DispatchInference
        <3>2. passID' >= passID /\ passID' >= 1
            BY <1>0, <3>1, PassRises
        <3> QED
            BY <1>0, <3>1, <3>2, DispatchPass
    <2> QED
        BY <2>1, <2>2, <2>3, <2>4, <2>5
<1> QED
    BY <1>0, <1>1, <1>2, <1>3, WindowReset

(* A provider answers: the response follows a stream without loose ends.   *)
LEMMA AnswerStream ==
    ASSUME TypeInv, StreamInv, model.pc = "idle", NEW pass \in Nat, NEW pc \in {"taken", "stream"},
           Answer(pass, pc), IF Duplex THEN pass = 0 ELSE pass \in 1..passID,
           UNCHANGED <<window, modelOut, passID>>, Elems(modelInbox') \subseteq Elems(modelInbox)
    PROVE  StreamInv'
<1>1. PICK shape \in Shapes, base \in Nat :
        /\ base + NumCalls(shape) <= MaxCalls
        /\ model' = [pc |-> pc, pass |-> pass, todo |-> Response(pass, shape, base)]
    <2>1. nextCall \in Nat /\ (0..nextCall) \subseteq Nat
        BY Constants DEF TypeInv, ModelTypes
    <2> QED
        BY <2>1 DEF Answer
<1> DEFINE R == Response(pass, shape, base)
<1>2. R \in Seq(MDelta) /\ R # <<>> /\ Whole(R) /\ IsTerm(R[Len(R)])
      /\ \A d \in Elems(R) : d.pass = pass
    BY <1>1, ResponseType, ResponseWhole
<1>3. model'.todo = R /\ model'.pc # "idle" /\ model'.pass = pass
    BY <1>1
<1> HIDE DEF R
<1>4. /\ window \in Seq(MDelta) /\ modelOut \in Seq(MDelta)
      /\ window \o modelOut \in Seq(MDelta)
    BY StreamParts, ConcatType
<1>5. model.todo = <<>>
    BY DEF StreamInv, LastInv
<1>6. Whole(window \o modelOut)
    <2>1. modelOut \o <<>> = modelOut
        BY <1>4, EmptySides
    <2> QED
        BY <1>5, <2>1 DEF StreamInv, Stream
<1>7. Stream' = (window \o modelOut) \o R
    BY SMTT(60), <1>2, <1>3, <1>4, ConcatAssociative DEF Stream
<1>8. Whole(Stream')
    <2> DEFINE wm == window \o modelOut
    <2>1. wm \in Seq(MDelta) /\ Whole(wm)
        BY <1>4, <1>6
    <2> HIDE DEF wm
    <2>2. Whole(wm \o R)
        BY <1>2, <2>1, WholeConcat
    <2> QED
        BY <1>7, <2>2 DEF wm
<1>9. Whole(Stream)'
    BY <1>8 DEF Whole, InStep, Closed, Cut, Stream
<1>10. LastInv'
    BY <1>2, <1>3 DEF LastInv
<1>11. PassInv'
    <2>1. \A d : ModelPass(d)' <=> ModelPass(d)
        BY DEF ModelPass
    <2>2. \A d \in Elems(R) : ModelPass(d) /\ d.pass = pass
        BY <1>2 DEF ModelPass
    <2> QED
        BY <1>3, <2>1, <2>2 DEF StreamInv, PassInv
<1> QED
    BY <1>9, <1>10, <1>11 DEF StreamInv

LEMMA WholePrimes == Whole(Stream') => Whole(Stream)'
BY DEF Whole, InStep, Closed, Cut, Stream

(* The model runner's steps.                                               *)
LEMMA ModelStepStream ==
    ASSUME TypeInv, StreamInv, ModelStep
    PROVE  StreamInv'
<1> DEFINE td == model.todo
<1>0. /\ window \in Seq(MDelta) /\ modelOut \in Seq(MDelta) /\ td \in Seq(MDelta)
      /\ modelInbox \in Seq(Request) /\ passID \in Nat
    BY StreamParts
<1>1. modelInbox # <<>> => /\ Elems(Tail(modelInbox)) \subseteq Elems(modelInbox)
                           /\ Head(modelInbox) \in Request
                           /\ Head(modelInbox).pass \in 1..passID
    <2>1. modelInbox # <<>> => /\ Elems(Tail(modelInbox)) \subseteq Elems(modelInbox)
                               /\ Head(modelInbox) \in Elems(modelInbox)
                               /\ Head(modelInbox) \in Request
        BY <1>0, ElemsTail, TailType
    <2> QED
        BY <2>1 DEF StreamInv, PassInv
<1>2. CASE ModelTake
    <2>1. /\ ~Duplex /\ model.pc = "idle" /\ modelInbox # <<>> /\ modelInbox' = Tail(modelInbox)
          /\ Answer(Head(modelInbox).pass, "taken") /\ UNCHANGED <<window, modelOut, passID>>
        BY <1>2 DEF ModelTake, convVars
    <2> DEFINE p == Head(modelInbox).pass
    <2>2. p \in Nat /\ p \in 1..passID /\ Answer(p, "taken")
        BY <1>1, <2>1 DEF Request
    <2> HIDE DEF p
    <2>3. Elems(modelInbox') \subseteq Elems(modelInbox)
        BY <1>1, <2>1
    <2> QED
        BY <2>1, <2>2, <2>3, AnswerStream
<1>3. CASE SessionRespond
    <2>1. /\ Duplex /\ model.pc = "idle" /\ modelInbox' = modelInbox
          /\ Answer(0, "stream") /\ UNCHANGED <<window, modelOut, passID>>
        BY <1>3 DEF SessionRespond, convVars
    <2> QED
        BY <2>1, AnswerStream
<1>4. CASE ModelArm
    <2>1. /\ model' = [model EXCEPT !.pc = "stream"] /\ model.pc = "taken"
          /\ UNCHANGED <<window, modelOut, modelInbox, passID>>
        BY <1>4 DEF ModelArm, convVars
    <2>2. model'.todo = model.todo /\ model'.pass = model.pass /\ model'.pc = "stream"
        BY <2>1 DEF TypeInv, ModelTypes
    <2>3. Whole(Stream')
        BY <2>1, <2>2 DEF StreamInv, Stream
    <2>4. PassInv'
        BY <2>1, <2>2 DEF StreamInv, PassInv, ModelPass
    <2>5. LastInv'
        BY <2>2 DEF StreamInv, LastInv
    <2> QED
        BY <2>3, <2>4, <2>5, WholePrimes DEF StreamInv
<1>5. CASE SessionTake
    <2>1. /\ modelInbox # <<>> /\ modelInbox' = Tail(modelInbox)
          /\ UNCHANGED <<window, modelOut, model, passID>>
        BY <1>5 DEF SessionTake, convVars
    <2>2. Whole(Stream')
        BY <2>1 DEF StreamInv, Stream
    <2>3. PassInv'
        BY <1>1, <2>1 DEF StreamInv, PassInv, ModelPass
    <2>4. LastInv'
        BY <2>1 DEF StreamInv, LastInv
    <2> QED
        BY <2>2, <2>3, <2>4, WholePrimes DEF StreamInv
<1>6. CASE ModelEmit
    <2>1. /\ model.pc = "stream" /\ modelOut' = Append(modelOut, Head(td))
          /\ model' = IF Len(td) = 1 THEN NoModel ELSE [model EXCEPT !.todo = Tail(td)]
          /\ UNCHANGED <<window, modelInbox, passID>>
        BY <1>6 DEF ModelEmit, convVars
    <2>2. td # <<>>
        BY <2>1 DEF TypeInv, ModelTypes
    <2>3. /\ Head(td) \in MDelta /\ Tail(td) \in Seq(MDelta)
          /\ Elems(td) = {Head(td)} \cup Elems(Tail(td))
          /\ Append(modelOut, Head(td)) \o Tail(td) = modelOut \o td
          /\ Len(Tail(td)) = Len(td) - 1 /\ Len(td) > 0
          /\ \A i \in 1..(Len(td) - 1) : Tail(td)[i] = td[i + 1]
        BY <1>0, <2>2, TailType, ElemsTail, PassHead
    <2>4. model'.todo = Tail(td) /\ (model'.pass = model.pass \/ model'.todo = <<>>)
        <3>1. CASE Len(td) = 1
            <4>1. Len(Tail(td)) = 0 /\ Tail(td) \in Seq(MDelta)
                BY <2>3, <3>1
            <4>2. Tail(td) = <<>>
                <5> DEFINE r == Tail(td)
                <5>1. r \in Seq(MDelta) /\ Len(r) = 0
                    BY <4>1
                <5> HIDE DEF r
                <5>2. r = <<>>
                    BY <5>1
                <5> QED
                    BY <5>2 DEF r
            <4> QED
                BY <2>1, <3>1, <4>2 DEF NoModel
        <3>2. CASE Len(td) # 1
            BY <2>1, <3>2 DEF TypeInv, ModelTypes
        <3> QED
            BY <3>1, <3>2
    <2>5. Whole(Stream')
        BY <2>1, <2>3, <2>4 DEF StreamInv, Stream
    <2>6. PassInv'
        <3>1. \A d : ModelPass(d)' <=> ModelPass(d)
            BY <2>1 DEF ModelPass
        <3>2. Elems(modelOut') = Elems(modelOut) \cup {Head(td)}
            BY <1>0, <2>1, <2>3, ElemsAppend
        <3>3. \A d \in Elems(modelOut') : ModelPass(d)'
            BY <2>3, <3>1, <3>2 DEF StreamInv, PassInv
        <3>4. Elems(model'.todo) \subseteq Elems(td)
            BY <2>3, <2>4
        <3>5. \A d \in Elems(model'.todo) : ModelPass(d)' /\ d.pass = model'.pass
            <4>1. model'.todo = <<>> => Elems(model'.todo) = {}
                BY ElemsSmall
            <4> QED
                BY <2>4, <3>1, <3>4, <4>1 DEF StreamInv, PassInv
        <3> QED
            BY <2>1, <3>3, <3>5 DEF StreamInv, PassInv
    <2>7. LastInv'
        <3>1. model'.pc = "idle" => model'.todo = <<>>
            <4>1. CASE Len(td) = 1
                BY <2>1, <4>1 DEF NoModel
            <4>2. CASE Len(td) # 1
                BY <2>1, <4>2 DEF TypeInv, ModelTypes
            <4> QED
                BY <4>1, <4>2
        <3>2. ASSUME model'.todo # <<>> PROVE IsTerm(model'.todo[Len(model'.todo)])
            <4> DEFINE r == Tail(td)
                       n == Len(td)
            <4>1. r \in Seq(MDelta) /\ r # <<>> /\ Len(r) = n - 1 /\ n \in Nat
                BY <1>0, <2>3, <2>4, <3>2
            <4>2. n - 1 \in 1..(n - 1)
                <5> HIDE DEF r, n
                <5>1. Len(r) > 0
                    BY <4>1, TailType
                <5> QED
                    BY <4>1, <5>1
            <4>3. r[n - 1] = td[(n - 1) + 1]
                BY <2>3, <4>2
            <4>4. (n - 1) + 1 = n
                BY <4>1
            <4>5. r[Len(r)] = td[Len(td)]
                BY <4>1, <4>3, <4>4
            <4>6. IsTerm(td[Len(td)])
                BY <2>2 DEF StreamInv, LastInv
            <4> QED
                BY <2>4, <4>5, <4>6
        <3> QED
            BY <3>1, <3>2 DEF LastInv
    <2> QED
        BY <2>5, <2>6, <2>7, WholePrimes DEF StreamInv
<1> QED
    BY <1>2, <1>3, <1>4, <1>5, <1>6 DEF ModelStep

(* A stale head belongs to another pass than the window.                   *)
LEMMA StaleStream ==
    ASSUME TypeInv, StreamInv, TickStaleModel
    PROVE  StreamInv'
<1> DEFINE d == Head(modelOut)
           r == Tail(modelOut) \o model.todo
<1>0. /\ modelOut # <<>> /\ Stale(d) /\ modelOut' = Tail(modelOut)
      /\ UNCHANGED <<window, model, modelInbox, passID>>
    BY DEF TickStaleModel, convVars
<1>1. /\ modelOut \o model.todo = <<d>> \o r /\ d \in MDelta /\ r \in Seq(MDelta)
      /\ window \in Seq(MDelta) /\ modelOut \in Seq(MDelta)
    BY <1>0, StreamHead, StreamParts
<1>2. d \in Elems(modelOut) /\ Elems(modelOut') \subseteq Elems(modelOut)
    BY <1>0, <1>1, ElemsTail
<1>3. \A x \in Elems(window) : x.pass # d.pass
    <2>1. d.pass > 0 /\ d.pass < passID /\ d.pass \in Nat
        BY <1>0, <1>1 DEF Stale, MDelta
    <2>2. ModelPass(d)
        BY <1>2 DEF StreamInv, PassInv
    <2>3. ~Duplex
        BY <2>1, <2>2 DEF ModelPass
    <2>4. \A x \in Elems(window) : x.pass = passID
        BY <2>3 DEF StreamInv, PassInv
    <2> QED
        BY <2>1, <2>4, StreamParts
<1>4. Stream' = window \o r
    BY <1>0 DEF Stream
<1>5. Whole(window \o (<<d>> \o r))
    BY <1>1 DEF StreamInv, Stream
<1> HIDE DEF d, r
<1>6. Whole(window \o r)
    BY <1>1, <1>3, <1>5, WholeDrop
<1>7. PassInv'
    BY <1>0, <1>2 DEF StreamInv, PassInv, ModelPass
<1>8. LastInv'
    BY <1>0 DEF StreamInv, LastInv
<1> QED
    BY <1>4, <1>6, <1>7, <1>8, WholePrimes DEF StreamInv

(* A content delta passes from the outbox to the window.                   *)
LEMMA PartStream ==
    ASSUME TypeInv, StreamInv, TickModelPart
    PROVE  StreamInv'
<1> DEFINE d == Head(modelOut)
           q == Tail(modelOut)
           td == model.todo
<1>0. /\ modelOut # <<>> /\ ~Stale(d) /\ modelOut' = q /\ window' = Append(window, d)
      /\ d.kind \in {"start", "text", "think", "rend", "call"}
      /\ UNCHANGED <<model, modelInbox, passID>>
    BY DEF TickModelPart, ReadModel
<1>1. /\ modelOut \o td = <<d>> \o (q \o td) /\ d \in MDelta
      /\ q \o td \in Seq(MDelta) /\ <<d>> \in Seq(MDelta)
      /\ window \in Seq(MDelta) /\ modelOut \in Seq(MDelta)
    BY <1>0, StreamHead, StreamParts
<1>2. d \in Elems(modelOut) /\ Elems(modelOut') \subseteq Elems(modelOut)
    BY <1>0, <1>1, ElemsTail
<1>3. ~IsTerm(d) /\ d.pass = IF Duplex THEN 0 ELSE passID
    <2>1. ModelPass(d)
        BY <1>2 DEF StreamInv, PassInv
    <2>2. ~(d.pass > 0 /\ d.pass < passID) /\ passID \in Nat
        BY <1>0, StreamParts DEF Stale
    <2>3. d.pass = IF Duplex THEN 0 ELSE passID
        BY <2>1, <2>2 DEF ModelPass
    <2> QED
        BY <1>0, <2>3 DEF IsTerm
<1>4. Stream' = Append(window, d) \o (q \o td)
    BY <1>0 DEF Stream
<1>5. Whole(window \o (<<d>> \o (q \o td)))
    BY <1>1 DEF StreamInv, Stream
<1> DEFINE r == q \o td
<1>6. r \in Seq(MDelta) /\ Stream' = Append(window, d) \o r /\ Whole(window \o (<<d>> \o r))
    BY <1>1, <1>4, <1>5
<1> HIDE DEF d, q, td, r
<1>7. Append(window, d) \o r = window \o (<<d>> \o r)
    <2>1. Append(window, d) = window \o <<d>>
        BY <1>1, AppendIsConcat
    <2>2. window \in Seq(MDelta) /\ <<d>> \in Seq(MDelta) /\ r \in Seq(MDelta)
        BY <1>1, <1>6
    <2>3. (window \o <<d>>) \o r = window \o (<<d>> \o r)
        BY <2>2, ConcatAssociative
    <2> QED
        BY <2>1, <2>3
<1>8. Elems(window') = Elems(window) \cup {d}
    BY <1>0, <1>1, ElemsAppend
<1>9. PassInv'
    BY <1>0, <1>2, <1>3, <1>8 DEF StreamInv, PassInv, ModelPass
<1>10. LastInv'
    BY <1>0 DEF StreamInv, LastInv
<1> QED
    BY <1>6, <1>7, <1>9, <1>10, WholePrimes DEF StreamInv

(* A duplex session's pass may rise under an open window: its deltas carry *)
(* no pass.                                                                *)
LEMMA HeldStream ==
    ASSUME TypeInv, TypeInv', StreamInv, TickUserHeld
    PROVE  StreamInv'
<1>0. /\ passID \in Nat /\ InboxPass /\ passID' \in Nat /\ hist \in Seq(Message)
      /\ held' \in Seq(Message)
    BY DEF TypeInv, ConvTypes, StreamInv, PassInv, InboxPass
<1>1. UNCHANGED <<window, modelOut, model>>
    BY DEF TickUserHeld, ReadUser
<1>2. CASE ~Duplex
    BY <1>1, <1>2, StreamStays DEF TickUserHeld, streamVars
<1>3. CASE Duplex
    <2> DEFINE c == hist \o held'
    <2>1. passID' = passID + 1 /\ Dispatch(c, FALSE)
        BY <1>3 DEF TickUserHeld, DispatchInference
    <2>2. c \in Seq(Message)
        BY <1>0, ConcatType
    <2> HIDE DEF c
    <2>3. passID' >= passID /\ passID' >= 1
        BY <1>0, <2>1
    <2>4. InboxPass'
        BY <1>0, <2>1, <2>2, <2>3, DispatchPass
    <2>5. PassInv'
        BY <1>1, <1>3, <2>4 DEF StreamInv, PassInv, ModelPass, InboxPass
    <2>6. Whole(Stream') /\ LastInv'
        BY <1>1 DEF StreamInv, Stream, LastInv
    <2> QED
        BY <2>5, <2>6, WholePrimes DEF StreamInv
<1> QED
    BY <1>2, <1>3

(* The outbox and what the runner still writes once it is cancelled.       *)
LEMMA CancelStream ==
    ASSUME TypeInv, StreamInv, CancelModel
    PROVE  /\ Whole(modelOut \o model'.todo)
           /\ LET td == model'.todo
              IN  /\ td \in Seq(MDelta)
                  /\ \A d \in Elems(td) : ModelPass(d) /\ d.pass = model'.pass
           /\ LastInv'
<1> DEFINE td == model.todo
           v == modelOut \o td
           n == Len(modelOut)
<1>0. /\ modelOut \in Seq(MDelta) /\ td \in Seq(MDelta)
      /\ model \in [pc : {"idle", "taken", "stream"}, pass : Nat, todo : Seq(MDelta)]
      /\ Whole(v)
    BY StreamParts, StreamSuffixes DEF TypeInv, ModelTypes, StreamInv
<1>1. CASE model' = model
    BY <1>0, <1>1 DEF StreamInv, PassInv, LastInv
<1>2. CASE model.pc = "stream"
    <2> DEFINE head == Head(td)
               err == [pass |-> model.pass, kind |-> "err", call |-> 0]
    <2>1. td # <<>>
        BY <1>2 DEF TypeInv, ModelTypes
    <2>2. /\ head \in MDelta /\ head \in Elems(td) /\ head = td[1] /\ Len(td) > 0
          /\ n \in Nat /\ Len(td) \in Nat
        BY <1>0, <2>1, TailType, ElemsTail
    <2>3. err \in MDelta /\ IsTerm(err) /\ err.pass = model.pass
        BY <1>0, Constants DEF MDelta, PartKind, IsTerm
    <2>4. \A d \in Elems(td) : ModelPass(d) /\ d.pass = model.pass
        BY DEF StreamInv, PassInv
    <2>5. ModelPass(err)
        BY <2>2, <2>3, <2>4 DEF ModelPass
    <2>6. PICK q : /\ model' = [model EXCEPT !.todo = q]
                   /\ \/ q = <<err>>
                      \/ q = <<head>> /\ Len(td) = 1
                      \/ q = <<head, err>>
        BY <1>2 DEF CancelModel
    <2>7. model'.todo = q /\ model'.pass = model.pass /\ model'.pc = "stream"
        BY <1>0, <1>2, <2>6
    <2>8. /\ Len(v) = n + Len(td) /\ v \in Seq(MDelta)
          /\ \A i \in 1..n : v[i] = modelOut[i]
          /\ \A i \in 1..Len(td) : v[n + i] = td[i]
        BY <1>0, ConcatType
    <2>9. \A k \in (n + 1)..Len(v) : v[k].pass = model.pass
        <3> SUFFICES ASSUME NEW k \in (n + 1)..Len(v) PROVE v[k].pass = model.pass
            OBVIOUS
        <3> DEFINE l == k - n
        <3>1. l \in 1..Len(td) /\ k = n + l
            BY <2>2, <2>8
        <3> HIDE DEF l
        <3>2. v[k] = td[l] /\ td[l] \in Elems(td)
            BY <1>0, <2>8, <3>1, ElemsType
        <3> QED
            BY <2>4, <3>2
    <2> DEFINE w == modelOut \o q
    <2> HIDE DEF td, head, err, n, v
    <2>10. CASE q = <<err>>
        <3>1. q \in Seq(MDelta) /\ Len(q) = 1 /\ q[1] = err /\ Elems(q) = {err}
            BY <2>3, <2>10, SingletonType, ElemsSmall
        <3>2. /\ Len(w) = n + 1 /\ w \in Seq(MDelta) /\ w[n + 1] = err
              /\ \A i \in 1..n : w[i] = modelOut[i]
            <4>1. modelOut \in Seq(MDelta) /\ q \in Seq(MDelta) /\ 1 \in 1..Len(q)
                BY <1>0, <3>1
            <4>2. /\ Len(w) = n + Len(q) /\ w \in Seq(MDelta)
                  /\ \A i \in 1..n : w[i] = modelOut[i]
                  /\ \A i \in 1..Len(q) : w[n + i] = q[i]
                BY <4>1, ConcatType DEF n
            <4> HIDE DEF w
            <4> QED
                BY <3>1, <4>1, <4>2
        <3> HIDE DEF w
        <3>3. Whole(w)
            <4>1. n <= Len(v) /\ \A i \in 1..n : w[i] = v[i]
                BY <2>2, <2>8, <3>2
            <4> QED
                BY <1>0, <2>2, <2>3, <2>8, <2>9, <3>2, <4>1, WholeCutOff
        <3>4. LastInv'
            BY <2>3, <2>7, <3>1 DEF LastInv
        <3> QED
            BY <2>3, <2>5, <2>7, <3>1, <3>3, <3>4 DEF w
    <2>11. CASE q = <<head>> /\ Len(td) = 1
        <3>1. td = <<head>>
            BY <1>0, <2>2, <2>11
        <3>2. q = td
            BY <2>11, <3>1
        <3>3. IsTerm(td[Len(td)])
            BY <2>1 DEF StreamInv, LastInv, td
        <3>4. LastInv'
            BY <2>7, <3>2, <3>3 DEF LastInv
        <3> QED
            BY <1>0, <2>4, <2>7, <3>2, <3>4 DEF v
    <2>12. CASE q = <<head, err>>
        <3>1. q \in Seq(MDelta) /\ Len(q) = 2 /\ q[1] = head /\ q[2] = err
            BY <2>2, <2>3, <2>12
        <3>2. Elems(q) = {head, err}
            BY <2>12 DEF Elems
        <3>3. /\ Len(w) = n + 2 /\ w \in Seq(MDelta) /\ w[n + 1] = head /\ w[n + 2] = err
              /\ \A i \in 1..n : w[i] = modelOut[i]
            <4>1. modelOut \in Seq(MDelta) /\ q \in Seq(MDelta)
                  /\ 1 \in 1..Len(q) /\ 2 \in 1..Len(q)
                BY <1>0, <3>1
            <4>2. /\ Len(w) = n + Len(q) /\ w \in Seq(MDelta)
                  /\ \A i \in 1..n : w[i] = modelOut[i]
                  /\ \A i \in 1..Len(q) : w[n + i] = q[i]
                BY <4>1, ConcatType DEF n
            <4> HIDE DEF w
            <4>3. Len(w) = n + 2 /\ w[n + 1] = q[1] /\ w[n + 2] = q[2]
                BY <3>1, <4>1, <4>2
            <4> QED
                BY <3>1, <4>2, <4>3
        <3> HIDE DEF w
        <3> DEFINE m == n + 1
        <3>4. m \in Nat /\ m <= Len(v) /\ Len(w) = m + 1 /\ w[m + 1] = err
            <4>1. (n + 1) + 1 = n + 2
                BY <2>2
            <4> QED
                BY <2>2, <2>8, <3>3, <4>1
        <3>5. \A i \in 1..m : w[i] = v[i]
            <4>1. v[n + 1] = head
                BY <2>2, <2>8
            <4>2. \A i \in 1..m : i \in 1..n \/ i = n + 1
                BY <2>2
            <4> QED
                BY <2>8, <3>3, <4>1, <4>2
        <3>6. \A k \in (m + 1)..Len(v) : v[k].pass = w[m + 1].pass
            <4>1. \A k \in (m + 1)..Len(v) : k \in (n + 1)..Len(v)
                BY <2>2
            <4> QED
                BY <2>3, <2>9, <3>4, <4>1
        <3> HIDE DEF m
        <3>7. Whole(w)
            BY <1>0, <2>3, <2>8, <3>3, <3>4, <3>5, <3>6, WholeCutOff
        <3>8. LastInv'
            BY <2>3, <2>7, <3>1 DEF LastInv
        <3>9. \A d \in Elems(q) : ModelPass(d) /\ d.pass = model.pass
            BY <2>2, <2>3, <2>4, <2>5, <3>2
        <3> QED
            BY <2>7, <3>1, <3>7, <3>8, <3>9 DEF w
    <2> QED
        BY <2>6, <2>10, <2>11, <2>12 DEF head, err
<1> QED
    BY <1>1, <1>2 DEF CancelModel

LEMMA InterruptStream ==
    ASSUME TypeInv, TypeInv', StreamInv, TickInterrupt
    PROVE  StreamInv'
<1>0. /\ passID \in Nat /\ InboxPass /\ passID' \in Nat /\ hist' \in Seq(Message)
      /\ modelOut \in Seq(MDelta)
    BY StreamParts DEF TypeInv, ConvTypes, StreamInv, PassInv, InboxPass
<1> DEFINE bare == Head(userOut).id = 0
<1>1. /\ window' = <<>> /\ modelOut' = modelOut /\ passID' = passID + 1
      /\ CancelModel /\ Dispatch(hist', bare)
    BY DEF TickInterrupt, ReadUser
<1>2. bare \in BOOLEAN
    OBVIOUS
<1> HIDE DEF bare
<1>3. passID' >= passID /\ passID' >= 1
    BY <1>0, <1>1
<1>4. InboxPass'
    BY <1>0, <1>1, <1>2, <1>3, DispatchPass
<1> DEFINE td == model'.todo
<1>5. /\ Whole(modelOut \o td) /\ td \in Seq(MDelta) /\ LastInv'
      /\ \A d \in Elems(td) : ModelPass(d) /\ d.pass = model'.pass
    BY <1>1, CancelStream
<1>6. Stream' = <<>> \o (modelOut \o td)
    BY <1>1 DEF Stream
<1>7. modelOut \o td \in Seq(MDelta)
    <2> HIDE DEF td
    <2> QED
        BY <1>0, <1>5, ConcatType
<1>8. Whole(Stream')
    BY <1>5, <1>6, <1>7, EmptySides
<1>9. PassInv'
    <2>1. \A d : ModelPass(d) => ModelPass(d)'
        BY <1>0, <1>3, ModelPassRises
    <2>2. Elems(window') = {}
        BY <1>1, ElemsSmall
    <2>3. \A d \in Elems(modelOut') : ModelPass(d)'
        BY <1>1, <2>1 DEF StreamInv, PassInv
    <2>4. \A d \in Elems(model'.todo) : ModelPass(d)' /\ d.pass = model'.pass
        BY <1>5, <2>1
    <2> QED
        BY <1>4, <2>2, <2>3, <2>4 DEF PassInv, InboxPass
<1> QED
    BY <1>5, <1>8, <1>9, WholePrimes DEF StreamInv

LEMMA NextStream ==
    TypeInv /\ TypeInv' /\ StreamInv /\ [Next]_vars => StreamInv'
<1> SUFFICES ASSUME TypeInv, TypeInv', StreamInv, [Next]_vars PROVE StreamInv'
    OBVIOUS
<1>1. CASE Caller \/ ToolStep \/ TickStaleTool \/ TickToolPart \/ TickToolError
           \/ TickClose \/ Stop \/ UNCHANGED vars
    <2>1. Caller => UNCHANGED streamVars
        BY DEF Caller, Send, SendInterrupt, SendClose, streamVars, convVars, modelVars
    <2>2. ToolStep => UNCHANGED streamVars
        BY DEF ToolStep, ToolTake, ToolStart, ToolReturn, ToolFail, ToolEmit, streamVars,
               convVars, modelVars
    <2>3. TickStaleTool \/ TickToolPart \/ TickToolError => UNCHANGED streamVars
        BY DEF TickStaleTool, TickToolPart, TickToolError, ReadTool, streamVars, convVars,
               modelVars
    <2>4. TickClose \/ Stop \/ UNCHANGED vars => UNCHANGED streamVars
        BY DEF TickClose, ReadUser, Stop, vars, streamVars, convVars, modelVars
    <2> QED
        BY <1>1, <2>1, <2>2, <2>3, <2>4, StreamStays
<1>2. CASE ModelStep
    BY <1>2, ModelStepStream
<1>3. CASE TickReasoningEnd \/ TickModelCalls \/ TickModelFinal \/ TickModelError
             \/ TickToolEnd \/ TickUser
    BY <1>3, ResetStream
<1>4. CASE TickStaleModel \/ TickModelPart \/ TickUserHeld \/ TickInterrupt
    BY <1>4, StaleStream, PartStream, HeldStream, InterruptStream
<1> QED
    BY <1>1, <1>2, <1>3, <1>4 DEF Next, Tick

LEMMA InitStream == Init => StreamInv
<1> SUFFICES ASSUME Init PROVE StreamInv
    OBVIOUS
<1>1. Elems(<<>>) = {}
    BY ElemsSmall
<1>2. Stream = <<>>
    BY EmptyPath DEF Init, Stream, NoModel
<1>3. Whole(<<>>)
    BY DEF Whole, InStep, Closed
<1> QED
    BY <1>1, <1>2, <1>3 DEF Init, NoModel, StreamInv, PassInv, LastInv

LEMMA Streams == Spec => []StreamInv
BY InitStream, InitTypes, NextTypes, NextStream, PTL DEF Spec

-----------------------------------------------------------------------------
(* Each call is started once                                               *)

LEMMA NextBatch ==
    TypeInv /\ StreamInv /\ BatchInv /\ [Next]_vars => BatchInv'
<1> SUFFICES ASSUME TypeInv, StreamInv, BatchInv, [Next]_vars PROVE BatchInv'
    OBVIOUS
<1>0. /\ toolInbox \in Seq(ToolBatch) /\ begun \in Seq(CallId)
      /\ tool.calls \in Seq(CallId)
      /\ tool \in [pc : {"idle", "taken", "run", "emit"}, pass : Nat,
                   calls : Seq(CallId), todo : Seq(TDelta), cancelled : BOOLEAN]
    BY DEF TypeInv, ToolTypes
<1>1. Distinct(<<>>) /\ NoTool.calls = <<>>
    BY DEF Distinct, NoTool
<1>2. ASSUME toolInbox' = toolInbox, begun' = begun,
             tool'.calls = tool.calls \/ tool'.calls = <<>>
      PROVE  BatchInv'
    BY <1>1, <1>2 DEF BatchInv, Distinct
<1>3. CASE ToolTake
    <2>1. /\ toolInbox # <<>> /\ toolInbox' = Tail(toolInbox) /\ begun' = begun
          /\ tool'.calls = Head(toolInbox).calls
        BY <1>3 DEF ToolTake, NoTool
    <2>2. /\ Elems(Tail(toolInbox)) \subseteq Elems(toolInbox)
          /\ Head(toolInbox) \in Elems(toolInbox)
        BY <1>0, <2>1, ElemsTail
    <2> QED
        BY <2>1, <2>2 DEF BatchInv, Distinct
<1>4. CASE ToolStart
    <2> DEFINE calls == AdmitCalls(tool.calls)
    <2>1. /\ toolInbox' = toolInbox /\ begun' = begun \o calls
          /\ tool' = IF calls = <<>> THEN NoTool
                     ELSE [tool EXCEPT !.pc = "run", !.calls = calls]
        BY <1>4 DEF ToolStart
    <2>2. /\ calls \in Seq(CallId) /\ Distinct(calls)
          /\ Elems(begun) \cap Elems(calls) = {}
        BY <1>0, OnlyType, OnlyDistinct, OnlyElems DEF AdmitCalls, BatchInv
    <2> HIDE DEF calls
    <2>3. tool'.calls = calls
        BY <1>0, <1>1, <2>1
    <2>4. Distinct(begun \o calls)
        BY <1>0, <2>2, DistinctConcat DEF BatchInv
    <2> QED
        BY <2>1, <2>2, <2>3, <2>4 DEF BatchInv, Distinct
<1>5. CASE ToolReturn
    <2>1. toolInbox' = toolInbox /\ begun' = begun
          /\ \E q : tool' = [tool EXCEPT !.pc = "emit", !.todo = q]
        BY <1>5 DEF ToolReturn
    <2> QED
        BY SMTT(60), <1>0, <1>2, <2>1
<1>6. CASE ToolFail
    <2>1. toolInbox' = toolInbox /\ begun' = begun
          /\ \E q : tool' = [tool EXCEPT !.pc = "emit", !.todo = q]
        BY <1>6 DEF ToolFail
    <2> QED
        BY SMTT(60), <1>0, <1>2, <2>1
<1>7. CASE ToolEmit
    <2>1. /\ toolInbox' = toolInbox /\ begun' = begun
          /\ tool' = NoTool \/ tool' = [tool EXCEPT !.todo = Tail(tool.todo)]
        BY <1>7 DEF ToolEmit
    <2> QED
        BY <1>0, <1>1, <1>2, <2>1
<1>8. CASE TickModelCalls
    <2> DEFINE b == [pass |-> passID', calls |-> CallsIn(window)]
    <2>1. Distinct(CallsIn(window))
        <3> DEFINE t == modelOut \o model.todo
                   p == IF Duplex THEN 0 ELSE passID
        <3>1. window \in Seq(MDelta) /\ t \in Seq(MDelta) /\ Whole(window \o t)
            BY StreamParts DEF StreamInv, Stream
        <3>2. \A d \in Elems(window) : ~IsTerm(d) /\ d.pass = p
            BY DEF StreamInv, PassInv
        <3> HIDE DEF t, p
        <3> QED
            BY <3>1, <3>2, WindowDistinct
    <2>2. b \in ToolBatch /\ b.calls = CallsIn(window)
        <3>1. passID' \in Nat
            BY <1>8, PassTypes DEF TickModelCalls, TypeInv, ConvTypes
        <3>2. CallsIn(window) \in Seq(CallId)
            BY StreamParts, CallsInType
        <3> QED
            BY <3>1, <3>2 DEF ToolBatch
    <2>3. toolInbox' = Append(toolInbox, b) /\ UNCHANGED <<tool, begun>>
        BY <1>8 DEF TickModelCalls, ReadModel
    <2> HIDE DEF b
    <2>4. Elems(toolInbox') = Elems(toolInbox) \cup {b}
        BY <1>0, <2>2, <2>3, ElemsAppend
    <2> QED
        BY <2>1, <2>2, <2>3, <2>4 DEF BatchInv, Distinct
<1>9. CASE TickInterrupt
    <2>1. toolInbox' = toolInbox /\ begun' = begun /\ CancelTool
        BY <1>9 DEF TickInterrupt, ReadUser
    <2>2. tool'.calls = tool.calls
        BY <1>0, <2>1 DEF CancelTool
    <2> QED
        BY <1>2, <2>1, <2>2
<1>10. CASE Caller \/ ModelStep \/ Stop \/ UNCHANGED vars
    BY <1>2, <1>10 DEF Caller, Send, SendInterrupt, SendClose, ModelStep, ModelTake, ModelArm,
       ModelEmit, SessionTake, SessionRespond, Stop, vars, toolVars
<1>11. CASE TickStaleModel \/ TickModelPart \/ TickReasoningEnd \/ TickModelFinal
            \/ TickModelError
    BY <1>2, <1>11 DEF TickStaleModel, TickModelPart, TickReasoningEnd, TickModelFinal,
       TickModelError, ReadModel, toolVars
<1>12. CASE TickStaleTool \/ TickToolPart \/ TickToolEnd \/ TickToolError \/ TickUser
            \/ TickUserHeld \/ TickClose
    BY <1>2, <1>12 DEF TickStaleTool, TickToolPart, TickToolEnd, TickToolError, TickUser,
       TickUserHeld, TickClose, ReadTool, ReadUser
<1> QED
    BY <1>3, <1>4, <1>5, <1>6, <1>7, <1>8, <1>9, <1>10, <1>11, <1>12
    DEF Next, Tick, ToolStep

(* A call ID reaches the tool executor at most once, in both modes and     *)
(* even from a provider that repeats IDs: admitCalls keeps out what ran    *)
(* before, and no batch can name a call twice, because a window never      *)
(* holds the deltas of two responses.                                      *)
THEOREM StartedOnce == Spec => []ExecutedOnce
<1>1. Init => BatchInv
    <2>1. Elems(<<>>) = {}
        BY ElemsSmall
    <2>2. Distinct(<<>>)
        BY DEF Distinct
    <2> QED
        BY <2>1, <2>2 DEF Init, BatchInv, NoTool
<1>2. BatchInv => ExecutedOnce
    BY DEF BatchInv, Distinct, ExecutedOnce
<1> QED
    BY <1>1, <1>2, NextBatch, Typed, Streams, PTL DEF Spec

-----------------------------------------------------------------------------
(* No call of a turn-based loop is lost                                    *)

(* The passes of what is under way to, in and from the two runners.        *)
ModelPasses ==
    {r.pass : r \in Elems(modelInbox)} \cup {d.pass : d \in Elems(modelOut)}
        \cup {d.pass : d \in Elems(model.todo)}

ToolPasses ==
    {b.pass : b \in Elems(toolInbox)} \cup {d.pass : d \in Elems(toolOut)}
        \cup {d.pass : d \in Elems(tool.todo)}
        \cup {p \in {tool.pass} : tool.pc # "idle"}

(* Either the loop waits for the one batch of the current pass, and        *)
(* whatever the model still sends is stale; or it waits for none, and      *)
(* whatever the tools still send is stale.                                 *)
PhaseInv ==
    /\ outstanding \in {0, 1}
    /\ window # <<>> => open
    /\ outstanding = 1 => /\ ~open
                          /\ ModelPasses \subseteq 1..(passID - 1)
                          /\ ToolPasses \subseteq 1..passID
    /\ outstanding = 0 => ToolPasses \subseteq 1..(passID - 1)

phaseVars == <<window, open, outstanding, passID>>

LEMMA ModelPassesBounded ==
    ASSUME ~Duplex, StreamInv
    PROVE  ModelPasses \subseteq 1..passID
BY DEF StreamInv, PassInv, ModelPass, ModelPasses

LEMMA PhaseStays ==
    ASSUME PhaseInv, UNCHANGED phaseVars,
           ModelPasses' \subseteq ModelPasses, ToolPasses' \subseteq ToolPasses
    PROVE  PhaseInv'
<1>1. (\A p \in ModelPasses' : p \in ModelPasses) /\ (\A p \in ToolPasses' : p \in ToolPasses)
    OBVIOUS
<1> QED
    BY <1>1 DEF PhaseInv, phaseVars

(* A request becomes the response the runner works on.                     *)
LEMMA TakePasses ==
    ASSUME TypeInv, ModelTake
    PROVE  ModelPasses' \subseteq ModelPasses
<1> DEFINE p == Head(modelInbox).pass
<1>0. modelInbox \in Seq(Request) /\ nextCall \in Nat /\ (0..nextCall) \subseteq Nat
    BY StreamParts, Constants DEF TypeInv, ModelTypes
<1>1. /\ modelInbox # <<>> /\ modelInbox' = Tail(modelInbox) /\ modelOut' = modelOut
      /\ Answer(p, "taken")
    BY DEF ModelTake
<1>2. /\ Head(modelInbox) \in Elems(modelInbox) /\ Head(modelInbox) \in Request
      /\ Elems(Tail(modelInbox)) \subseteq Elems(modelInbox)
    BY <1>0, <1>1, ElemsTail, TailType
<1>3. p \in Nat /\ p \in ModelPasses
    BY <1>2 DEF Request, ModelPasses
<1> HIDE DEF p
<1>4. PICK shape \in Shapes, base \in Nat :
        /\ base + NumCalls(shape) <= MaxCalls
        /\ model' = [pc |-> "taken", pass |-> p, todo |-> Response(p, shape, base)]
    BY <1>0, <1>1 DEF Answer
<1>5. \A d \in Elems(model'.todo) : d.pass = p
    BY <1>3, <1>4, ResponseWhole
<1> QED
    BY <1>1, <1>2, <1>3, <1>5 DEF ModelPasses

(* The model runner and the engine's reads bring up no new pass.           *)
LEMMA ModelPassesStay ==
    ASSUME ~Duplex, TypeInv, ModelStep \/ TickStaleModel \/ TickModelPart
    PROVE  ModelPasses' \subseteq ModelPasses
<1> DEFINE td == model.todo
<1>0. /\ modelOut \in Seq(MDelta) /\ td \in Seq(MDelta) /\ modelInbox \in Seq(Request)
      /\ Elems(<<>>) = {}
    BY StreamParts, ElemsSmall
<1>1. CASE ModelArm
    <2>1. /\ model' = [model EXCEPT !.pc = "stream"]
          /\ UNCHANGED <<modelOut, modelInbox>>
        BY <1>1 DEF ModelArm
    <2>2. model'.todo = td
        BY <2>1 DEF TypeInv, ModelTypes
    <2> QED
        BY <2>1, <2>2 DEF ModelPasses
<1>2. CASE ModelEmit
    <2>1. /\ modelOut' = Append(modelOut, Head(td)) /\ modelInbox' = modelInbox
          /\ model' = NoModel \/ model' = [model EXCEPT !.todo = Tail(td)]
          /\ td # <<>>
        BY <1>2 DEF ModelEmit, TypeInv, ModelTypes
    <2>2. /\ Elems(td) = {Head(td)} \cup Elems(Tail(td)) /\ Head(td) \in MDelta
          /\ Elems(modelOut') = Elems(modelOut) \cup {Head(td)}
        BY <1>0, <2>1, ElemsTail, TailType, ElemsAppend
    <2>3. model'.todo = <<>> \/ model'.todo = Tail(td)
        BY <2>1 DEF NoModel, TypeInv, ModelTypes
    <2>4. Elems(model'.todo) \subseteq Elems(td)
        BY <1>0, <2>2, <2>3
    <2> QED
        BY <2>1, <2>2, <2>4 DEF ModelPasses
<1>3. CASE TickStaleModel \/ TickModelPart
    <2>1. /\ modelOut # <<>> /\ modelOut' = Tail(modelOut)
          /\ UNCHANGED <<model, modelInbox>>
        BY <1>3 DEF TickStaleModel, TickModelPart, ReadModel
    <2>2. Elems(modelOut') \subseteq Elems(modelOut)
        BY <1>0, <2>1, ElemsTail
    <2> QED
        BY <2>1, <2>2 DEF ModelPasses
<1> QED
    BY <1>1, <1>2, <1>3, TakePasses DEF ModelStep, SessionTake, SessionRespond

(* What a batch returns carries the batch's pass.                          *)
LEMMA ReturnPass ==
    ASSUME ToolTypes
    PROVE  LET rs == Map(LAMBDA c : ToolDelta("result", c), tool.calls)
               all == <<ToolDelta("start", 0)>> \o rs \o <<ToolDelta("end", 0)>>
           IN  \A d \in Elems(all) : d.pass = tool.pass
<1> DEFINE rs == Map(LAMBDA c : ToolDelta("result", c), tool.calls)
           a == ToolDelta("start", 0)
           b == ToolDelta("end", 0)
           all == <<a>> \o rs \o <<b>>
<1>1. /\ rs \in Seq(TDelta) /\ Len(rs) = Len(tool.calls)
      /\ \A i \in 1..Len(tool.calls) : rs[i] = ToolDelta("result", tool.calls[i])
    BY ReturnType
<1>2. \A d \in Elems(rs) : d.pass = tool.pass
    <2> HIDE DEF rs
    <2>1. DOMAIN rs = 1..Len(tool.calls)
        BY <1>1
    <2>2. \A i \in 1..Len(tool.calls) : rs[i].pass = tool.pass
        <3>1. \A c : ToolDelta("result", c).pass = tool.pass
            BY DEF ToolDelta
        <3> QED
            BY <1>1, <3>1
    <2> QED
        BY <2>1, <2>2 DEF Elems
<1>3. a \in TDelta /\ b \in TDelta /\ a.pass = tool.pass /\ b.pass = tool.pass
    BY Constants DEF ToolTypes, TDelta, ToolDelta
<1> HIDE DEF rs, a, b
<1>4. <<a>> \in Seq(TDelta) /\ <<b>> \in Seq(TDelta) /\ Elems(<<a>>) = {a} /\ Elems(<<b>>) = {b}
    BY <1>3, ElemsSmall, SingletonType
<1>5. <<a>> \o rs \in Seq(TDelta) /\ Elems(<<a>> \o rs) = {a} \cup Elems(rs)
    <2>1. rs \in Seq(TDelta) /\ <<a>> \in Seq(TDelta)
        BY <1>1, <1>4 DEF rs
    <2>2. <<a>> \o rs \in Seq(TDelta)
        BY <2>1, ConcatType
    <2>3. Elems(<<a>> \o rs) = Elems(<<a>>) \cup Elems(rs)
        BY ZenonT(60), <2>1, ElemsConcat
    <2> QED
        BY <1>4, <2>2, <2>3
<1> DEFINE ar == <<a>> \o rs
<1>6. ar \in Seq(TDelta) /\ Elems(ar) = {a} \cup Elems(rs)
    BY <1>5
<1> HIDE DEF ar
<1>7. Elems(ar \o <<b>>) = (Elems(ar)) \cup {b}
    <2> DEFINE bs == <<b>>
    <2>0. bs \in Seq(TDelta)
        BY <1>4
    <2> HIDE DEF bs
    <2>1. Elems(ar \o bs) = Elems(ar) \cup Elems(bs)
        BY <1>6, <2>0, ElemsConcat
    <2> QED
        BY <1>4, <2>1 DEF bs
<1> QED
    BY <1>2, <1>3, <1>6, <1>7 DEF ar, a, b, rs

(* Nor do the tool runner and the reads of its results.                    *)
LEMMA ToolPassesStay ==
    ASSUME TypeInv, ToolStep \/ TickStaleTool \/ TickToolPart \/ TickToolEnd \/ TickToolError
    PROVE  ToolPasses' \subseteq ToolPasses
<1> DEFINE td == tool.todo
<1>0. /\ toolOut \in Seq(TDelta) /\ td \in Seq(TDelta) /\ toolInbox \in Seq(ToolBatch)
      /\ tool \in [pc : {"idle", "taken", "run", "emit"}, pass : Nat,
                   calls : Seq(CallId), todo : Seq(TDelta), cancelled : BOOLEAN]
      /\ Elems(<<>>) = {}
    BY ElemsSmall DEF TypeInv, ToolTypes
<1>1. CASE ToolTake
    <2>1. /\ toolInbox # <<>> /\ toolInbox' = Tail(toolInbox) /\ toolOut' = toolOut
          /\ tool'.todo = <<>> /\ tool'.pass = Head(toolInbox).pass
        BY <1>1 DEF ToolTake, NoTool
    <2>2. /\ Head(toolInbox) \in Elems(toolInbox)
          /\ Elems(Tail(toolInbox)) \subseteq Elems(toolInbox)
        BY <1>0, <2>1, ElemsTail
    <2> QED
        BY <1>0, <2>1, <2>2 DEF ToolPasses
<1>2. CASE ToolStart
    <2>1. /\ UNCHANGED <<toolInbox, toolOut>> /\ tool.pc # "idle"
          /\ tool' = NoTool \/ \E cs : tool' = [tool EXCEPT !.pc = "run", !.calls = cs]
        BY <1>2 DEF ToolStart
    <2>2. /\ tool'.todo = <<>> \/ tool'.todo = td
          /\ tool'.pc = "idle" \/ tool'.pass = tool.pass
        <3>1. CASE tool' = NoTool
            BY <3>1 DEF NoTool
        <3>2. CASE \E cs : tool' = [tool EXCEPT !.pc = "run", !.calls = cs]
            BY <1>0, <3>2
        <3> QED
            BY <2>1, <3>1, <3>2
    <2> QED
        BY <1>0, <2>1, <2>2 DEF ToolPasses
<1>3. CASE ToolReturn
    <2> DEFINE rs == Map(LAMBDA c : ToolDelta("result", c), tool.calls)
               all == <<ToolDelta("start", 0)>> \o rs \o <<ToolDelta("end", 0)>>
    <2>1. /\ UNCHANGED <<toolInbox, toolOut>> /\ tool.pc # "idle"
          /\ tool' = [tool EXCEPT !.pc = "emit", !.todo = all]
        BY <1>3 DEF ToolReturn
    <2>2. tool'.todo = all /\ tool'.pass = tool.pass
        BY <1>0, <2>1
    <2>3. \A d \in Elems(all) : d.pass = tool.pass
        BY ReturnPass DEF TypeInv
    <2> HIDE DEF all
    <2> QED
        BY <2>1, <2>2, <2>3 DEF ToolPasses
<1>4. CASE ToolFail
    <2> DEFINE e == ToolDelta("err", 0)
    <2>1. /\ UNCHANGED <<toolInbox, toolOut>> /\ tool.pc # "idle"
          /\ tool' = [tool EXCEPT !.pc = "emit", !.todo = <<e>>]
        BY <1>4 DEF ToolFail
    <2>2. tool'.todo = <<e>> /\ tool'.pass = tool.pass /\ e.pass = tool.pass
        BY <1>0, <2>1 DEF ToolDelta
    <2> HIDE DEF e
    <2>3. Elems(<<e>>) = {e}
        BY ElemsSmall
    <2> QED
        BY <2>1, <2>2, <2>3 DEF ToolPasses
<1>5. CASE ToolEmit
    <2>1. /\ toolOut' = Append(toolOut, Head(td)) /\ toolInbox' = toolInbox
          /\ tool' = NoTool \/ tool' = [tool EXCEPT !.todo = Tail(td)]
          /\ td # <<>> /\ tool.pc # "idle"
        BY <1>5 DEF ToolEmit, TypeInv, ToolTypes
    <2>2. /\ Elems(td) = {Head(td)} \cup Elems(Tail(td)) /\ Head(td) \in TDelta
          /\ Elems(toolOut') = Elems(toolOut) \cup {Head(td)}
        BY <1>0, <2>1, ElemsTail, TailType, ElemsAppend
    <2>3. /\ tool'.todo = <<>> \/ tool'.todo = Tail(td)
          /\ tool'.pc = "idle" \/ tool'.pass = tool.pass
        <3>1. CASE tool' = NoTool
            BY <3>1 DEF NoTool
        <3>2. CASE tool' = [tool EXCEPT !.todo = Tail(td)]
            BY <1>0, <3>2
        <3> QED
            BY <2>1, <3>1, <3>2
    <2>4. Elems(tool'.todo) \subseteq Elems(td)
        BY <1>0, <2>2, <2>3
    <2> QED
        BY <2>1, <2>2, <2>3, <2>4 DEF ToolPasses
<1>6. CASE TickStaleTool \/ TickToolPart \/ TickToolEnd \/ TickToolError
    <2>1. /\ toolOut # <<>> /\ toolOut' = Tail(toolOut)
          /\ UNCHANGED <<tool, toolInbox>>
        BY <1>6 DEF TickStaleTool, TickToolPart, TickToolEnd, TickToolError, ReadTool
    <2>2. Elems(toolOut') \subseteq Elems(toolOut)
        BY <1>0, <2>1, ElemsTail
    <2> QED
        BY <2>1, <2>2 DEF ToolPasses
<1> QED
    BY <1>1, <1>2, <1>3, <1>4, <1>5, <1>6 DEF ToolStep

(* A tick that reads the model while a batch is awaited finds it stale.    *)
LEMMA FreshModel ==
    ASSUME ~Duplex, TypeInv, StreamInv, PhaseInv, modelOut # <<>>, ~Stale(Head(modelOut))
    PROVE  outstanding = 0 /\ Head(modelOut).pass = passID /\ passID > 0
<1> DEFINE d == Head(modelOut)
<1>1. d \in Elems(modelOut) /\ passID \in Nat
    BY StreamParts, ElemsTail
<1>2. d.pass \in 1..passID /\ d.pass \in ModelPasses
    BY <1>1 DEF StreamInv, PassInv, ModelPass, ModelPasses
<1>3. ~(d.pass > 0 /\ d.pass < passID)
    BY DEF Stale
<1> HIDE DEF d
<1>4. d.pass = passID /\ passID > 0
    BY <1>1, <1>2, <1>3
<1>5. passID \notin 1..(passID - 1)
    BY <1>1
<1> QED
    BY <1>2, <1>4, <1>5 DEF PhaseInv, d

(* A tick that reads the tools while no batch is awaited finds it stale.   *)
LEMMA FreshTool ==
    ASSUME ~Duplex, TypeInv, PhaseInv, toolOut # <<>>, ~Stale(Head(toolOut))
    PROVE  outstanding = 1 /\ Head(toolOut).pass = passID /\ window = <<>> /\ ~open
<1> DEFINE d == Head(toolOut)
<1>1. d \in Elems(toolOut) /\ passID \in Nat
    BY StreamParts, ElemsTail DEF TypeInv, ToolTypes
<1>2. d.pass \in ToolPasses
    BY <1>1 DEF ToolPasses
<1>3. ~(d.pass > 0 /\ d.pass < passID)
    BY DEF Stale
<1> HIDE DEF d
<1>4. \A p \in 1..(passID - 1) : p > 0 /\ p < passID
    BY <1>1
<1>5. \A p \in 1..passID : p > 0 /\ (p < passID \/ p = passID)
    BY <1>1
<1>6. outstanding = 1
    BY <1>2, <1>3, <1>4 DEF PhaseInv
<1> QED
    BY <1>2, <1>3, <1>5, <1>6 DEF PhaseInv, d

(* No batch is awaited once the pass has risen.                            *)
LEMMA PhaseOver ==
    ASSUME passID \in Nat, passID' = passID + 1, outstanding' = 0,
           window' # <<>> => open', PhaseInv, ToolPasses' \subseteq ToolPasses
    PROVE  PhaseInv'
<1>1. \A p \in ToolPasses' : p \in 1..passID
    BY DEF PhaseInv
<1>2. 1..passID = 1..(passID' - 1)
    OBVIOUS
<1> QED
    BY <1>1, <1>2 DEF PhaseInv

(* A batch goes to the tool runner.                                        *)
LEMMA PhaseCalls ==
    ASSUME ~Duplex, TypeInv, StreamInv, PhaseInv, TickModelCalls
    PROVE  PhaseInv'
<1> DEFINE b == [pass |-> passID', calls |-> CallsIn(window)]
<1>0. passID \in Nat /\ toolInbox \in Seq(ToolBatch) /\ modelOut \in Seq(MDelta)
    BY StreamParts DEF TypeInv, ToolTypes
<1>1. outstanding = 0
    BY FreshModel DEF TickModelCalls, ReadModel
<1>2. passID' = passID + 1 /\ outstanding' = 1 /\ open' = FALSE /\ window' = <<>>
    BY <1>1 DEF TickModelCalls, NextToolPass
<1>3. /\ modelOut # <<>> /\ modelOut' = Tail(modelOut) /\ toolInbox' = Append(toolInbox, b)
      /\ UNCHANGED <<model, modelInbox, tool, toolOut>>
    BY DEF TickModelCalls, ReadModel
<1>4. b \in ToolBatch /\ b.pass = passID'
    <2>1. CallsIn(window) \in Seq(CallId) /\ passID' \in Nat
        BY <1>0, <1>2, StreamParts, CallsInType
    <2> QED
        BY <2>1 DEF ToolBatch
<1> HIDE DEF b
<1>5. Elems(toolInbox') = Elems(toolInbox) \cup {b} /\ Elems(modelOut') \subseteq Elems(modelOut)
    BY <1>0, <1>3, <1>4, ElemsAppend, ElemsTail
<1>6. ToolPasses' \subseteq ToolPasses \cup {passID'}
    BY <1>3, <1>4, <1>5 DEF ToolPasses
<1>7. ModelPasses' \subseteq ModelPasses
    BY <1>3, <1>5 DEF ModelPasses
<1>8. ModelPasses' \subseteq 1..(passID' - 1)
    <2>1. 1..(passID' - 1) = 1..passID
        BY <1>0, <1>2
    <2> QED
        BY <1>7, <2>1, ModelPassesBounded
<1>9. ToolPasses' \subseteq 1..passID'
    <2>1. \A p \in 1..(passID - 1) : p \in 1..passID'
        BY <1>0, <1>2
    <2>2. passID' \in 1..passID'
        BY <1>0, <1>2
    <2> QED
        BY <1>1, <1>6, <2>1, <2>2 DEF PhaseInv
<1> QED
    BY <1>2, <1>8, <1>9 DEF PhaseInv

LEMMA NextPhase ==
    ASSUME ~Duplex
    PROVE  TypeInv /\ StreamInv /\ PhaseInv /\ [Next]_vars => PhaseInv'
<1> SUFFICES ASSUME TypeInv, StreamInv, PhaseInv, [Next]_vars PROVE PhaseInv'
    OBVIOUS
<1>0. passID \in Nat /\ modelOut \in Seq(MDelta) /\ Elems(<<>>) = {}
    BY StreamParts, ElemsSmall
<1>1. CASE Caller \/ Stop \/ UNCHANGED vars \/ TickClose \/ TickUserHeld
    <2>1. UNCHANGED phaseVars /\ UNCHANGED <<modelInbox, modelOut, model, toolInbox, toolOut, tool>>
        BY <1>1 DEF Caller, Send, SendInterrupt, SendClose, Stop, vars, TickClose, ReadUser,
           TickUserHeld, phaseVars, convVars, modelVars, toolVars
    <2>2. ModelPasses' = ModelPasses /\ ToolPasses' = ToolPasses
        BY <2>1 DEF ModelPasses, ToolPasses
    <2> QED
        BY <2>1, <2>2, PhaseStays
<1>2. CASE ModelStep \/ TickStaleModel
    <2>1. UNCHANGED phaseVars /\ UNCHANGED <<toolInbox, toolOut, tool>>
        BY <1>2 DEF ModelStep, ModelTake, ModelArm, ModelEmit, SessionTake, SessionRespond,
           TickStaleModel, phaseVars, convVars, toolVars
    <2>2. ToolPasses' = ToolPasses
        BY <2>1 DEF ToolPasses
    <2> QED
        BY <1>2, <2>1, <2>2, ModelPassesStay, PhaseStays
<1>3. CASE ToolStep \/ TickStaleTool \/ TickToolPart \/ TickToolError
    <2>1. UNCHANGED phaseVars /\ UNCHANGED <<modelInbox, modelOut, model>>
        BY <1>3 DEF ToolStep, ToolTake, ToolStart, ToolReturn, ToolFail, ToolEmit, TickStaleTool,
           TickToolPart, TickToolError, ReadTool, phaseVars, convVars, modelVars
    <2>2. ModelPasses' = ModelPasses
        BY <2>1 DEF ModelPasses
    <2> QED
        BY <1>3, <2>1, <2>2, ToolPassesStay, PhaseStays
<1>4. CASE TickModelPart \/ TickReasoningEnd \/ TickModelError \/ TickModelFinal
    <2>1. outstanding = 0 /\ passID > 0
        BY <1>4, FreshModel DEF TickModelPart, TickReasoningEnd, TickModelError, TickModelFinal,
           ReadModel
    <2>2. UNCHANGED <<toolInbox, toolOut, tool, outstanding>>
        BY <1>4 DEF TickModelPart, TickReasoningEnd, TickModelError, TickModelFinal, ReadModel
    <2>3. ToolPasses' = ToolPasses
        BY <2>2 DEF ToolPasses
    <2>4. window' # <<>> => open'
        BY <1>4 DEF TickModelPart, TickReasoningEnd, TickModelError, TickModelFinal
    <2>5. passID' = passID \/ passID' = passID + 1
        BY <1>4 DEF TickModelPart, TickReasoningEnd, TickModelError, TickModelFinal,
           DispatchInference
    <2>6. CASE passID' = passID + 1
        BY <1>0, <2>1, <2>2, <2>3, <2>4, <2>6, PhaseOver
    <2>7. CASE passID' = passID
        BY <2>1, <2>2, <2>3, <2>4, <2>7 DEF PhaseInv
    <2> QED
        BY <2>5, <2>6, <2>7
<1>5. CASE TickModelCalls
    BY <1>5, PhaseCalls
<1>6. CASE TickToolEnd
    <2>1. outstanding = 1
        BY <1>6, FreshTool DEF TickToolEnd, ReadTool
    <2>2. outstanding' = 0 /\ passID' = passID + 1 /\ window' = <<>>
        BY <1>6, <2>1 DEF TickToolEnd, NextToolPass
    <2>3. ToolPasses' \subseteq ToolPasses
        BY <1>6, ToolPassesStay
    <2> QED
        BY <1>0, <2>2, <2>3, PhaseOver
<1>7. CASE TickUser
    <2>1. /\ ~(open \/ outstanding > 0) /\ UNCHANGED <<toolInbox, toolOut, tool, outstanding>>
          /\ window' = <<>> /\ passID' = passID + 1
        BY <1>7 DEF TickUser, Holding, ReadUser, DispatchInference
    <2>2. outstanding = 0
        BY <2>1 DEF PhaseInv
    <2>3. ToolPasses' = ToolPasses
        BY <2>1 DEF ToolPasses
    <2> QED
        BY <1>0, <2>1, <2>2, <2>3, PhaseOver
<1>8. CASE TickInterrupt
    <2>1. /\ outstanding' = 0 /\ window' = <<>> /\ passID' = passID + 1 /\ CancelTool
          /\ UNCHANGED <<toolInbox, toolOut>>
        BY <1>8 DEF TickInterrupt, ReadUser
    <2>2. tool'.pass = tool.pass /\ tool'.pc = tool.pc /\ tool'.todo = tool.todo
        BY <2>1 DEF CancelTool, TypeInv, ToolTypes
    <2>3. ToolPasses' = ToolPasses
        BY <2>1, <2>2 DEF ToolPasses
    <2> QED
        BY <1>0, <2>1, <2>3, PhaseOver
<1> QED
    BY <1>1, <1>2, <1>3, <1>4, <1>5, <1>6, <1>7, <1>8 DEF Next, Tick

LEMMA InitPhase == Init => PhaseInv
<1>1. Elems(<<>>) = {}
    BY ElemsSmall
<1> QED
    BY <1>1 DEF Init, PhaseInv, ToolPasses, NoTool

LEMMA Phases ==
    ASSUME ~Duplex
    PROVE  Spec => []PhaseInv
<1>1. TypeInv /\ StreamInv /\ PhaseInv /\ [Next]_vars => PhaseInv'
    BY NextPhase
<1> QED
    BY <1>1, InitPhase, Typed, Streams, PTL DEF Spec

(* The calls of the messages of h.                                         *)
CallsOf(h) == UNION {Elems(m.calls) : m \in Elems(h)}

LEMMA CallsOfConcat ==
    ASSUME NEW h \in Seq(Message), NEW k \in Seq(Message)
    PROVE  h \o k \in Seq(Message) /\ CallsOf(h \o k) = CallsOf(h) \cup CallsOf(k)
<1>1. Elems(h \o k) = Elems(h) \cup Elems(k)
    BY ElemsConcat
<1> QED
    BY <1>1, ConcatType DEF CallsOf

LEMMA CallsOfAppend ==
    ASSUME NEW h \in Seq(Message), NEW m \in Message
    PROVE  Append(h, m) \in Seq(Message) /\ CallsOf(Append(h, m)) = CallsOf(h) \cup Elems(m.calls)
<1>1. Elems(Append(h, m)) = Elems(h) \cup {m}
    BY ElemsAppend
<1> QED
    BY <1>1, AppendType DEF CallsOf

(* The end of the reasoning cuts off no call.                              *)
LEMMA NoCallCutOff ==
    ASSUME ~Duplex, ReasoningFirst, TypeInv, StreamInv, PhaseInv, TickReasoningEnd
    PROVE  CallsIn(window) = <<>>
<1> DEFINE d == Head(modelOut)
           r == Tail(modelOut) \o model.todo
           dr == <<d>> \o r
           u == window \o dr
           n == Len(window)
<1>0. modelOut # <<>> /\ ~Stale(d) /\ d.kind = "rend"
    BY DEF TickReasoningEnd, ReadModel
<1>1. /\ modelOut \o model.todo = dr /\ d \in MDelta /\ r \in Seq(MDelta)
      /\ <<d>> \in Seq(MDelta) /\ window \in Seq(MDelta) /\ n \in Nat
    BY <1>0, StreamHead, StreamParts
<1>2. d.pass = passID
    BY <1>0, FreshModel
<1>3. \A x \in Elems(window) : ~IsTerm(x) /\ x.pass = passID
    BY DEF StreamInv, PassInv
<1>4. InStep(u)
    BY <1>1 DEF StreamInv, Stream, Whole
<1> HIDE DEF d, r
<1>5. dr \in Seq(MDelta) /\ Len(dr) = 1 + Len(r) /\ dr[1] = d /\ Len(r) \in Nat
    <2>1. Len(<<d>>) = 1 /\ <<d>>[1] = d /\ 1 \in 1..1
        OBVIOUS
    <2> QED
        BY <1>1, <2>1, ConcatType
<1> HIDE DEF dr
<1>6. /\ Len(u) = n + Len(dr) /\ \A i \in 1..n : u[i] = window[i]
      /\ u[n + 1] = d
    <2>1. 1 \in 1..Len(dr)
        BY <1>5
    <2>2. window \in Seq(MDelta) /\ dr \in Seq(MDelta)
        BY <1>1, <1>5
    <2>3. /\ Len(u) = n + Len(dr) /\ (\A i \in 1..n : u[i] = window[i])
          /\ \A i \in 1..Len(dr) : u[n + i] = dr[i]
        BY <2>2, ConcatType
    <2> HIDE DEF u, n
    <2> QED
        BY <1>5, <2>1, <2>3
<1> HIDE DEF u, n
<1>7. \A i \in 1..n : ~IsCall(u[i])
    <2> SUFFICES ASSUME NEW i \in 1..n, IsCall(u[i]) PROVE FALSE
        OBVIOUS
    <2>1. i \in 1..Len(u) /\ n + 1 \in 1..Len(u) /\ i < n + 1
        BY <1>1, <1>5, <1>6
    <2>2. \A k \in 1..n : u[k] \in Elems(window)
        BY <1>1, <1>6, ElemsType DEF n
    <2>3. ~Cut(u, i, n + 1)
        <3>1. \A k \in (i + 1)..((n + 1) - 1) : k \in 1..n
            BY <1>1
        <3> QED
            BY <1>3, <2>2, <3>1 DEF Cut
    <2>4. u[i].pass = u[n + 1].pass
        BY <1>2, <1>3, <1>6, <2>2
    <2>5. Follows(u[i], u[n + 1])
        BY <1>4, <2>1, <2>3, <2>4 DEF InStep
    <2> QED
        BY <1>0, <1>6, <2>5 DEF Follows
<1>8. CallDeltas(window) = {}
    <2> SUFFICES ASSUME NEW x \in Elems(window), IsCall(x) PROVE FALSE
        BY DEF CallDeltas
    <2>1. PICK i \in 1..n : x = window[i]
        BY <1>1 DEF Elems, n
    <2> QED
        BY <1>6, <1>7, <2>1
<1>9. CallsIn(window) \in Seq(CallId) /\ Elems(CallsIn(window)) = {}
    BY <1>1, <1>8, CallsInType
<1> QED
    BY <1>9, ElemsEmpty

(* The window may lose its calls to history; both may gain others.         *)
LEMMA KeptStays ==
    ASSUME CallsKept, seen' = seen, engine' = "running" => engine = "running",
           CallsOf(hist) \subseteq CallsOf(hist'),
           engine' = "running" =>
               Elems(CallsIn(window)) \subseteq Elems(CallsIn(window')) \cup CallsOf(hist')
    PROVE  CallsKept'
<1>1. CallsKept <=> (engine = "running" => seen \subseteq Elems(CallsIn(window)) \cup CallsOf(hist))
    BY DEF CallsKept, CallsOf
<1>2. CallsKept' <=> (engine' = "running" => seen' \subseteq Elems(CallsIn(window')) \cup CallsOf(hist'))
    BY DEF CallsKept, CallsOf, CallsIn, Elems
<1> QED
    BY <1>1, <1>2

(* What a tick puts in history.                                            *)
LEMMA PlaceCalls ==
    ASSUME TypeInv, NEW h \in Seq(Message), NEW k, PlaceHeld(h, k) \/ KeepHeld(h, k)
    PROVE  CallsOf(h) \subseteq CallsOf(hist')
<1>1. hist' = h \/ hist' = h \o held
    BY DEF PlaceHeld, KeepHeld
<1>2. held \in Seq(Message)
    BY DEF TypeInv, ConvTypes
<1> QED
    BY <1>1, <1>2, CallsOfConcat

(* An interrupt saves the calls of the response it cuts off.               *)
LEMMA InterruptKeeps ==
    ASSUME TypeInv, TickInterrupt
    PROVE  CallsOf(hist) \cup Elems(CallsIn(window)) \subseteq CallsOf(hist')
<1> DEFINE id == Head(userOut).id
           saved == hist \o Partial
           results == CancelledResults(saved)
           follow == IF id = 0 THEN <<>> ELSE <<User(id)>>
<1>0. /\ hist \in Seq(Message) /\ held \in Seq(Message) /\ window \in Seq(MDelta)
      /\ Elems(<<>>) = {}
    BY StreamParts, ElemsSmall DEF TypeInv, ConvTypes
<1>1. hist' = saved \o results \o held \o follow /\ userOut # <<>>
    BY DEF TickInterrupt, ReadUser
<1>2. follow \in Seq(Message)
    <2>1. id \in 0..MaxTurns
        BY <1>1, HeadUser DEF UserItem
    <2>2. id # 0 => id \in 1..MaxTurns
        BY <2>1, Constants
    <2>3. id # 0 => <<User(id)>> \in Seq(Message)
        BY <2>2, UserIdsOne
    <2>4. <<>> \in Seq(Message)
        OBVIOUS
    <2> QED
        BY <2>3, <2>4
<1>3. Partial \in Seq(Message)
    BY <1>0, PartialType
<1>4. saved \in Seq(Message) /\ CallsOf(saved) = CallsOf(hist) \cup CallsOf(Partial)
    BY <1>0, <1>3, CallsOfConcat
<1>5. Elems(CallsIn(window)) \subseteq CallsOf(Partial)
    <2> SUFFICES ASSUME NEW c \in Elems(CallsIn(window)) PROVE c \in CallsOf(Partial)
        OBVIOUS
    <2>1. PICK d \in Elems(window) : d.kind = "call"
        BY <1>0, CallsInType DEF CallDeltas, IsCall
    <2>2. PICK i \in DOMAIN window : window[i].kind = "call"
        BY <2>1 DEF Elems
    <2>3. Partial = <<Assistant(CallsIn(window))>>
        BY <2>2 DEF Partial
    <2>4. Elems(Partial) = {Assistant(CallsIn(window))}
        BY <2>3, ElemsSmall
    <2> QED
        BY <2>4 DEF CallsOf, Assistant
<1> HIDE DEF saved
<1>6. results \in Seq(Message)
    BY <1>4, CancelledType
<1> HIDE DEF results, follow
<1> DEFINE x == saved \o results
<1>7. x \in Seq(Message) /\ CallsOf(saved) \subseteq CallsOf(x)
    BY <1>4, <1>6, CallsOfConcat
<1>8. hist' = x \o held \o follow
    BY <1>1
<1> HIDE DEF x
<1> DEFINE y == x \o held
<1>9. y \in Seq(Message) /\ CallsOf(x) \subseteq CallsOf(y)
    BY <1>0, <1>7, CallsOfConcat
<1>10. hist' = y \o follow
    BY <1>8
<1> HIDE DEF y
<1>11. CallsOf(y) \subseteq CallsOf(hist')
    BY <1>2, <1>9, <1>10, CallsOfConcat
<1> QED
    BY <1>4, <1>5, <1>7, <1>9, <1>11

LEMMA NextKept ==
    ASSUME ~Duplex, ReasoningFirst
    PROVE  TypeInv /\ StreamInv /\ PhaseInv /\ CallsKept /\ [Next]_vars => CallsKept'
<1> SUFFICES ASSUME TypeInv, StreamInv, PhaseInv, CallsKept, [Next]_vars PROVE CallsKept'
    OBVIOUS
<1>0. /\ hist \in Seq(Message) /\ held \in Seq(Message) /\ window \in Seq(MDelta)
      /\ Elems(<<>>) = {} /\ Elems(CallsIn(<<>>)) = {}
    BY StreamParts, ElemsSmall, CallsInEmpty DEF TypeInv, ConvTypes
<1>1. ASSUME UNCHANGED <<hist, window, seen, engine>> PROVE CallsKept'
    BY <1>1, KeptStays
<1>2. CASE Caller \/ ModelStep \/ ToolStep \/ UNCHANGED vars
    BY <1>1, <1>2 DEF Caller, Send, SendInterrupt, SendClose, ModelStep, ModelTake, ModelArm,
       ModelEmit, SessionTake, SessionRespond, ToolStep, ToolTake, ToolStart, ToolReturn, ToolFail,
       ToolEmit, vars, convVars, traceVars
<1>3. CASE TickStaleModel \/ TickStaleTool \/ TickToolPart \/ TickUserHeld
    BY <1>1, <1>3 DEF TickStaleModel, TickStaleTool, TickToolPart, TickUserHeld, ReadTool, ReadUser,
       convVars, traceVars
<1>4. CASE TickModelError \/ Stop
    <2>1. engine' # "running"
        BY <1>4 DEF TickModelError, Stop
    <2> QED
        BY <2>1 DEF CallsKept
<1>5. CASE TickModelPart
    <2> DEFINE d == Head(modelOut)
    <2>1. /\ modelOut # <<>> /\ window' = Append(window, d) /\ hist' = hist /\ engine' = engine
          /\ seen' = seen \cup Elems(CallsIn(<<d>>))
        BY <1>5 DEF TickModelPart, ReadModel
    <2>2. d \in MDelta
        BY <2>1, HeadModel
    <2> HIDE DEF d
    <2>3. CallsIn(window) \in Seq(CallId)
        BY <1>0, CallsInType
    <2>4. Elems(CallsIn(window')) = Elems(CallsIn(window)) \cup Elems(CallsIn(<<d>>))
        <3>1. <<d>> \in Seq(MDelta) /\ <<>> \in Seq(MDelta) /\ Append(<<>>, d) = <<d>>
            BY <2>2
        <3>2. CASE d.kind = "call"
            <4>1. d.call \in CallId
                BY <2>2, <3>2 DEF MDelta
            <4>2. CallsIn(window') = Append(CallsIn(window), d.call)
                BY <1>0, <2>1, <2>2, <3>2, CallsInAppend
            <4>3. CallsIn(<<d>>) = Append(CallsIn(<<>>), d.call)
                BY <2>2, <3>1, <3>2, CallsInAppend
            <4>4. CallsIn(<<d>>) = <<d.call>>
                BY <4>3, CallsInEmpty
            <4> QED
                BY <2>3, <4>1, <4>2, <4>4, ElemsAppend, ElemsSmall
        <3>3. CASE d.kind # "call"
            <4>1. CallsIn(window') = CallsIn(window)
                BY <1>0, <2>1, <2>2, <3>3, CallsInAppend
            <4>2. CallsIn(<<d>>) = CallsIn(<<>>)
                BY <2>2, <3>1, <3>3, CallsInAppend
            <4> QED
                BY <1>0, <4>1, <4>2
        <3> QED
            BY <3>2, <3>3
    <2>5. CallsKept' <=> (engine' = "running"
                            => seen' \subseteq Elems(CallsIn(window')) \cup CallsOf(hist'))
        BY DEF CallsKept, CallsOf, CallsIn, Elems
    <2> QED
        BY <2>1, <2>4, <2>5 DEF CallsKept, CallsOf
<1>6. CASE TickReasoningEnd \/ TickModelFinal
    <2> DEFINE h == Append(hist, Assistant(<<>>))
    <2>1. CallsIn(window) = <<>>
        BY <1>6, NoCallCutOff DEF TickModelFinal
    <2>2. seen' = seen /\ engine' = engine /\ \E k : KeepHeld(h, k) \/ PlaceHeld(h, k)
        BY <1>6 DEF TickReasoningEnd, TickModelFinal, ReadModel
    <2>3. h \in Seq(Message) /\ CallsOf(hist) \subseteq CallsOf(h)
        BY <1>0, MessageTypes, CallsOfAppend
    <2> HIDE DEF h
    <2>4. CallsOf(h) \subseteq CallsOf(hist')
        BY <2>2, <2>3, PlaceCalls
    <2> QED
        BY <1>0, <2>1, <2>2, <2>3, <2>4, KeptStays
<1>7. CASE TickModelCalls
    <2> DEFINE cs == CallsIn(window)
               h == Append(hist, Assistant(cs))
    <2>1. seen' = seen /\ engine' = engine /\ \E k : KeepHeld(h, k)
        BY <1>7 DEF TickModelCalls, ReadModel
    <2>2. cs \in Seq(CallId)
        BY <1>0, CallsInType
    <2>3. /\ h \in Seq(Message) /\ CallsOf(hist) \subseteq CallsOf(h) /\ Elems(cs) \subseteq CallsOf(h)
        <3>1. Assistant(cs) \in Message /\ Assistant(cs).calls = cs
            BY <2>2, MessageTypes DEF Assistant
        <3> HIDE DEF cs
        <3> QED
            BY <1>0, <3>1, CallsOfAppend
    <2> HIDE DEF h
    <2>4. CallsOf(h) \subseteq CallsOf(hist')
        BY <2>1, <2>3, PlaceCalls
    <2> QED
        BY <2>1, <2>3, <2>4, KeptStays
<1>8. CASE TickToolEnd
    <2> DEFINE rs == Map(LAMBDA d : Result(d.call), toolWin)
               h == hist \o rs
    <2>1. window = <<>>
        BY <1>8, FreshTool DEF TickToolEnd, ReadTool
    <2>2. seen' = seen /\ engine' = engine /\ \E k : KeepHeld(h, k) \/ PlaceHeld(h, k)
        BY <1>8 DEF TickToolEnd, ReadTool
    <2>3. rs \in Seq(Message)
        BY BatchMessages DEF TypeInv
    <2> HIDE DEF rs
    <2>4. h \in Seq(Message) /\ CallsOf(hist) \subseteq CallsOf(h)
        BY <1>0, <2>3, CallsOfConcat
    <2> HIDE DEF h
    <2>5. CallsOf(h) \subseteq CallsOf(hist')
        BY <2>2, <2>4, PlaceCalls
    <2> QED
        BY <1>0, <2>1, <2>2, <2>4, <2>5, KeptStays
<1>9. CASE TickToolError \/ TickClose
    <2>1. /\ seen' = seen /\ engine' = engine /\ window' = window
          /\ \E k : PlaceHeld(hist, k) \/ KeepHeld(hist, k)
        BY <1>9 DEF TickToolError, TickClose, ReadTool, ReadUser
    <2>2. CallsOf(hist) \subseteq CallsOf(hist')
        BY <1>0, <2>1, PlaceCalls
    <2> QED
        BY <2>1, <2>2, KeptStays
<1>10. CASE TickUser
    <2> DEFINE m == User(Head(userOut).id)
               h == Append(hist, m)
    <2>1. window = <<>>
        BY <1>10 DEF TickUser, Holding, PhaseInv
    <2>2. userOut # <<>> /\ Head(userOut).kind = "turn"
          /\ seen' = seen /\ engine' = engine /\ \E k : KeepHeld(h, k)
        BY <1>10 DEF TickUser, ReadUser
    <2>3. m \in Message
        <3>1. Head(userOut).id \in 1..MaxTurns
            BY <2>2, HeadUser, Constants DEF UserItem
        <3> QED
            BY <3>1, MessageTypes
    <2> HIDE DEF m
    <2>4. h \in Seq(Message) /\ CallsOf(hist) \subseteq CallsOf(h)
        BY <1>0, <2>3, CallsOfAppend
    <2> HIDE DEF h
    <2>5. CallsOf(h) \subseteq CallsOf(hist')
        BY <2>2, <2>4, PlaceCalls
    <2> QED
        BY <1>0, <2>1, <2>2, <2>4, <2>5, KeptStays
<1>11. CASE TickInterrupt
    <2>1. seen' = seen /\ engine' = engine
        BY <1>11 DEF TickInterrupt, ReadUser
    <2>2. CallsOf(hist) \cup Elems(CallsIn(window)) \subseteq CallsOf(hist')
        BY <1>11, InterruptKeeps
    <2> QED
        BY <2>1, <2>2, KeptStays
<1> QED
    BY <1>2, <1>3, <1>4, <1>5, <1>6, <1>7, <1>8, <1>9, <1>10, <1>11 DEF Next, Tick

(* No tool call that the engine accepted is lost while the loop runs: the  *)
(* window it is in reaches history whole, because nothing else empties the *)
(* window while a response is open, and an interrupt saves what it cuts    *)
(* off.  A provider that went back to reasoning after a call would lose    *)
(* that call: REASONING.END resets the window.                             *)
THEOREM Kept ==
    ASSUME ~Duplex, ReasoningFirst
    PROVE  Spec => []CallsKept
<1>1. Init => CallsKept
    BY DEF Init, CallsKept
<1>2. TypeInv /\ StreamInv /\ PhaseInv /\ CallsKept /\ [Next]_vars => CallsKept'
    BY NextKept
<1>3. Spec => []PhaseInv
    BY Phases
<1> QED
    BY <1>1, <1>2, <1>3, Typed, Streams, PTL DEF Spec

-----------------------------------------------------------------------------
(* What joins history                                                      *)

(* Messages that neither call a tool nor answer a call.                    *)
Plain(k) == \A m \in Elems(k) : m.calls = <<>> /\ ~IsResult(m)

HeldPlain == Plain(held)

LEMMA PlainSmall ==
    /\ Plain(<<>>) /\ <<>> \in Seq(Message)
    /\ Plain(<<Assistant(<<>>)>>) /\ <<Assistant(<<>>)>> \in Seq(Message)
    /\ \A t \in 1..MaxTurns : Plain(<<User(t)>>) /\ <<User(t)>> \in Seq(Message)
<1>1. Elems(<<>>) = {} /\ \A m : Elems(<<m>>) = {m}
    BY ElemsSmall
<1>2. Assistant(<<>>) \in Message /\ \A t \in 1..MaxTurns : User(t) \in Message
    BY MessageTypes
<1>3. <<>> \in Seq(Message)
    OBVIOUS
<1>4. \A m \in Message : <<m>> \in Seq(Message)
    OBVIOUS
<1>5. Plain(<<>>)
    BY <1>1 DEF Plain
<1>6. \A m : m.calls = <<>> /\ ~IsResult(m) => Plain(<<m>>)
    BY <1>1 DEF Plain
<1>7. /\ Assistant(<<>>).calls = <<>> /\ ~IsResult(Assistant(<<>>))
      /\ \A t : User(t).calls = <<>> /\ ~IsResult(User(t))
    BY DEF Assistant, User, IsResult
<1> QED
    BY <1>2, <1>3, <1>4, <1>5, <1>6, <1>7

LEMMA PlainConcat ==
    ASSUME NEW h \in Seq(Message), NEW k \in Seq(Message), Plain(h), Plain(k)
    PROVE  h \o k \in Seq(Message) /\ Plain(h \o k)
<1>1. Elems(h \o k) = Elems(h) \cup Elems(k)
    BY ElemsConcat
<1> QED
    BY <1>1, ConcatType DEF Plain

(* The message that a user turn becomes.                                   *)
LEMMA TurnMessage ==
    ASSUME TypeInv, userOut # <<>>, Head(userOut).id # 0
    PROVE  /\ User(Head(userOut).id) \in Message
           /\ <<User(Head(userOut).id)>> \in Seq(Message) /\ Plain(<<User(Head(userOut).id)>>)
<1>1. Head(userOut).id \in 0..MaxTurns
    BY HeadUser DEF UserItem
<1>2. Head(userOut).id \in 1..MaxTurns
    BY <1>1, Constants
<1> QED
    BY <1>2, PlainSmall, MessageTypes

LEMMA NextHeld ==
    TypeInv /\ HeldPlain /\ [Next]_vars => HeldPlain'
<1> SUFFICES ASSUME TypeInv, HeldPlain, [Next]_vars PROVE HeldPlain'
    OBVIOUS
<1>1. ASSUME held' = held \/ held' = <<>> PROVE HeldPlain'
    BY <1>1, PlainSmall DEF HeldPlain, Plain
<1>2. CASE TickUserHeld
    <2> DEFINE m == User(Head(userOut).id)
    <2>1. held' = Append(held, m) /\ userOut # <<>> /\ Head(userOut).kind = "turn"
        BY <1>2 DEF TickUserHeld, ReadUser
    <2>2. Head(userOut).id # 0
        <3>1. Head(userOut).id > 0 /\ Head(userOut).id \in 0..MaxTurns
            BY <2>1, HeadUser DEF UserItem
        <3> QED
            BY <3>1, Constants
    <2>3. m \in Message /\ Plain(<<m>>) /\ held \in Seq(Message)
        BY <2>1, <2>2, TurnMessage DEF TypeInv, ConvTypes
    <2> HIDE DEF m
    <2>4. Elems(held') = Elems(held) \cup {m} /\ Elems(<<m>>) = {m}
        BY <2>1, <2>3, ElemsAppend, ElemsSmall
    <2> QED
        BY <2>3, <2>4 DEF HeldPlain, Plain
<1>3. CASE ~TickUserHeld
    <2>1. CASE Caller \/ ModelStep \/ ToolStep \/ UNCHANGED vars
        BY <1>1, <2>1 DEF Caller, Send, SendInterrupt, SendClose, ModelStep, ModelTake, ModelArm,
           ModelEmit, SessionTake, SessionRespond, ToolStep, ToolTake, ToolStart, ToolReturn,
           ToolFail, ToolEmit, vars, convVars
    <2>2. CASE Stop \/ TickStaleModel \/ TickModelPart \/ TickReasoningEnd \/ TickModelCalls
                 \/ TickModelFinal \/ TickModelError
        BY <1>1, <2>2 DEF Stop, TickStaleModel, TickModelPart, TickReasoningEnd, TickModelCalls,
           TickModelFinal, TickModelError, convVars, KeepHeld, PlaceHeld, SettleHeld
    <2>3. CASE TickStaleTool \/ TickToolPart \/ TickToolEnd \/ TickToolError \/ TickUser
                 \/ TickInterrupt \/ TickClose
        BY <1>1, <2>3 DEF TickStaleTool, TickToolPart, TickToolEnd, TickToolError, TickUser,
           TickInterrupt, TickClose, convVars, KeepHeld, PlaceHeld
    <2> QED
        BY <1>3, <2>1, <2>2, <2>3 DEF Next, Tick
<1> QED
    BY <1>2, <1>3

LEMMA HeldsPlain == Spec => []HeldPlain
<1>1. Init => HeldPlain
    BY PlainSmall DEF Init, HeldPlain
<1> QED
    BY <1>1, NextHeld, Typed, PTL DEF Spec

(* The ticks that make history longer by more than plain messages.         *)
Talking == TickModelCalls \/ TickToolEnd \/ TickInterrupt

LEMMA PlainPlace ==
    ASSUME TypeInv, HeldPlain, NEW k \in Seq(Message), Plain(k), NEW q,
           KeepHeld(hist \o k, q) \/ PlaceHeld(hist \o k, q)
    PROVE  \E l \in Seq(Message) : Plain(l) /\ hist' = hist \o l
<1>1. hist \in Seq(Message) /\ held \in Seq(Message)
    BY DEF TypeInv, ConvTypes
<1>2. CASE hist' = hist \o k
    BY <1>2
<1>3. CASE hist' = (hist \o k) \o held
    <2>1. k \o held \in Seq(Message) /\ Plain(k \o held)
        BY <1>1, PlainConcat DEF HeldPlain
    <2>2. hist' = hist \o (k \o held)
        BY <1>1, <1>3, ConcatAssociative
    <2> QED
        BY <2>1, <2>2
<1> QED
    BY <1>2, <1>3 DEF KeepHeld, PlaceHeld

LEMMA PlainSteps ==
    ASSUME TypeInv, HeldPlain, [Next]_vars, ~Talking
    PROVE  \E l \in Seq(Message) : Plain(l) /\ hist' = hist \o l
<1>0. hist \in Seq(Message) /\ held \in Seq(Message)
    BY DEF TypeInv, ConvTypes
<1>1. ASSUME hist' = hist PROVE \E l \in Seq(Message) : Plain(l) /\ hist' = hist \o l
    <2>1. hist \o <<>> = hist
        BY <1>0, EmptySides
    <2> QED
        BY <1>1, <2>1, PlainSmall
<1>2. CASE Caller \/ ModelStep \/ ToolStep \/ UNCHANGED vars
    BY <1>1, <1>2 DEF Caller, Send, SendInterrupt, SendClose, ModelStep, ModelTake, ModelArm,
       ModelEmit, SessionTake, SessionRespond, ToolStep, ToolTake, ToolStart, ToolReturn,
       ToolFail, ToolEmit, vars, convVars
<1>3. CASE TickStaleModel \/ TickModelPart \/ TickStaleTool \/ TickToolPart \/ TickUserHeld
    BY <1>1, <1>3 DEF TickStaleModel, TickModelPart, TickStaleTool, TickToolPart, TickUserHeld,
       convVars
<1>4. CASE Stop \/ TickModelError
    BY <1>0, <1>4 DEF Stop, TickModelError, SettleHeld, HeldPlain
<1>5. CASE TickReasoningEnd \/ TickModelFinal
    <2> DEFINE k == <<Assistant(<<>>)>>
    <2>1. k \in Seq(Message) /\ Plain(k)
        BY PlainSmall
    <2>2. Append(hist, Assistant(<<>>)) = hist \o k
        BY <1>0, MessageTypes, AppendIsConcat
    <2>3. \E q : KeepHeld(hist \o k, q) \/ PlaceHeld(hist \o k, q)
        BY <1>5, <2>2 DEF TickReasoningEnd, TickModelFinal
    <2> HIDE DEF k
    <2> QED
        BY <2>1, <2>3, PlainPlace
<1>6. CASE TickToolError \/ TickClose
    <2> DEFINE k == <<>>
    <2>1. k \in Seq(Message) /\ Plain(k) /\ hist \o k = hist
        BY <1>0, PlainSmall, EmptySides
    <2>2. \E q : KeepHeld(hist, q) \/ PlaceHeld(hist, q)
        BY <1>6 DEF TickToolError, TickClose
    <2> HIDE DEF k
    <2> QED
        BY <2>1, <2>2, PlainPlace
<1>7. CASE TickUser
    <2> DEFINE m == User(Head(userOut).id)
               k == <<m>>
    <2>1. userOut # <<>> /\ Head(userOut).kind = "turn"
        BY <1>7 DEF TickUser, ReadUser
    <2>2. Head(userOut).id # 0
        <3>1. Head(userOut).id > 0 /\ Head(userOut).id \in 0..MaxTurns
            BY <2>1, HeadUser DEF UserItem
        <3> QED
            BY <3>1, Constants
    <2>3. m \in Message /\ k \in Seq(Message) /\ Plain(k)
        BY <2>1, <2>2, TurnMessage
    <2>4. hist' = Append(hist, m)
        BY <1>7 DEF TickUser, KeepHeld
    <2> HIDE DEF m
    <2>5. hist' = hist \o k
        BY <1>0, <2>3, <2>4, AppendIsConcat
    <2> QED
        BY <2>3, <2>5
<1> QED
    BY <1>2, <1>3, <1>4, <1>5, <1>6, <1>7 DEF Next, Tick, Talking

(* What the interrupt puts in history.                                     *)
LEMMA InterruptHist ==
    ASSUME TypeInv, HeldPlain, TickInterrupt
    PROVE  LET saved == hist \o Partial
               results == CancelledResults(saved)
           IN  /\ saved \in Seq(Message) /\ results \in Seq(Message)
               /\ \E k \in Seq(Message) : Plain(k) /\ hist' = (saved \o results) \o k
<1> DEFINE id == Head(userOut).id
           saved == hist \o Partial
           results == CancelledResults(saved)
           follow == IF id = 0 THEN <<>> ELSE <<User(id)>>
           k == held \o follow
<1>0. hist \in Seq(Message) /\ held \in Seq(Message) /\ window \in Seq(MDelta)
    BY DEF TypeInv, ConvTypes
<1>1. hist' = saved \o results \o held \o follow /\ userOut # <<>>
    BY DEF TickInterrupt, ReadUser
<1>2. follow \in Seq(Message) /\ Plain(follow)
    BY <1>1, TurnMessage, PlainSmall
<1>3. Partial \in Seq(Message)
    BY <1>0, PartialType
<1>4. saved \in Seq(Message)
    BY <1>0, <1>3, ConcatType
<1> HIDE DEF saved
<1>5. results \in Seq(Message)
    BY <1>4, CancelledType
<1> HIDE DEF results, follow
<1>6. k \in Seq(Message) /\ Plain(k)
    BY <1>0, <1>2, PlainConcat DEF HeldPlain
<1> DEFINE x == saved \o results
<1>7. x \in Seq(Message)
    BY <1>4, <1>5, ConcatType
<1>8. hist' = (x \o held) \o follow
    BY <1>1
<1> HIDE DEF x
<1>9. hist' = x \o k
    BY SMTT(60), <1>0, <1>2, <1>7, <1>8, ConcatAssociative
<1> QED
    BY <1>4, <1>5, <1>6, <1>9 DEF x, saved, results

(* What the end of a batch puts in history.                                *)
LEMMA ToolEndHist ==
    ASSUME TypeInv, HeldPlain, TickToolEnd
    PROVE  LET rs == Map(LAMBDA d : Result(d.call), toolWin)
           IN  \E k \in Seq(Message) : Plain(k) /\ hist' = (hist \o rs) \o k
<1> DEFINE rs == Map(LAMBDA d : Result(d.call), toolWin)
           h == hist \o rs
<1>0. hist \in Seq(Message) /\ held \in Seq(Message)
    BY DEF TypeInv, ConvTypes
<1>1. \E q : KeepHeld(h, q) \/ PlaceHeld(h, q)
    BY DEF TickToolEnd
<1>2. rs \in Seq(Message)
    BY BatchMessages DEF TypeInv
<1> HIDE DEF rs
<1>3. h \in Seq(Message)
    BY <1>0, <1>2, ConcatType
<1> HIDE DEF h
<1>4. hist' = h \/ hist' = h \o held
    BY <1>1 DEF KeepHeld, PlaceHeld
<1>5. h \o <<>> = h
    BY <1>3, EmptySides
<1>6. \E k \in Seq(Message) : Plain(k) /\ hist' = h \o k
    BY <1>0, <1>4, <1>5, PlainSmall DEF HeldPlain
<1> QED
    BY <1>6 DEF h, rs

-----------------------------------------------------------------------------
(* Fresh calls                                                             *)

LEMMA CallsInConcat ==
    ASSUME NEW s \in Seq(MDelta), NEW t \in Seq(MDelta)
    PROVE  CallsIn(s \o t) = CallsIn(s) \o CallsIn(t)
<1> DEFINE G == {q \in Seq(MDelta) : CallsIn(s \o q) = CallsIn(s) \o CallsIn(q)}
<1>0. CallsIn(s) \in Seq(CallId)
    BY CallsInType
<1>1. <<>> \in G
    <2>1. <<>> \in Seq(MDelta) /\ s \o <<>> = s
        BY EmptySides
    <2>2. CallsIn(s) \o <<>> = CallsIn(s)
        BY <1>0, EmptySides
    <2> QED
        BY <2>1, <2>2, CallsInEmpty
<1>2. \A q \in G, d \in MDelta : Append(q, d) \in G
    <2> SUFFICES ASSUME NEW q \in Seq(MDelta), NEW d \in MDelta,
                        CallsIn(s \o q) = CallsIn(s) \o CallsIn(q)
                 PROVE  CallsIn(s \o Append(q, d)) = CallsIn(s) \o CallsIn(Append(q, d))
        BY AppendType
    <2>1. s \o q \in Seq(MDelta) /\ s \o Append(q, d) = Append(s \o q, d)
        BY ConcatType, AppendConcat
    <2> DEFINE sq == s \o q
    <2>2. sq \in Seq(MDelta) /\ s \o Append(q, d) = Append(sq, d)
          /\ CallsIn(sq) = CallsIn(s) \o CallsIn(q)
        BY <2>1
    <2> HIDE DEF sq
    <2>3. CallsIn(q) \in Seq(CallId)
        BY CallsInType
    <2>4. CASE d.kind = "call"
        <3>1. d.call \in CallId
            BY <2>4 DEF MDelta
        <3>2. CallsIn(Append(sq, d)) = Append(CallsIn(sq), d.call)
              /\ CallsIn(Append(q, d)) = Append(CallsIn(q), d.call)
            BY <2>2, <2>4, CallsInAppend
        <3>3. CallsIn(s) \o Append(CallsIn(q), d.call) = Append(CallsIn(s) \o CallsIn(q), d.call)
            BY <1>0, <2>3, <3>1, AppendConcat
        <3> QED
            BY <2>2, <3>2, <3>3
    <2>5. CASE d.kind # "call"
        <3>1. CallsIn(Append(sq, d)) = CallsIn(sq) /\ CallsIn(Append(q, d)) = CallsIn(q)
            BY <2>2, <2>5, CallsInAppend
        <3> QED
            BY <2>2, <3>1
    <2> QED
        BY <2>4, <2>5
<1>3. G \in SUBSET Seq(MDelta)
    OBVIOUS
<1> HIDE DEF G
<1>4. G = Seq(MDelta)
    BY <1>1, <1>2, <1>3, AppendInduction
<1> QED
    BY <1>4 DEF G

(* A provider that never repeats an ID numbers its calls upwards.          *)
LEMMA ResponseCalls ==
    ASSUME NEW pass \in Nat, NEW shape \in Shapes, NEW base \in Nat,
           base + NumCalls(shape) <= MaxCalls
    PROVE  LET cs == CallsIn(Response(pass, shape, base))
           IN  Distinct(cs) /\ Elems(cs) \subseteq (base + 1)..(base + NumCalls(shape))
<1> DEFINE R == Response(pass, shape, base)
<1>1. /\ R \in Seq(MDelta) /\ Len(R) = Len(shape)
      /\ shape \in Seq(PartKind) /\ Len(shape) \in Nat
      /\ \A i \in 1..Len(shape) : R[i] =
                 [pass |-> pass, kind |-> shape[i],
                  call |-> IF shape[i] = "call"
                           THEN base + NumCalls(SubSeq(shape, 1, i)) ELSE 0]
    BY ResponseType
<1> HIDE DEF R
<1>2. \A i \in 1..Len(R) : IsCall(R[i]) =>
         shape[i] = "call" /\ R[i].call = base + NumCalls(SubSeq(shape, 1, i))
    <2> SUFFICES ASSUME NEW i \in 1..Len(R), IsCall(R[i])
                 PROVE  shape[i] = "call" /\ R[i].call = base + NumCalls(SubSeq(shape, 1, i))
        OBVIOUS
    <2> DEFINE c == IF shape[i] = "call" THEN base + NumCalls(SubSeq(shape, 1, i)) ELSE 0
    <2>1. R[i] = [pass |-> pass, kind |-> shape[i], call |-> c]
        BY <1>1
    <2>2. shape[i] = "call" => c = base + NumCalls(SubSeq(shape, 1, i))
        OBVIOUS
    <2> HIDE DEF c
    <2> QED
        BY <2>1, <2>2 DEF IsCall
<1>3. /\ NumCalls(shape) \in Nat
      /\ \A i \in 1..Len(shape) :
            /\ NumCalls(SubSeq(shape, 1, i)) \in Nat
            /\ NumCalls(SubSeq(shape, 1, i)) <= NumCalls(shape)
            /\ shape[i] = "call" => NumCalls(SubSeq(shape, 1, i)) > 0
    BY <1>1, NumCallsType
<1>4. Rising(R)
    <2> SUFFICES ASSUME NEW i \in 1..Len(R), NEW j \in 1..Len(R),
                        i < j, IsCall(R[i]), IsCall(R[j])
                 PROVE  R[i].call < R[j].call
        BY DEF Rising
    <2>1. NumCalls(SubSeq(shape, 1, i)) < NumCalls(SubSeq(shape, 1, j))
        BY <1>1, <1>2, NumCallsRise
    <2>2. NumCalls(SubSeq(shape, 1, i)) \in Nat /\ NumCalls(SubSeq(shape, 1, j)) \in Nat
        BY <1>1, <1>3
    <2> QED
        BY <1>2, <2>1, <2>2
<1>5. \A d \in CallDeltas(R) : d.call \in (base + 1)..(base + NumCalls(shape))
    <2> SUFFICES ASSUME NEW i \in 1..Len(R), IsCall(R[i])
                 PROVE  R[i].call \in (base + 1)..(base + NumCalls(shape))
        BY <1>1 DEF CallDeltas, Elems
    <2> DEFINE n == NumCalls(SubSeq(shape, 1, i))
    <2>1. R[i].call = base + n /\ n \in Nat /\ n > 0 /\ n <= NumCalls(shape)
        BY <1>1, <1>2, <1>3
    <2> HIDE DEF n
    <2> QED
        BY <1>3, <2>1
<1> QED
    BY <1>1, <1>4, <1>5, RisingDistinct, CallsInType DEF R

(* The calls under way are new to history and to each other.               *)
FreshInv ==
    /\ Distinct(CallsIn(Stream))
    /\ Elems(CallsIn(Stream)) \cap CallsOf(hist) = {}
    /\ Elems(CallsIn(Stream)) \cup CallsOf(hist) \subseteq 1..nextCall

LEMMA FreshKeeps ==
    ASSUME FreshInv, Distinct(CallsIn(Stream')), nextCall' = nextCall,
           Elems(CallsIn(Stream')) \subseteq Elems(CallsIn(Stream)),
           NEW N, N \subseteq Elems(CallsIn(Stream)), N \cap Elems(CallsIn(Stream')) = {},
           CallsOf(hist') \subseteq CallsOf(hist) \cup N
    PROVE  FreshInv'
<1>1. FreshInv' <=> /\ Distinct(CallsIn(Stream'))
                    /\ Elems(CallsIn(Stream')) \cap CallsOf(hist') = {}
                    /\ Elems(CallsIn(Stream')) \cup CallsOf(hist') \subseteq 1..nextCall'
    BY DEF FreshInv, Distinct, Elems, CallsOf, CallsIn, Stream
<1> QED
    BY <1>1 DEF FreshInv

LEMMA FreshStays ==
    ASSUME FreshInv, Stream' = Stream, nextCall' = nextCall, CallsOf(hist') = CallsOf(hist)
    PROVE  FreshInv'
<1>1. Distinct(CallsIn(Stream')) /\ CallsIn(Stream') = CallsIn(Stream)
    BY DEF FreshInv
<1> DEFINE N == {}
<1>2. /\ N \subseteq Elems(CallsIn(Stream)) /\ N \cap Elems(CallsIn(Stream')) = {}
      /\ CallsOf(hist') \subseteq CallsOf(hist) \cup N
    OBVIOUS
<1> HIDE DEF N
<1> QED
    BY <1>1, <1>2, FreshKeeps

LEMMA PlainCalls ==
    ASSUME NEW h \in Seq(Message), NEW k \in Seq(Message), \A m \in Elems(k) : m.calls = <<>>
    PROVE  CallsOf(h \o k) = CallsOf(h)
<1>1. CallsOf(k) = {}
    BY ZenonT(60), ElemsSmall DEF CallsOf
<1>2. CallsOf(h \o k) = CallsOf(h) \cup CallsOf(k)
    BY CallsOfConcat
<1> HIDE DEF CallsOf
<1> QED
    BY <1>1, <1>2

(* The calls that reach history come from the window.                      *)
LEMMA PartialCalls ==
    ASSUME window \in Seq(MDelta)
    PROVE  /\ Partial \in Seq(Message)
           /\ CallsOf(Partial) = Elems(CallsIn(window))
           /\ \A m \in Elems(Partial) : m = Assistant(CallsIn(window))
<1>0. Partial \in Seq(Message)
    BY PartialType
<1>1. CASE \E i \in DOMAIN window : window[i].kind \in {"text", "think", "call"}
    <2>1. Partial = <<Assistant(CallsIn(window))>>
        BY <1>1 DEF Partial
    <2>2. Elems(Partial) = {Assistant(CallsIn(window))}
        BY <2>1, ElemsSmall
    <2> QED
        BY <1>0, <2>2 DEF CallsOf, Assistant
<1>2. CASE ~\E i \in DOMAIN window : window[i].kind \in {"text", "think", "call"}
    <2>1. Partial = <<>> /\ Elems(Partial) = {}
        BY <1>2, ElemsSmall DEF Partial
    <2>2. CallDeltas(window) = {}
        BY <1>2 DEF CallDeltas, Elems, IsCall
    <2>3. Elems(CallsIn(window)) = {}
        BY <2>2, CallsInType
    <2> QED
        BY <1>0, <2>1, <2>3 DEF CallsOf
<1> QED
    BY <1>1, <1>2

LEMMA BatchPlain ==
    ASSUME ConvTypes
    PROVE  LET rs == Map(LAMBDA d : Result(d.call), toolWin)
           IN  rs \in Seq(Message) /\ \A m \in Elems(rs) : m.calls = <<>>
<1> DEFINE rs == Map(LAMBDA d : Result(d.call), toolWin)
<1>1. /\ rs \in Seq(Message) /\ Len(rs) = Len(toolWin)
      /\ \A i \in 1..Len(toolWin) : rs[i] = Result(toolWin[i].call)
    BY BatchMessages
<1> HIDE DEF rs
<1>2. \A c : Result(c).calls = <<>>
    BY DEF Result
<1>3. DOMAIN rs = 1..Len(toolWin)
    BY <1>1
<1>4. \A m \in Elems(rs) : m.calls = <<>>
    BY <1>1, <1>2, <1>3 DEF Elems
<1> QED
    BY <1>1, <1>4 DEF rs

LEMMA HistCalls ==
    ASSUME TypeInv, HeldPlain, [Next]_vars
    PROVE  /\ CallsOf(hist) \subseteq CallsOf(hist')
           /\ CallsOf(hist') \subseteq CallsOf(hist) \cup Elems(CallsIn(window))
           /\ CallsOf(hist') = CallsOf(hist) \/ TickModelCalls \/ TickInterrupt
<1>0. /\ hist \in Seq(Message) /\ window \in Seq(MDelta)
    BY DEF TypeInv, ConvTypes
<1>1. CASE ~Talking
    <2>1. PICK k \in Seq(Message) : Plain(k) /\ hist' = hist \o k
        BY <1>1, PlainSteps
    <2>2. CallsOf(hist \o k) = CallsOf(hist)
        BY <1>0, <2>1, PlainCalls DEF Plain
    <2> QED
        BY <2>1, <2>2
<1>2. CASE TickModelCalls
    <2> DEFINE cs == CallsIn(window)
    <2>1. hist' = Append(hist, Assistant(cs))
        BY <1>2 DEF TickModelCalls, KeepHeld
    <2>2. cs \in Seq(CallId) /\ Assistant(cs) \in Message /\ Assistant(cs).calls = cs
        BY <1>0, CallsInType, MessageTypes DEF Assistant
    <2> HIDE DEF cs
    <2>3. CallsOf(hist') = CallsOf(hist) \cup Elems(cs)
        BY <1>0, <2>1, <2>2, CallsOfAppend
    <2> QED
        BY <1>2, <2>3 DEF cs
<1>3. CASE TickToolEnd
    <2> DEFINE rs == Map(LAMBDA d : Result(d.call), toolWin)
               h == hist \o rs
    <2>1. PICK k \in Seq(Message) : Plain(k) /\ hist' = h \o k
        BY <1>3, ToolEndHist
    <2>2. rs \in Seq(Message) /\ \A m \in Elems(rs) : m.calls = <<>>
        BY BatchPlain DEF TypeInv
    <2> HIDE DEF rs
    <2>3. h \in Seq(Message) /\ CallsOf(h) = CallsOf(hist)
        BY <1>0, <2>2, PlainCalls, ConcatType
    <2> HIDE DEF h
    <2>4. CallsOf(h \o k) = CallsOf(h)
        BY <2>1, <2>3, PlainCalls DEF Plain
    <2> QED
        BY <2>1, <2>3, <2>4
<1>4. CASE TickInterrupt
    <2> DEFINE saved == hist \o Partial
               results == CancelledResults(saved)
               x == saved \o results
    <2>1. /\ saved \in Seq(Message) /\ results \in Seq(Message)
          /\ \E k \in Seq(Message) : Plain(k) /\ hist' = x \o k
        BY <1>4, InterruptHist
    <2>2. PICK k \in Seq(Message) : Plain(k) /\ hist' = x \o k
        BY <2>1
    <2>3. CallsOf(saved) = CallsOf(hist) \cup Elems(CallsIn(window))
        BY <1>0, PartialCalls, CallsOfConcat
    <2> HIDE DEF saved
    <2>4. \A m \in Elems(results) : m.calls = <<>>
        BY <2>1, CancelledType
    <2> HIDE DEF results
    <2>5. x \in Seq(Message) /\ CallsOf(x) = CallsOf(saved)
        BY <2>1, <2>4, PlainCalls, ConcatType
    <2> HIDE DEF x
    <2>6. CallsOf(x \o k) = CallsOf(x)
        BY <2>2, <2>5, PlainCalls DEF Plain
    <2> QED
        BY <1>4, <2>2, <2>3, <2>5, <2>6
<1> QED
    BY <1>1, <1>2, <1>3, <1>4 DEF Talking

(* The steps that pass a delta on leave the stream as it is.               *)
LEMMA SameStream ==
    ASSUME TypeInv, ModelArm \/ ModelEmit \/ TickModelPart
    PROVE  Stream' = Stream
<1> DEFINE td == model.todo
<1>0. window \in Seq(MDelta) /\ modelOut \in Seq(MDelta) /\ td \in Seq(MDelta)
    BY StreamParts
<1>1. CASE ModelArm
    <2>1. model'.todo = td /\ window' = window /\ modelOut' = modelOut
        BY <1>1 DEF ModelArm, convVars, TypeInv, ModelTypes
    <2> QED
        BY <2>1 DEF Stream
<1>2. CASE ModelEmit
    <2>1. /\ modelOut' = Append(modelOut, Head(td)) /\ window' = window
          /\ model' = IF Len(td) = 1 THEN NoModel ELSE [model EXCEPT !.todo = Tail(td)]
          /\ td # <<>>
        BY <1>2 DEF ModelEmit, convVars, TypeInv, ModelTypes
    <2>2. /\ Append(modelOut, Head(td)) \o Tail(td) = modelOut \o td
          /\ Tail(td) \in Seq(MDelta) /\ Len(Tail(td)) = Len(td) - 1 /\ Len(td) \in Nat
        <3>1. td \in Seq(MDelta) /\ td # <<>> /\ Len(td) \in Nat
            BY <1>0, <2>1
        <3> HIDE DEF td
        <3>2. Append(modelOut, Head(td)) \o Tail(td) = modelOut \o td
            BY <1>0, <3>1, PassHead
        <3>3. Tail(td) \in Seq(MDelta) /\ Len(Tail(td)) = Len(td) - 1
            BY <3>1, TailType
        <3> QED
            BY <3>1, <3>2, <3>3
    <2>3. Len(td) = 1 => Tail(td) = <<>>
        <3> DEFINE r == Tail(td)
        <3>1. r \in Seq(MDelta) /\ (Len(td) = 1 => Len(r) = 0)
            BY <2>2
        <3> HIDE DEF r
        <3>2. Len(r) = 0 => r = <<>>
            BY <3>1
        <3> QED
            BY <3>1, <3>2 DEF r
    <2>4. model'.todo = Tail(td)
        <3>1. CASE Len(td) = 1
            BY <2>1, <2>3, <3>1 DEF NoModel
        <3>2. CASE Len(td) # 1
            BY <2>1, <3>2 DEF TypeInv, ModelTypes
        <3> QED
            BY <3>1, <3>2
    <2> QED
        BY <2>1, <2>2, <2>4 DEF Stream
<1>3. CASE TickModelPart
    <2> DEFINE d == Head(modelOut)
               q == Tail(modelOut)
               r == q \o td
    <2>1. modelOut # <<>> /\ modelOut' = q /\ window' = Append(window, d) /\ model' = model
        BY <1>3 DEF TickModelPart, ReadModel
    <2>2. modelOut \o td = <<d>> \o r /\ <<d>> \in Seq(MDelta) /\ r \in Seq(MDelta) /\ d \in MDelta
        BY <2>1, StreamHead
    <2>3. Stream' = Append(window, d) \o r
        BY <2>1 DEF Stream
    <2> HIDE DEF d, q, r
    <2>4. Append(window, d) = window \o <<d>>
        BY <1>0, <2>2, AppendIsConcat
    <2>5. (window \o <<d>>) \o r = window \o (<<d>> \o r)
        BY SMTT(60), <1>0, <2>2, ConcatAssociative
    <2> QED
        BY <2>2, <2>3, <2>4, <2>5 DEF Stream
<1> QED
    BY <1>1, <1>2, <1>3

LEMMA StreamCalls ==
    ASSUME TypeInv
    PROVE  /\ CallsIn(Stream) = CallsIn(window) \o (CallsIn(modelOut) \o CallsIn(model.todo))
           /\ CallsIn(modelOut \o model.todo) = CallsIn(modelOut) \o CallsIn(model.todo)
           /\ CallsIn(window) \in Seq(CallId) /\ CallsIn(modelOut) \in Seq(CallId)
           /\ CallsIn(model.todo) \in Seq(CallId) /\ Stream \in Seq(MDelta)
<1> DEFINE td == model.todo
           r == modelOut \o td
<1>0. window \in Seq(MDelta) /\ modelOut \in Seq(MDelta) /\ td \in Seq(MDelta) /\ r \in Seq(MDelta)
    BY StreamParts
<1>1. CallsIn(r) = CallsIn(modelOut) \o CallsIn(td)
    BY <1>0, CallsInConcat
<1> HIDE DEF r
<1>2. CallsIn(window \o r) = CallsIn(window) \o CallsIn(r) /\ window \o r \in Seq(MDelta)
    BY <1>0, CallsInConcat, ConcatType
<1>3. CallsIn(window) \in Seq(CallId) /\ CallsIn(modelOut) \in Seq(CallId)
      /\ CallsIn(td) \in Seq(CallId)
    BY <1>0, CallsInType
<1> QED
    BY <1>1, <1>2, <1>3 DEF Stream, r

LEMMA AnswerFresh ==
    ASSUME ~RepeatIDs, TypeInv, StreamInv, FreshInv, model.pc = "idle", NEW pass \in Nat,
           NEW pc \in {"taken", "stream"}, Answer(pass, pc), UNCHANGED <<window, modelOut>>,
           CallsOf(hist') = CallsOf(hist)
    PROVE  FreshInv'
<1>0. nextCall \in Nat /\ nextCall \in 0..MaxCalls
    BY Constants DEF TypeInv, ModelTypes
<1>1. PICK shape \in Shapes :
        /\ nextCall + NumCalls(shape) <= MaxCalls
        /\ nextCall' = IF nextCall + NumCalls(shape) > nextCall
                       THEN nextCall + NumCalls(shape) ELSE nextCall
        /\ model' = [pc |-> pc, pass |-> pass, todo |-> Response(pass, shape, nextCall)]
    BY DEF Answer
<1> DEFINE R == Response(pass, shape, nextCall)
           cs == CallsIn(R)
           K == CallsIn(Stream)
<1>2. R \in Seq(MDelta) /\ Distinct(cs)
      /\ Elems(cs) \subseteq (nextCall + 1)..(nextCall + NumCalls(shape))
    BY <1>0, <1>1, ResponseType, ResponseCalls
<1>3. NumCalls(shape) \in Nat
    <2>1. shape \in Seq(PartKind)
        BY <1>0, <1>1, ResponseType
    <2> QED
        BY <2>1, NumCallsType
<1>4. nextCall' = nextCall + NumCalls(shape) /\ nextCall' \in Nat
    BY <1>0, <1>1, <1>3
<1>5. model'.todo = R
    BY <1>1
<1> HIDE DEF R
<1>6. Stream' = Stream \o R
    <2>1. model.todo = <<>>
        BY DEF StreamInv, LastInv
    <2>2. /\ window \in Seq(MDelta) /\ modelOut \in Seq(MDelta)
          /\ modelOut \o <<>> = modelOut
        BY StreamParts, EmptySides
    <2>3. window \o (modelOut \o R) = (window \o modelOut) \o R
        BY SMTT(60), <1>2, <2>2, ConcatAssociative
    <2> QED
        BY <1>5, <2>1, <2>2, <2>3 DEF Stream
<1>7. K \in Seq(CallId) /\ cs \in Seq(CallId) /\ CallsIn(Stream') = K \o cs
    <2>1. Stream \in Seq(MDelta)
        BY StreamCalls
    <2> QED
        BY <1>2, <1>6, <2>1, CallsInType, CallsInConcat
<1>8. Distinct(K) /\ Elems(K) \cap CallsOf(hist) = {}
      /\ Elems(K) \cup CallsOf(hist) \subseteq 1..nextCall
    BY DEF FreshInv
<1> HIDE DEF K, cs
<1>9. \A c \in 1..nextCall : c \notin Elems(cs) /\ c \in 1..nextCall'
    BY <1>0, <1>2, <1>3, <1>4
<1>10. Elems(K) \cap Elems(cs) = {} /\ CallsOf(hist) \cap Elems(cs) = {}
    BY <1>8, <1>9
<1>11. Distinct(K \o cs) /\ Elems(K \o cs) = Elems(K) \cup Elems(cs)
    BY <1>2, <1>7, <1>8, <1>10, DistinctConcat, ElemsConcat
<1>12. Elems(cs) \subseteq 1..nextCall'
    BY <1>0, <1>2, <1>3, <1>4
<1>13. FreshInv' <=> /\ Distinct(CallsIn(Stream'))
                     /\ Elems(CallsIn(Stream')) \cap CallsOf(hist') = {}
                     /\ Elems(CallsIn(Stream')) \cup CallsOf(hist') \subseteq 1..nextCall'
    BY DEF FreshInv, Distinct, Elems, CallsOf, CallsIn, Stream
<1> QED
    BY <1>7, <1>8, <1>9, <1>10, <1>11, <1>12, <1>13

(* The window is emptied, into history or not.                             *)
LEMMA ResetFresh ==
    ASSUME TypeInv, FreshInv, nextCall' = nextCall, window' = <<>>, model' = model,
           \/ modelOut' = modelOut \/ modelOut' = <<>>
           \/ modelOut # <<>> /\ modelOut' = Tail(modelOut),
           CallsOf(hist') \subseteq CallsOf(hist) \cup Elems(CallsIn(window))
    PROVE  FreshInv'
<1> DEFINE W == CallsIn(window)
           M == CallsIn(modelOut)
           T == CallsIn(model.todo)
           M2 == CallsIn(modelOut')
<1>0. /\ modelOut \in Seq(MDelta) /\ model.todo \in Seq(MDelta)
      /\ W \in Seq(CallId) /\ M \in Seq(CallId) /\ T \in Seq(CallId)
      /\ CallsIn(Stream) = W \o (M \o T)
    BY StreamCalls, StreamParts
<1>1. modelOut' \in Seq(MDelta) /\ \E Z \in Seq(CallId) : M = Z \o M2
    <2>1. CASE modelOut' = modelOut
        <3>1. <<>> \in Seq(CallId) /\ <<>> \o M = M
            BY <1>0, EmptySides
        <3> QED
            BY <1>0, <2>1, <3>1
    <2>2. CASE modelOut' = <<>>
        <3>1. M2 = <<>> /\ M \o <<>> = M /\ <<>> \in Seq(MDelta)
            BY <1>0, <2>2, EmptySides, CallsInEmpty
        <3> QED
            BY <1>0, <2>2, <3>1
    <2>3. CASE modelOut # <<>> /\ modelOut' = Tail(modelOut)
        <3> DEFINE d == Head(modelOut)
                   q == Tail(modelOut)
        <3>1. modelOut = <<d>> \o q /\ <<d>> \in Seq(MDelta) /\ q \in Seq(MDelta)
            BY <1>0, <2>3, PassHead, StreamHead, TailType
        <3> HIDE DEF d, q
        <3>2. M = CallsIn(<<d>>) \o CallsIn(q) /\ CallsIn(<<d>>) \in Seq(CallId)
            BY <3>1, CallsInConcat, CallsInType
        <3> QED
            BY <2>3, <3>1, <3>2 DEF q
    <2> QED
        BY <2>1, <2>2, <2>3
<1>2. PICK Z \in Seq(CallId) : M = Z \o M2
    BY <1>1
<1>3. CallsIn(Stream') = M2 \o T
    <2>1. Stream' = <<>> \o (modelOut' \o model.todo)
        BY DEF Stream
    <2>2. /\ modelOut' \o model.todo \in Seq(MDelta)
          /\ CallsIn(modelOut' \o model.todo) = M2 \o T
        BY <1>0, <1>1, ConcatType, CallsInConcat
    <2> QED
        BY <2>1, <2>2, EmptySides
<1>4. M2 \in Seq(CallId)
    BY <1>1, CallsInType
<1> HIDE DEF W, M, T, M2
<1> DEFINE X == M2 \o T
<1>5. X \in Seq(CallId) /\ M \o T = Z \o X
    BY SMTT(60), <1>0, <1>2, <1>4, ConcatType, ConcatAssociative
<1> HIDE DEF X
<1>6. Distinct(W \o (Z \o X))
    BY <1>0, <1>5 DEF FreshInv
<1>7. Distinct(X) /\ Elems(W) \cap Elems(X) = {}
    BY <1>0, <1>2, <1>5, <1>6, DistinctThree
<1>8. Elems(X) \subseteq Elems(CallsIn(Stream)) /\ Elems(W) \subseteq Elems(CallsIn(Stream))
    <2>1. Z \o X \in Seq(CallId) /\ Elems(Z \o X) = Elems(Z) \cup Elems(X)
        BY <1>2, <1>5, ConcatType, ElemsConcat
    <2> DEFINE ZX == Z \o X
    <2>2. ZX \in Seq(CallId) /\ Elems(ZX) = Elems(Z) \cup Elems(X) /\ CallsIn(Stream) = W \o ZX
        BY <1>0, <1>5, <2>1
    <2> HIDE DEF ZX
    <2>3. Elems(W \o ZX) = Elems(W) \cup Elems(ZX)
        BY <1>0, <2>2, ElemsConcat
    <2> QED
        BY <2>2, <2>3
<1>9. CallsIn(Stream') = X
    BY <1>3 DEF X
<1>10. CallsOf(hist') \subseteq CallsOf(hist) \cup Elems(W)
    BY DEF W
<1> QED
    BY <1>7, <1>8, <1>9, <1>10, FreshKeeps

LEMMA StaleFresh ==
    ASSUME TypeInv, FreshInv, TickStaleModel
    PROVE  FreshInv'
<1> DEFINE d == Head(modelOut)
           r == Tail(modelOut) \o model.todo
           W == CallsIn(window)
           D == CallsIn(<<d>>)
           X == CallsIn(r)
<1>0. /\ modelOut # <<>> /\ modelOut' = Tail(modelOut)
      /\ UNCHANGED <<window, model, hist, nextCall>>
    BY DEF TickStaleModel, convVars
<1>1. /\ modelOut \o model.todo = <<d>> \o r /\ <<d>> \in Seq(MDelta) /\ r \in Seq(MDelta)
      /\ window \in Seq(MDelta)
    BY <1>0, StreamHead, StreamParts
<1>2. Stream' = window \o r
    BY <1>0 DEF Stream
<1> HIDE DEF d, r
<1>3. /\ CallsIn(Stream') = W \o X /\ W \in Seq(CallId) /\ X \in Seq(CallId) /\ D \in Seq(CallId)
    BY <1>1, <1>2, CallsInConcat, CallsInType
<1>4. CallsIn(Stream) = W \o (D \o X)
    <2> DEFINE dr == <<d>> \o r
    <2>1. dr \in Seq(MDelta) /\ CallsIn(dr) = D \o X
        BY <1>1, CallsInConcat, ConcatType
    <2>2. Stream = window \o dr
        BY <1>1 DEF Stream
    <2> HIDE DEF dr, D, X
    <2>3. CallsIn(window \o dr) = W \o CallsIn(dr)
        BY <1>1, <2>1, CallsInConcat
    <2> QED
        BY <2>1, <2>2, <2>3
<1> HIDE DEF W, D, X
<1>5. Distinct(W \o (D \o X))
    BY <1>4 DEF FreshInv
<1>6. Distinct(W \o X)
    BY <1>3, <1>5, DistinctThree
<1>7. Elems(W \o X) \subseteq Elems(CallsIn(Stream))
    <2> DEFINE DX == D \o X
    <2>1. DX \in Seq(CallId) /\ Elems(DX) = Elems(D) \cup Elems(X) /\ CallsIn(Stream) = W \o DX
        BY <1>3, <1>4, ConcatType, ElemsConcat
    <2> HIDE DEF DX
    <2>2. Elems(W \o DX) = Elems(W) \cup Elems(DX)
        BY <1>3, <2>1, ElemsConcat
    <2>3. Elems(W \o X) = Elems(W) \cup Elems(X)
        BY <1>3, ElemsConcat
    <2> QED
        BY <2>1, <2>2, <2>3
<1> DEFINE N == {}
<1>8. /\ N \subseteq Elems(CallsIn(Stream)) /\ N \cap Elems(CallsIn(Stream')) = {}
      /\ CallsOf(hist') \subseteq CallsOf(hist) \cup N
    BY <1>0
<1> HIDE DEF N
<1> QED
    BY <1>0, <1>3, <1>6, <1>7, <1>8, FreshKeeps

(* What a cancelled model still writes.                                    *)
LEMMA CancelCalls ==
    ASSUME TypeInv, CancelModel
    PROVE  \E Z \in Seq(CallId) :
              /\ CallsIn(model.todo) = CallsIn(model'.todo) \o Z
              /\ model'.todo \in Seq(MDelta)
<1> DEFINE td == model.todo
<1>0. /\ td \in Seq(MDelta) /\ CallsIn(td) \in Seq(CallId)
      /\ model \in [pc : {"idle", "taken", "stream"}, pass : Nat, todo : Seq(MDelta)]
    BY StreamParts, CallsInType DEF TypeInv, ModelTypes
<1>1. CASE model' = model
    <2>1. CallsIn(td) = CallsIn(td) \o <<>> /\ <<>> \in Seq(CallId)
        BY <1>0, EmptySides
    <2> QED
        BY <1>0, <1>1, <2>1
<1>2. CASE model.pc = "stream"
    <2> DEFINE head == Head(td)
               err == [pass |-> model.pass, kind |-> "err", call |-> 0]
               H == CallsIn(<<head>>)
               Q == CallsIn(Tail(td))
    <2>1. td # <<>>
        BY <1>2 DEF TypeInv, ModelTypes
    <2>2. head \in MDelta /\ Tail(td) \in Seq(MDelta) /\ td = <<head>> \o Tail(td)
        BY <1>0, <2>1, TailType, PassHead
    <2>3. err \in MDelta /\ err.kind = "err"
        BY <1>0, Constants DEF MDelta, PartKind
    <2>4. PICK q : /\ model' = [model EXCEPT !.todo = q]
                   /\ \/ q = <<err>>
                      \/ q = <<head>>
                      \/ q = <<head, err>>
        BY <1>2 DEF CancelModel
    <2>5. model'.todo = q
        BY <1>0, <2>4
    <2> HIDE DEF err, head
    <2>6. <<head>> \in Seq(MDelta) /\ <<>> \in Seq(MDelta) /\ <<err>> = Append(<<>>, err)
          /\ <<head, err>> = Append(<<head>>, err) /\ <<err>> \in Seq(MDelta)
          /\ <<head, err>> \in Seq(MDelta)
        BY <2>2, <2>3
    <2>7. CallsIn(<<err>>) = <<>> /\ CallsIn(<<head, err>>) = H
        BY <2>3, <2>6, CallsInAppend, CallsInEmpty
    <2>8. H \in Seq(CallId) /\ Q \in Seq(CallId) /\ CallsIn(td) = H \o Q
        BY <2>2, <2>6, CallsInType, CallsInConcat
    <2>9. CASE q = <<err>>
        BY <1>0, <2>5, <2>6, <2>7, <2>9, EmptySides
    <2>10. CASE q # <<err>>
        BY <2>4, <2>5, <2>6, <2>7, <2>8, <2>10
    <2> QED
        BY <2>9, <2>10
<1> QED
    BY <1>1, <1>2 DEF CancelModel

LEMMA InterruptFresh ==
    ASSUME TypeInv, HeldPlain, FreshInv, TickInterrupt
    PROVE  FreshInv'
<1> DEFINE W == CallsIn(window)
           M == CallsIn(modelOut)
           T == CallsIn(model.todo)
           T2 == CallsIn(model'.todo)
<1>0. /\ modelOut \in Seq(MDelta) /\ model.todo \in Seq(MDelta)
      /\ W \in Seq(CallId) /\ M \in Seq(CallId) /\ T \in Seq(CallId)
      /\ CallsIn(Stream) = W \o (M \o T)
    BY StreamCalls, StreamParts
<1>1. window' = <<>> /\ modelOut' = modelOut /\ nextCall' = nextCall /\ CancelModel
    BY DEF TickInterrupt, ReadUser
<1>2. PICK Z \in Seq(CallId) : T = T2 \o Z /\ model'.todo \in Seq(MDelta)
    BY <1>1, CancelCalls
<1> DEFINE td == model'.todo
<1>3. T2 \in Seq(CallId) /\ CallsIn(Stream') = M \o T2
    <2>1. Stream' = <<>> \o (modelOut \o td) /\ td \in Seq(MDelta)
        BY <1>1, <1>2 DEF Stream
    <2> HIDE DEF td
    <2>2. modelOut \o td \in Seq(MDelta) /\ CallsIn(modelOut \o td) = M \o CallsIn(td)
        BY <1>0, <2>1, ConcatType, CallsInConcat
    <2>3. CallsIn(td) \in Seq(CallId)
        BY <2>1, CallsInType
    <2> QED
        BY <2>1, <2>2, <2>3, EmptySides DEF td
<1> HIDE DEF W, M, T, T2, td
<1> DEFINE X == M \o T2
<1>4. X \in Seq(CallId) /\ M \o T = X \o Z
    <2>0. M \in Seq(CallId) /\ T2 \in Seq(CallId) /\ Z \in Seq(CallId)
        BY <1>0, <1>3
    <2>1. M \o T2 \in Seq(CallId)
        BY <2>0, ConcatType
    <2>2. (M \o T2) \o Z = M \o (T2 \o Z)
        BY <2>0, ConcatAssociative
    <2> QED
        BY <1>2, <2>1, <2>2
<1> HIDE DEF X
<1>5. Distinct(W \o (X \o Z))
    BY <1>0, <1>4 DEF FreshInv
<1>6. Distinct(W \o X) /\ Elems(W) \cap Elems(X) = {}
    BY <1>0, <1>2, <1>4, <1>5, DistinctThree
<1>7. Distinct(X)
    BY <1>0, <1>4, <1>6, DistinctParts
<1>8. Elems(X) \subseteq Elems(CallsIn(Stream)) /\ Elems(W) \subseteq Elems(CallsIn(Stream))
    <2> DEFINE XZ == X \o Z
    <2>1. XZ \in Seq(CallId) /\ Elems(XZ) = Elems(X) \cup Elems(Z) /\ CallsIn(Stream) = W \o XZ
        BY <1>0, <1>2, <1>4, ConcatType, ElemsConcat
    <2> HIDE DEF XZ
    <2>2. Elems(W \o XZ) = Elems(W) \cup Elems(XZ)
        BY <1>0, <2>1, ElemsConcat
    <2> QED
        BY <2>1, <2>2
<1>9. CallsOf(hist') \subseteq CallsOf(hist) \cup Elems(W)
    <2>1. [Next]_vars
        BY DEF Next, Tick
    <2> QED
        BY <2>1, HistCalls DEF W
<1>10. CallsIn(Stream') = X
    BY <1>3 DEF X
<1> QED
    BY <1>1, <1>6, <1>7, <1>8, <1>9, <1>10, FreshKeeps

LEMMA NextFresh ==
    ASSUME ~RepeatIDs
    PROVE  TypeInv /\ StreamInv /\ HeldPlain /\ FreshInv /\ [Next]_vars => FreshInv'
<1> SUFFICES ASSUME TypeInv, StreamInv, HeldPlain, FreshInv, [Next]_vars PROVE FreshInv'
    OBVIOUS
<1>0. /\ hist \in Seq(Message) /\ held \in Seq(Message)
      /\ nextCall \in Nat /\ modelInbox \in Seq(Request)
    BY Constants DEF TypeInv, ConvTypes, ModelTypes
<1>1. CallsOf(hist \o held) = CallsOf(hist)
    BY <1>0, PlainCalls DEF HeldPlain, Plain
<1>2. ASSUME UNCHANGED <<window, modelOut, model, nextCall>>, hist' = hist \/ hist' = hist \o held
      PROVE  FreshInv'
    <2>1. Stream' = Stream
        BY <1>2 DEF Stream
    <2> QED
        BY <1>1, <1>2, <2>1, FreshStays
<1>3. CASE Caller \/ ToolStep \/ SessionTake \/ UNCHANGED vars
    BY <1>2, <1>3 DEF Caller, Send, SendInterrupt, SendClose, ToolStep, ToolTake, ToolStart,
       ToolReturn, ToolFail, ToolEmit, SessionTake, vars, convVars, modelVars
<1>4. CASE TickStaleTool \/ TickToolPart \/ TickToolError
    BY <1>2, <1>4 DEF TickStaleTool, TickToolPart, TickToolError, ReadTool, convVars, modelVars,
       KeepHeld, PlaceHeld
<1>5. CASE TickUserHeld \/ TickClose \/ Stop
    BY <1>2, <1>5 DEF TickUserHeld, TickClose, ReadUser, Stop, PlaceHeld, SettleHeld, modelVars
<1>6. CASE ModelArm \/ ModelEmit \/ TickModelPart
    <2>1. Stream' = Stream
        BY <1>6, SameStream
    <2>2. hist' = hist /\ nextCall' = nextCall
        BY <1>6 DEF ModelArm, ModelEmit, TickModelPart, ReadModel, convVars
    <2> QED
        BY <2>1, <2>2, FreshStays
<1>7. CASE ModelTake \/ SessionRespond
    <2>1. /\ model.pc = "idle" /\ UNCHANGED <<window, modelOut, hist>>
          /\ \/ Answer(0, "stream")
             \/ modelInbox # <<>> /\ Answer(Head(modelInbox).pass, "taken")
        BY <1>7 DEF ModelTake, SessionRespond, convVars
    <2> DEFINE p == Head(modelInbox).pass
    <2>2. modelInbox # <<>> => p \in Nat
        <3>1. modelInbox # <<>> => Head(modelInbox) \in Request
            BY <1>0, TailType
        <3> QED
            BY <3>1 DEF Request
    <2>3. CallsOf(hist') = CallsOf(hist)
        BY <2>1
    <2>4. CASE Answer(0, "stream")
        BY <2>1, <2>3, <2>4, AnswerFresh
    <2>5. CASE modelInbox # <<>> /\ Answer(p, "taken")
        <3> HIDE DEF p
        <3> QED
            BY <2>1, <2>2, <2>3, <2>5, AnswerFresh
    <2> QED
        BY <2>1, <2>4, <2>5
<1>8. CASE TickReasoningEnd \/ TickModelCalls \/ TickModelFinal \/ TickModelError
             \/ TickToolEnd \/ TickUser
    <2>1. window' = <<>> /\ model' = model /\ nextCall' = nextCall
        BY <1>8 DEF TickReasoningEnd, TickModelCalls, TickModelFinal, TickModelError,
               TickToolEnd, TickUser, ReadModel, ReadTool, ReadUser
    <2>2. \/ modelOut' = modelOut \/ modelOut' = <<>>
          \/ modelOut # <<>> /\ modelOut' = Tail(modelOut)
        BY <1>8 DEF TickReasoningEnd, TickModelCalls, TickModelFinal, TickModelError,
               TickToolEnd, TickUser, ReadModel, ReadTool, ReadUser
    <2>3. CallsOf(hist') \subseteq CallsOf(hist) \cup Elems(CallsIn(window))
        BY HistCalls
    <2> QED
        BY <2>1, <2>2, <2>3, ResetFresh
<1>9. CASE TickStaleModel
    BY <1>9, StaleFresh
<1>10. CASE TickInterrupt
    BY <1>10, InterruptFresh
<1> QED
    BY <1>3, <1>4, <1>5, <1>6, <1>7, <1>8, <1>9, <1>10 DEF Next, Tick, ModelStep

LEMMA Freshs ==
    ASSUME ~RepeatIDs
    PROVE  Spec => []FreshInv
<1>1. Init => FreshInv
    <2> SUFFICES ASSUME Init PROVE FreshInv
        OBVIOUS
    <2>1. Elems(<<>>) = {} /\ Stream = <<>> /\ hist = <<>>
        BY ElemsSmall, EmptyPath DEF Init, Stream, NoModel
    <2>2. Distinct(<<>>) /\ CallsOf(<<>>) = {}
        BY <2>1 DEF Distinct, CallsOf
    <2> QED
        BY <2>1, <2>2, CallsInEmpty DEF FreshInv
<1>2. TypeInv /\ StreamInv /\ HeldPlain /\ FreshInv /\ [Next]_vars => FreshInv'
    BY NextFresh
<1> QED
    BY <1>1, <1>2, Typed, Streams, HeldsPlain, PTL DEF Spec

-----------------------------------------------------------------------------
(* Batches on their way to the executor                                    *)

Apart(cs, ds) == Elems(cs) \cap Elems(ds) = {}

(* While no call ID is used twice, a batch that has not started names no   *)
(* call of a batch that has, or of another batch that has not.             *)
AdmitInv ==
    /\ Elems(begun) \subseteq CallsOf(hist)
    /\ Elems(tool.calls) \subseteq CallsOf(hist)
    /\ \A b \in Elems(toolInbox) :
          Elems(b.calls) \subseteq CallsOf(hist) /\ Apart(b.calls, begun)
    /\ tool.pc = "taken" => /\ Apart(tool.calls, begun)
                            /\ \A b \in Elems(toolInbox) : Apart(tool.calls, b.calls)
    /\ \A i, j \in DOMAIN toolInbox : i # j => Apart(toolInbox[i].calls, toolInbox[j].calls)

LEMMA AdmitStays ==
    ASSUME AdmitInv, CallsOf(hist) \subseteq CallsOf(hist'), toolInbox' = toolInbox,
           begun' = begun, tool'.calls = tool.calls \/ tool'.calls = <<>>,
           tool'.pc = "taken" => tool.pc = "taken"
    PROVE  AdmitInv'
<1>1. Elems(tool'.calls) \subseteq Elems(tool.calls)
    BY ElemsSmall
<1> QED
    BY <1>1 DEF AdmitInv, Apart

LEMMA NextAdmit ==
    TypeInv /\ HeldPlain /\ FreshInv /\ AdmitInv /\ [Next]_vars => AdmitInv'
<1> SUFFICES ASSUME TypeInv, HeldPlain, FreshInv, AdmitInv, [Next]_vars PROVE AdmitInv'
    OBVIOUS
<1>0. /\ toolInbox \in Seq(ToolBatch) /\ begun \in Seq(CallId)
      /\ tool.calls \in Seq(CallId)
      /\ tool \in [pc : {"idle", "taken", "run", "emit"}, pass : Nat,
                   calls : Seq(CallId), todo : Seq(TDelta), cancelled : BOOLEAN]
    BY DEF TypeInv, ToolTypes
<1>1. CallsOf(hist) \subseteq CallsOf(hist')
    BY HistCalls
<1>2. NoTool.calls = <<>> /\ NoTool.pc = "idle"
    BY DEF NoTool
<1>3. CASE ToolTake
    <2> DEFINE b == Head(toolInbox)
    <2>1. /\ toolInbox # <<>> /\ toolInbox' = Tail(toolInbox) /\ begun' = begun /\ hist' = hist
          /\ tool'.calls = b.calls
        BY <1>3 DEF ToolTake, NoTool, convVars
    <2>2. /\ toolInbox' \in Seq(ToolBatch) /\ Len(toolInbox') = Len(toolInbox) - 1
          /\ b = toolInbox[1] /\ Len(toolInbox) > 0
          /\ \A i \in 1..(Len(toolInbox) - 1) : toolInbox'[i] = toolInbox[i + 1]
        BY <1>0, <2>1, TailType
    <2>3. Elems(toolInbox') \subseteq Elems(toolInbox) /\ b \in Elems(toolInbox)
        BY <1>0, <2>1, ElemsTail
    <2> HIDE DEF b
    <2>7. /\ DOMAIN toolInbox = 1..Len(toolInbox) /\ Len(toolInbox) \in Nat
          /\ DOMAIN toolInbox' = 1..(Len(toolInbox) - 1)
        BY <1>0, <2>2
    <2>8. \A i, j \in 1..Len(toolInbox) : i # j => Apart(toolInbox[i].calls, toolInbox[j].calls)
        BY <2>7 DEF AdmitInv
    <2>4. \A i, j \in DOMAIN toolInbox' : i # j => Apart(toolInbox'[i].calls, toolInbox'[j].calls)
        <3> SUFFICES ASSUME NEW i \in 1..(Len(toolInbox) - 1), NEW j \in 1..(Len(toolInbox) - 1),
                            i # j
                     PROVE  Apart(toolInbox'[i].calls, toolInbox'[j].calls)
            BY <2>7
        <3>1. i + 1 \in 1..Len(toolInbox) /\ j + 1 \in 1..Len(toolInbox) /\ i + 1 # j + 1
            BY <2>7
        <3>2. Apart(toolInbox[i + 1].calls, toolInbox[j + 1].calls)
            BY <2>8, <3>1
        <3> QED
            BY <2>2, <3>2
    <2>5. \A i \in DOMAIN toolInbox' : Apart(b.calls, toolInbox'[i].calls)
        <3> SUFFICES ASSUME NEW i \in 1..(Len(toolInbox) - 1)
                     PROVE  Apart(b.calls, toolInbox'[i].calls)
            BY <2>7
        <3>1. i + 1 \in 1..Len(toolInbox) /\ 1 \in 1..Len(toolInbox) /\ i + 1 # 1
            BY <2>7
        <3>2. Apart(toolInbox[1].calls, toolInbox[i + 1].calls)
            BY <2>8, <3>1
        <3> QED
            BY <2>2, <3>2
    <2>6. \A x \in Elems(toolInbox') : Apart(b.calls, x.calls)
        BY <2>5 DEF Elems
    <2> QED
        BY <2>1, <2>3, <2>4, <2>6 DEF AdmitInv, Apart
<1>4. CASE ToolStart
    <2> DEFINE calls == AdmitCalls(tool.calls)
    <2>1. /\ toolInbox' = toolInbox /\ begun' = begun \o calls /\ hist' = hist
          /\ tool' = IF calls = <<>> THEN NoTool
                     ELSE [tool EXCEPT !.pc = "run", !.calls = calls]
        BY <1>4 DEF ToolStart, convVars
    <2>2. /\ calls \in Seq(CallId) /\ Elems(calls) \subseteq Elems(tool.calls)
        BY <1>0, OnlyType, OnlyElems DEF AdmitCalls
    <2>3. tool.pc = "taken"
        BY <1>4 DEF ToolStart
    <2> HIDE DEF calls
    <2>4. tool'.calls = calls /\ tool'.pc # "taken"
        BY <1>0, <1>2, <2>1
    <2>5. Elems(begun') = Elems(begun) \cup Elems(calls)
        BY <1>0, <2>1, <2>2, ElemsConcat
    <2> QED
        BY <2>1, <2>2, <2>3, <2>4, <2>5 DEF AdmitInv, Apart
<1>5. CASE ToolReturn \/ ToolFail \/ ToolEmit
    <2>1. toolInbox' = toolInbox /\ begun' = begun
          /\ \/ \E q : tool' = [tool EXCEPT !.pc = "emit", !.todo = q]
             \/ tool' = NoTool \/ tool' = [tool EXCEPT !.todo = Tail(tool.todo)]
        BY <1>5 DEF ToolReturn, ToolFail, ToolEmit
    <2>2. /\ tool'.calls = tool.calls \/ tool'.calls = <<>>
          /\ tool'.pc = "taken" => tool.pc = "taken"
        BY <1>0, <1>2, <2>1
    <2> QED
        BY <1>1, <2>1, <2>2, AdmitStays
<1>6. CASE TickModelCalls
    <2> DEFINE b == [pass |-> passID', calls |-> CallsIn(window)]
               new == Elems(CallsIn(window))
    <2>1. b \in ToolBatch /\ Elems(b.calls) = new
        <3>1. passID' \in Nat
            BY <1>6, PassTypes DEF TickModelCalls, TypeInv, ConvTypes
        <3>2. CallsIn(window) \in Seq(CallId)
            BY StreamParts, CallsInType
        <3> QED
            BY <3>1, <3>2 DEF ToolBatch
    <2>2. toolInbox' = Append(toolInbox, b) /\ UNCHANGED <<tool, begun>>
        BY <1>6 DEF TickModelCalls, ReadModel
    <2>3. new \cap CallsOf(hist) = {}
        <3>1. new \subseteq Elems(CallsIn(Stream))
            <4> DEFINE r == CallsIn(modelOut) \o CallsIn(model.todo)
            <4>1. /\ CallsIn(Stream) = CallsIn(window) \o r
                  /\ CallsIn(window) \in Seq(CallId) /\ CallsIn(modelOut) \in Seq(CallId)
                  /\ CallsIn(model.todo) \in Seq(CallId)
                BY StreamCalls
            <4>2. r \in Seq(CallId)
                BY <4>1, ConcatType
            <4> HIDE DEF r
            <4> QED
                BY <4>1, <4>2, ElemsConcat
        <3> QED
            BY <3>1 DEF FreshInv
    <2>4. new \subseteq CallsOf(hist')
        <3>1. hist' = Append(hist, Assistant(CallsIn(window)))
            BY <1>6 DEF TickModelCalls, KeepHeld
        <3>2. hist \in Seq(Message) /\ CallsIn(window) \in Seq(CallId)
            BY StreamParts, CallsInType DEF TypeInv, ConvTypes
        <3>3. Assistant(CallsIn(window)) \in Message
              /\ Assistant(CallsIn(window)).calls = CallsIn(window)
            BY <3>2, MessageTypes DEF Assistant
        <3> QED
            BY <3>1, <3>2, <3>3, CallsOfAppend
    <2> HIDE DEF b, new
    <2>5. Elems(toolInbox') = Elems(toolInbox) \cup {b}
        BY <1>0, <2>1, <2>2, ElemsAppend
    <2>6. \A x \in Elems(toolInbox) : Elems(x.calls) \cap new = {}
        BY <2>3 DEF AdmitInv
    <2>7. \A i, j \in DOMAIN toolInbox' : i # j => Apart(toolInbox'[i].calls, toolInbox'[j].calls)
        <3>1. /\ toolInbox' \in Seq(ToolBatch) /\ Len(toolInbox') = Len(toolInbox) + 1
              /\ \A i \in 1..Len(toolInbox) : toolInbox'[i] = toolInbox[i]
              /\ toolInbox'[Len(toolInbox) + 1] = b
            BY <1>0, <2>1, <2>2, AppendType
        <3>2. \A i \in 1..Len(toolInbox) : toolInbox[i] \in Elems(toolInbox)
            BY <1>0, ElemsType
        <3>3. \A i \in 1..Len(toolInbox) : Apart(toolInbox[i].calls, b.calls)
            BY <2>1, <2>6, <3>2 DEF Apart
        <3>4. \A i, j \in 1..Len(toolInbox) : i # j => Apart(toolInbox[i].calls, toolInbox[j].calls)
            BY <1>0 DEF AdmitInv
        <3>5. DOMAIN toolInbox' = 1..(Len(toolInbox) + 1)
            BY <3>1
        <3> SUFFICES ASSUME NEW i \in 1..(Len(toolInbox) + 1), NEW j \in 1..(Len(toolInbox) + 1),
                            i # j
                     PROVE  Apart(toolInbox'[i].calls, toolInbox'[j].calls)
            BY <3>5
        <3>6. CASE i \in 1..Len(toolInbox) /\ j \in 1..Len(toolInbox)
            BY <3>1, <3>4, <3>6
        <3>7. CASE i \in 1..Len(toolInbox) /\ j = Len(toolInbox) + 1
            BY <3>1, <3>3, <3>7
        <3>8. CASE j \in 1..Len(toolInbox) /\ i = Len(toolInbox) + 1
            BY <3>1, <3>3, <3>8 DEF Apart
        <3>9. Len(toolInbox) \in Nat
            BY <1>0
        <3> QED
            BY <3>6, <3>7, <3>8, <3>9
    <2> QED
        <3>1. /\ Elems(begun') \subseteq CallsOf(hist') /\ Elems(tool'.calls) \subseteq CallsOf(hist')
            BY <1>1, <2>2 DEF AdmitInv
        <3>2. Apart(b.calls, begun)
            BY <2>1, <2>3 DEF AdmitInv, Apart
        <3>3. \A x \in Elems(toolInbox') :
                Elems(x.calls) \subseteq CallsOf(hist') /\ Apart(x.calls, begun')
            BY <1>1, <2>1, <2>2, <2>4, <2>5, <3>2 DEF AdmitInv
        <3>4. tool'.pc = "taken" => Apart(tool'.calls, begun')
            BY <2>2 DEF AdmitInv
        <3>5. Apart(tool.calls, b.calls)
            BY <2>1, <2>3 DEF AdmitInv, Apart
        <3>6. tool'.pc = "taken" => \A x \in Elems(toolInbox') : Apart(tool'.calls, x.calls)
            BY <2>2, <2>5, <3>5 DEF AdmitInv
        <3> QED
            BY <2>7, <3>1, <3>3, <3>4, <3>6 DEF AdmitInv
<1>7. CASE TickInterrupt
    <2>1. toolInbox' = toolInbox /\ begun' = begun /\ CancelTool
        BY <1>7 DEF TickInterrupt, ReadUser
    <2>2. tool'.calls = tool.calls /\ (tool'.pc = "taken" => tool.pc = "taken")
        BY <1>0, <2>1 DEF CancelTool
    <2> QED
        BY <1>1, <2>1, <2>2, AdmitStays
<1>8. CASE Caller \/ ModelStep \/ Stop \/ UNCHANGED vars
    BY <1>1, <1>8, AdmitStays DEF Caller, Send, SendInterrupt, SendClose, ModelStep, ModelTake,
       ModelArm, ModelEmit, SessionTake, SessionRespond, Stop, vars, toolVars
<1>9. CASE TickStaleModel \/ TickModelPart \/ TickReasoningEnd \/ TickModelFinal
           \/ TickModelError
    BY <1>1, <1>9, AdmitStays DEF TickStaleModel, TickModelPart, TickReasoningEnd, TickModelFinal,
       TickModelError, ReadModel, toolVars
<1>10. CASE TickStaleTool \/ TickToolPart \/ TickToolEnd \/ TickToolError \/ TickUser
            \/ TickUserHeld \/ TickClose
    BY <1>1, <1>10, AdmitStays DEF TickStaleTool, TickToolPart, TickToolEnd, TickToolError,
       TickUser, TickUserHeld, TickClose, ReadTool, ReadUser
<1> QED
    BY <1>3, <1>4, <1>5, <1>6, <1>7, <1>8, <1>9, <1>10 DEF Next, Tick, ToolStep

LEMMA Admits ==
    ASSUME ~RepeatIDs
    PROVE  Spec => []AdmitInv
<1>1. Init => AdmitInv
    <2> SUFFICES ASSUME Init PROVE AdmitInv
        OBVIOUS
    <2>1. begun = <<>> /\ toolInbox = <<>> /\ tool.calls = <<>> /\ tool.pc = "idle"
        BY DEF Init, NoTool
    <2>2. Elems(<<>>) = {}
        BY ElemsSmall
    <2>3. DOMAIN toolInbox = {}
        BY <2>1
    <2> QED
        BY <2>1, <2>2, <2>3 DEF AdmitInv
<1>2. TypeInv /\ HeldPlain /\ FreshInv /\ AdmitInv /\ [Next]_vars => AdmitInv'
    BY NextAdmit
<1> QED
    BY <1>1, <1>2, Typed, Freshs, HeldsPlain, PTL DEF Spec

(* The loop starts every call of the batch it takes.                       *)
LEMMA AllAdmitted ==
    ASSUME TypeInv, AdmitInv, tool.pc = "taken"
    PROVE  AdmitCalls(tool.calls) = tool.calls
<1>1. tool.calls \in Seq(CallId)
    BY DEF TypeInv, ToolTypes
<1>2. Elems(tool.calls) \subseteq Elems(tool.calls) \ Elems(begun)
    BY DEF AdmitInv, Apart
<1> QED
    BY <1>1, <1>2, OnlyAll DEF AdmitCalls

(* The runner holds deltas only while it emits them, all of its batch, and *)
(* nobody closes a turn-based loop.                                        *)
RestInv == tool.pc # "emit" => tool.todo = <<>>
NoClose == \A u \in Elems(userOut) : u.kind # "close"

LEMMA NextRest ==
    TypeInv /\ RestInv /\ [Next]_vars => RestInv'
<1> SUFFICES ASSUME TypeInv, RestInv, [Next]_vars PROVE RestInv'
    OBVIOUS
<1>0. tool \in [pc : {"idle", "taken", "run", "emit"}, pass : Nat,
                calls : Seq(CallId), todo : Seq(TDelta), cancelled : BOOLEAN]
    BY DEF TypeInv, ToolTypes
<1>1. NoTool.todo = <<>>
    BY DEF NoTool
<1>2. CASE ToolTake
    <2>1. tool'.todo = <<>>
        BY <1>1, <1>2 DEF ToolTake, NoTool
    <2> QED
        BY <2>1 DEF RestInv
<1>3. CASE ToolStart
    <2>1. /\ tool.pc = "taken"
          /\ tool' = NoTool \/ \E q : tool' = [tool EXCEPT !.pc = "run", !.calls = q]
        BY <1>3 DEF ToolStart
    <2>2. tool'.todo = <<>>
        BY <1>0, <1>1, <2>1 DEF RestInv
    <2> QED
        BY <2>2 DEF RestInv
<1>4. CASE ToolReturn \/ ToolFail
    <2>1. \E q : tool' = [tool EXCEPT !.pc = "emit", !.todo = q]
        BY <1>4 DEF ToolReturn, ToolFail
    <2> QED
        BY <1>0, <2>1 DEF RestInv
<1>5. CASE ToolEmit
    <2>1. /\ tool.pc = "emit"
          /\ tool' = NoTool \/ tool' = [tool EXCEPT !.todo = Tail(tool.todo)]
        BY <1>5 DEF ToolEmit
    <2>2. tool'.todo = <<>> \/ tool'.pc = "emit"
        BY <1>0, <1>1, <2>1
    <2> QED
        BY <2>2 DEF RestInv
<1>6. CASE TickInterrupt
    <2>1. CancelTool
        BY <1>6 DEF TickInterrupt
    <2>2. tool'.todo = tool.todo /\ tool'.pc = tool.pc
        BY <1>0, <2>1 DEF CancelTool
    <2> QED
        BY <2>2 DEF RestInv
<1>7. CASE UNCHANGED tool
    BY <1>7 DEF RestInv
<1>8. CASE Caller \/ ModelStep \/ Stop \/ UNCHANGED vars
    BY <1>7, <1>8 DEF Caller, Send, SendInterrupt, SendClose, ModelStep, ModelTake, ModelArm,
       ModelEmit, SessionTake, SessionRespond, Stop, vars, toolVars
<1>9. CASE TickStaleModel \/ TickModelPart \/ TickReasoningEnd \/ TickModelCalls
           \/ TickModelFinal \/ TickModelError
    BY <1>7, <1>9 DEF TickStaleModel, TickModelPart, TickReasoningEnd, TickModelCalls,
       TickModelFinal, TickModelError, ReadModel, toolVars
<1>10. CASE TickStaleTool \/ TickToolPart \/ TickToolEnd \/ TickToolError \/ TickUser
            \/ TickUserHeld \/ TickClose
    BY <1>7, <1>10 DEF TickStaleTool, TickToolPart, TickToolEnd, TickToolError, TickUser,
       TickUserHeld, TickClose, ReadTool, ReadUser
<1> QED
    BY <1>2, <1>3, <1>4, <1>5, <1>6, <1>8, <1>9, <1>10 DEF Next, Tick, ToolStep

LEMMA NextNoClose ==
    ASSUME ~Duplex
    PROVE  TypeInv /\ NoClose /\ [Next]_vars => NoClose'
<1> SUFFICES ASSUME TypeInv, NoClose, [Next]_vars PROVE NoClose'
    OBVIOUS
<1>0. userOut \in Seq(UserItem) /\ nextTurn \in 0..MaxTurns
    BY DEF TypeInv, UserTypes
<1>1. CASE Send \/ SendInterrupt
    <2>1. PICK u : u.kind # "close" /\ userOut' = Append(userOut, u) /\ u \in UserItem
        <3>1. MaxTurns \in Nat
            BY Constants
        <3>2. CASE Send
            BY SMTT(60), <1>0, <3>1, <3>2 DEF Send, UserItem
        <3>3. CASE SendInterrupt
            BY <1>0, <3>1, <3>3 DEF SendInterrupt, UserItem
        <3> QED
            BY <1>1, <3>2, <3>3
    <2>2. Elems(userOut') = Elems(userOut) \cup {u}
        BY <1>0, <2>1, ElemsAppend
    <2> QED
        BY <2>1, <2>2 DEF NoClose
<1>2. CASE userOut # <<>> /\ userOut' = Tail(userOut)
    <2>1. Elems(userOut') \subseteq Elems(userOut)
        BY <1>0, <1>2, ElemsTail
    <2> QED
        BY <2>1 DEF NoClose
<1>3. CASE UNCHANGED userOut
    BY <1>3 DEF NoClose
<1>4. CASE TickUser \/ TickUserHeld \/ TickInterrupt \/ TickClose
    BY <1>2, <1>4 DEF TickUser, TickUserHeld, TickInterrupt, TickClose, ReadUser
<1>5. CASE SendClose \/ ModelStep \/ ToolStep \/ Stop \/ UNCHANGED vars
    BY <1>3, <1>5 DEF SendClose, ModelStep, ModelTake, ModelArm, ModelEmit, SessionTake,
       SessionRespond, ToolStep, ToolTake, ToolStart, ToolReturn, ToolFail, ToolEmit, Stop,
       vars, userVars
<1>6. CASE TickStaleModel \/ TickModelPart \/ TickReasoningEnd \/ TickModelCalls
           \/ TickModelFinal \/ TickModelError
    BY <1>3, <1>6 DEF TickStaleModel, TickModelPart, TickReasoningEnd, TickModelCalls,
       TickModelFinal, TickModelError, ReadModel, userVars
<1>7. CASE TickStaleTool \/ TickToolPart \/ TickToolEnd \/ TickToolError
    BY <1>3, <1>7 DEF TickStaleTool, TickToolPart, TickToolEnd, TickToolError, ReadTool, userVars
<1> QED
    BY <1>1, <1>4, <1>5, <1>6, <1>7 DEF Next, Tick, Caller

LEMMA Rests ==
    ASSUME ~Duplex
    PROVE  Spec => [](RestInv /\ NoClose)
<1>1. Init => RestInv /\ NoClose
    <2> SUFFICES ASSUME Init PROVE RestInv /\ NoClose
        OBVIOUS
    <2>1. tool.todo = <<>> /\ userOut = <<>>
        BY DEF Init, NoTool
    <2>2. Elems(<<>>) = {}
        BY ElemsSmall
    <2> QED
        BY <2>1, <2>2 DEF RestInv, NoClose
<1>2. TypeInv /\ RestInv /\ NoClose /\ [Next]_vars => RestInv' /\ NoClose'
    BY NextRest, NextNoClose
<1> QED
    BY <1>1, <1>2, Typed, PTL DEF Spec

-----------------------------------------------------------------------------
(* The batch the loop waits for                                            *)

(* What of a path to or from the tool runner belongs to pass p.            *)
BatchesOf(q, p) == Only(q, {b \in ToolBatch : b.pass = p})
DeltasOf(q, p) == Only(q, {d \in TDelta : d.pass = p})

(* Where the batch of the current pass is: in the tool runner's inbox, at  *)
(* work in the runner, or in deltas the runner has yet to write or the     *)
(* coordinator to read.                                                    *)
Ahead == BatchesOf(toolInbox, passID)
Working == tool.pc \in {"taken", "run"} /\ tool.pass = passID
Due == DeltasOf(toolOut \o tool.todo, passID)

(* Its calls: those of the last message of history.                        *)
Asked == IF hist = <<>> THEN <<>> ELSE hist[Len(hist)].calls

(* What the runner reports of calls cs.                                    *)
Note(p, k, c) == [pass |-> p, kind |-> k, call |-> c]
Notes(p, cs) == [i \in DOMAIN cs |-> Note(p, "result", cs[i])]
Closing(p, cs) == Append(Notes(p, cs), Note(p, "end", 0))
Opening(p, cs) == <<Note(p, "start", 0)>> \o Closing(p, cs)

Waits == Ahead = <<[pass |-> passID, calls |-> Asked]>> /\ ~Working /\ Due = <<>>
Works == Ahead = <<>> /\ Working /\ Due = <<>> /\ tool.calls = Asked /\ ~tool.cancelled
Fails == Ahead = <<>> /\ ~Working /\ Due = <<Note(passID, "err", 0)>> /\ ToolsMayFail
Reports ==
    /\ Ahead = <<>> /\ ~Working /\ Due # <<>>
    /\ Due = Opening(passID, Asked) \/ toolWin \o Due = Closing(passID, Asked)
Over == Ahead = <<>> /\ ~Working /\ Due = <<>>

LastAsks == hist # <<>> /\ Asked # <<>> /\ hist[Len(hist)] = Assistant(Asked)

(* Until the batch of the current pass is over, it is the one the last     *)
(* message of history asked for, it is in one place, and its results       *)
(* arrive in the order of its calls, framed, or one error stands for all.  *)
LiveInv == engine = "running" => Over \/ (LastAsks /\ (Waits \/ Works \/ Fails \/ Reports))

LEMMA BatchesType ==
    ASSUME NEW q \in Seq(ToolBatch), NEW p
    PROVE  /\ BatchesOf(q, p) \in Seq(ToolBatch)
           /\ (\A b \in Elems(q) : b.pass # p) => BatchesOf(q, p) = <<>>
           /\ BatchesOf(q, p) = <<>> => \A b \in Elems(q) : b.pass # p
           /\ Elems(BatchesOf(q, p)) = {b \in Elems(q) : b.pass = p}
<1> DEFINE T == {b \in ToolBatch : b.pass = p}
<1>1. Elems(q) \subseteq ToolBatch
    BY ElemsType
<1>2. Elems(q) \cap T = {b \in Elems(q) : b.pass = p}
    BY <1>1
<1> HIDE DEF T
<1>3. Only(q, T) \in Seq(ToolBatch) /\ Elems(Only(q, T)) = Elems(q) \cap T
    BY OnlyType, OnlyElems
<1>4. Elems(q) \cap T = {} => Only(q, T) = <<>>
    BY OnlyNone
<1>5. Only(q, T) = <<>> => Elems(q) \cap T = {}
    BY <1>3, ElemsSmall
<1>6. BatchesOf(q, p) = Only(q, T)
    BY DEF BatchesOf, T
<1> QED
    BY <1>2, <1>3, <1>4, <1>5, <1>6

LEMMA DeltasType ==
    ASSUME NEW q \in Seq(TDelta), NEW p
    PROVE  /\ DeltasOf(q, p) \in Seq(TDelta)
           /\ (\A d \in Elems(q) : d.pass # p) => DeltasOf(q, p) = <<>>
           /\ (\A d \in Elems(q) : d.pass = p) => DeltasOf(q, p) = q
           /\ Elems(DeltasOf(q, p)) = {d \in Elems(q) : d.pass = p}
<1> DEFINE T == {d \in TDelta : d.pass = p}
<1>1. Elems(q) \subseteq TDelta
    BY ElemsType
<1>2. Elems(q) \cap T = {d \in Elems(q) : d.pass = p}
    BY <1>1
<1>3. (\A d \in Elems(q) : d.pass = p) => Elems(q) \subseteq T
    BY <1>1
<1> HIDE DEF T
<1>4. Only(q, T) \in Seq(TDelta) /\ Elems(Only(q, T)) = Elems(q) \cap T
    BY OnlyType, OnlyElems
<1>5. Elems(q) \cap T = {} => Only(q, T) = <<>>
    BY OnlyNone
<1>6. Elems(q) \subseteq T => Only(q, T) = q
    BY OnlyAll
<1>7. DeltasOf(q, p) = Only(q, T)
    BY DEF DeltasOf, T
<1> QED
    BY <1>2, <1>3, <1>4, <1>5, <1>6, <1>7

LEMMA BatchesHead ==
    ASSUME NEW q \in Seq(ToolBatch), NEW p, q # <<>>
    PROVE  IF Head(q).pass = p
           THEN /\ BatchesOf(q, p) # <<>> /\ Head(BatchesOf(q, p)) = Head(q)
                /\ BatchesOf(Tail(q), p) = Tail(BatchesOf(q, p))
           ELSE BatchesOf(Tail(q), p) = BatchesOf(q, p)
<1> DEFINE T == {b \in ToolBatch : b.pass = p}
<1>1. Head(q) \in ToolBatch
    BY TailType
<1>2. Head(q) \in T <=> Head(q).pass = p
    BY <1>1
<1> HIDE DEF T
<1>3. IF Head(q) \in T
      THEN /\ Only(q, T) # <<>> /\ Head(Only(q, T)) = Head(q)
           /\ Only(Tail(q), T) = Tail(Only(q, T))
      ELSE Only(Tail(q), T) = Only(q, T)
    BY OnlyHead
<1>4. BatchesOf(q, p) = Only(q, T) /\ BatchesOf(Tail(q), p) = Only(Tail(q), T)
    BY DEF BatchesOf, T
<1> QED
    BY <1>2, <1>3, <1>4

LEMMA DeltasHead ==
    ASSUME NEW q \in Seq(TDelta), NEW p, q # <<>>
    PROVE  IF Head(q).pass = p
           THEN /\ DeltasOf(q, p) # <<>> /\ Head(DeltasOf(q, p)) = Head(q)
                /\ DeltasOf(Tail(q), p) = Tail(DeltasOf(q, p))
           ELSE DeltasOf(Tail(q), p) = DeltasOf(q, p)
<1> DEFINE T == {d \in TDelta : d.pass = p}
<1>1. Head(q) \in TDelta
    BY TailType
<1>2. Head(q) \in T <=> Head(q).pass = p
    BY <1>1
<1> HIDE DEF T
<1>3. IF Head(q) \in T
      THEN /\ Only(q, T) # <<>> /\ Head(Only(q, T)) = Head(q)
           /\ Only(Tail(q), T) = Tail(Only(q, T))
      ELSE Only(Tail(q), T) = Only(q, T)
    BY OnlyHead
<1>4. DeltasOf(q, p) = Only(q, T) /\ DeltasOf(Tail(q), p) = Only(Tail(q), T)
    BY DEF DeltasOf, T
<1> QED
    BY <1>2, <1>3, <1>4

LEMMA DeltasConcat ==
    ASSUME NEW s \in Seq(TDelta), NEW t \in Seq(TDelta), NEW p
    PROVE  DeltasOf(s \o t, p) = DeltasOf(s, p) \o DeltasOf(t, p)
BY OnlyConcat DEF DeltasOf

LEMMA ClosingType ==
    ASSUME NEW p \in Nat, NEW cs \in Seq(CallId)
    PROVE  /\ Notes(p, cs) \in Seq(TDelta) /\ Len(Notes(p, cs)) = Len(cs)
           /\ \A i \in 1..Len(cs) : Notes(p, cs)[i] = Note(p, "result", cs[i])
           /\ Closing(p, cs) \in Seq(TDelta) /\ Len(Closing(p, cs)) = Len(cs) + 1
           /\ \A i \in 1..Len(cs) : Closing(p, cs)[i] = Note(p, "result", cs[i])
           /\ Closing(p, cs)[Len(cs) + 1] = Note(p, "end", 0)
           /\ \A d \in Elems(Closing(p, cs)) : d.pass = p
<1> DEFINE n == Notes(p, cs)
           e == Note(p, "end", 0)
           x == Closing(p, cs)
<1>0. CallId \subseteq 0..MaxCalls /\ 0 \in 0..MaxCalls /\ 0 \notin CallId
    BY Constants DEF CallId
<1>1. e \in TDelta /\ \A c \in CallId : Note(p, "result", c) \in TDelta
    BY <1>0 DEF Note, TDelta
<1>2. DOMAIN cs = 1..Len(cs) /\ Len(cs) \in Nat /\ \A i \in 1..Len(cs) : cs[i] \in CallId
    BY ElementOfSeq
<1>3. n = [i \in 1..Len(cs) |-> Note(p, "result", cs[i])]
    BY <1>2 DEF Notes
<1>4. n \in Seq(TDelta) /\ Len(n) = Len(cs)
    <2>1. n \in [1..Len(cs) -> TDelta]
        BY <1>1, <1>2, <1>3
    <2> QED
        BY <1>2, <2>1, LenProperties, SeqDef
<1>5. \A i \in 1..Len(cs) : n[i] = Note(p, "result", cs[i])
    BY <1>3
<1>6. x = Append(n, e)
    BY DEF Closing
<1> HIDE DEF n, x, e
<1>7. /\ x \in Seq(TDelta) /\ Len(x) = Len(cs) + 1
      /\ \A i \in 1..Len(cs) : x[i] = Note(p, "result", cs[i])
      /\ x[Len(cs) + 1] = e
    BY <1>1, <1>4, <1>5, <1>6, AppendType
<1>8. \A d \in Elems(x) : d.pass = p
    <2>1. e.pass = p /\ \A c : Note(p, "result", c).pass = p
        BY DEF e, Note
    <2>2. DOMAIN x = 1..(Len(cs) + 1)
        BY <1>7
    <2>3. \A i \in 1..(Len(cs) + 1) : i \in 1..Len(cs) \/ i = Len(cs) + 1
        BY <1>2
    <2> QED
        BY <1>7, <2>1, <2>2, <2>3 DEF Elems
<1> QED
    BY <1>4, <1>5, <1>7, <1>8 DEF n, x, e

LEMMA OpeningType ==
    ASSUME NEW p \in Nat, NEW cs \in Seq(CallId)
    PROVE  /\ Opening(p, cs) \in Seq(TDelta) /\ Opening(p, cs) # <<>>
           /\ Head(Opening(p, cs)) = Note(p, "start", 0)
           /\ Tail(Opening(p, cs)) = Closing(p, cs)
           /\ \A d \in Elems(Opening(p, cs)) : d.pass = p
<1> DEFINE s == Note(p, "start", 0)
           x == Closing(p, cs)
<1>0. 0 \in 0..MaxCalls
    BY Constants
<1>1. s \in TDelta /\ s.pass = p
    BY <1>0 DEF Note, TDelta
<1>2. x \in Seq(TDelta) /\ \A d \in Elems(x) : d.pass = p
    BY ClosingType
<1>3. Opening(p, cs) = <<s>> \o x
    BY DEF Opening
<1> HIDE DEF s, x
<1>4. <<s>> \in Seq(TDelta) /\ Elems(<<s>>) = {s}
    BY <1>1, ElemsSmall
<1>5. <<s>> \o x \in Seq(TDelta) /\ Elems(<<s>> \o x) = {s} \cup Elems(x)
    <2> DEFINE o == <<s>>
    <2>1. o \in Seq(TDelta) /\ Elems(o) = {s} /\ x \in Seq(TDelta)
        BY <1>2, <1>4
    <2> HIDE DEF o
    <2>2. o \o x \in Seq(TDelta) /\ Elems(o \o x) = Elems(o) \cup Elems(x)
        BY <2>1, ConcatType, ElemsConcat
    <2> QED
        BY <2>1, <2>2 DEF o
<1>6. <<s>> \o x # <<>> /\ Head(<<s>> \o x) = s /\ Tail(<<s>> \o x) = x
    BY <1>1, <1>2
<1> QED
    BY <1>1, <1>2, <1>3, <1>5, <1>6 DEF s, x

(* In a closed batch only the last delta is not a result.                  *)
LEMMA ClosingHead ==
    ASSUME NEW p \in Nat, NEW cs \in Seq(CallId), NEW w \in Seq(TDelta), NEW q \in Seq(TDelta),
           q # <<>>, w \o q = Closing(p, cs)
    PROVE  /\ Head(q).kind \in {"result", "end"}
           /\ Head(q).kind = "end" => w = Notes(p, cs) /\ q = <<Note(p, "end", 0)>>
<1> DEFINE x == Closing(p, cs)
           n == Notes(p, cs)
           k == Len(w) + 1
<1>1. /\ n \in Seq(TDelta) /\ Len(n) = Len(cs)
      /\ \A i \in 1..Len(cs) : n[i] = Note(p, "result", cs[i])
      /\ x \in Seq(TDelta) /\ Len(x) = Len(cs) + 1
      /\ \A i \in 1..Len(cs) : x[i] = Note(p, "result", cs[i])
      /\ x[Len(cs) + 1] = Note(p, "end", 0)
    BY ClosingType
<1>2. \A c : Note(p, "result", c).kind = "result" /\ Note(p, "end", c).kind = "end"
    BY DEF Note
<1>3. /\ w \o q = x /\ Len(w \o q) = Len(w) + Len(q)
      /\ \A i \in 1..Len(w) : (w \o q)[i] = w[i]
      /\ \A i \in 1..Len(q) : (w \o q)[Len(w) + i] = q[i]
    BY ConcatType
<1>4. Len(w) \in Nat /\ Len(q) \in Nat \ {0} /\ Len(cs) \in Nat /\ Head(q) = q[1]
    BY EmptySeq, TailType
<1> HIDE DEF x, n
<1>5. x[k] = Head(q)
    BY <1>3, <1>4
<1>6. k \in 1..Len(cs) \/ k = Len(cs) + 1
    BY <1>1, <1>3, <1>4
<1>7. CASE k \in 1..Len(cs)
    BY <1>1, <1>2, <1>5, <1>7
<1>8. CASE k = Len(cs) + 1
    <2>0. Len(w) + Len(q) = Len(cs) + 1
        BY <1>1, <1>3
    <2>9. Len(w) + 1 = Len(cs) + 1 /\ Len(w) \in Nat /\ Len(q) \in Nat /\ Len(cs) \in Nat
        BY <1>4, <1>8
    <2> DEFINE a == Len(w)
               b == Len(q)
               c == Len(cs)
    <2>10. a + 1 = c + 1 /\ a + b = c + 1 /\ a \in Nat /\ b \in Nat /\ c \in Nat
        BY <2>0, <2>9
    <2>1. a = c /\ b = 1
        <3> HIDE DEF a, b, c
        <3> QED
            BY <2>10
    <2>2. Head(q) = Note(p, "end", 0)
        BY <1>1, <1>5, <1>8
    <2>3. \A i \in 1..Len(w) : w[i] = n[i]
        BY <1>1, <1>3, <2>1
    <2>4. w = n
        BY <1>1, <2>1, <2>3, SeqEqual
    <2>5. q = <<Note(p, "end", 0)>>
        BY <1>4, <2>1, <2>2
    <2> QED
        BY <1>2, <2>2, <2>4, <2>5 DEF n
<1> QED
    BY <1>6, <1>7, <1>8

LEMMA LiveParts ==
    ASSUME TypeInv
    PROVE  /\ toolInbox \in Seq(ToolBatch) /\ toolOut \in Seq(TDelta)
           /\ tool \in [pc : {"idle", "taken", "run", "emit"}, pass : Nat,
                        calls : Seq(CallId), todo : Seq(TDelta), cancelled : BOOLEAN]
           /\ tool.todo \in Seq(TDelta) /\ toolOut \o tool.todo \in Seq(TDelta)
           /\ Elems(toolOut \o tool.todo) = Elems(toolOut) \cup Elems(tool.todo)
           /\ toolWin \in Seq(TDelta) /\ passID \in Nat /\ hist \in Seq(Message)
           /\ Asked \in Seq(CallId)
<1> DEFINE td == tool.todo
<1>1. /\ toolInbox \in Seq(ToolBatch) /\ toolOut \in Seq(TDelta)
      /\ tool \in [pc : {"idle", "taken", "run", "emit"}, pass : Nat,
                   calls : Seq(CallId), todo : Seq(TDelta), cancelled : BOOLEAN]
      /\ toolWin \in Seq(TDelta) /\ passID \in Nat /\ hist \in Seq(Message)
    BY DEF TypeInv, ToolTypes, ConvTypes
<1>2. td \in Seq(TDelta)
    BY <1>1
<1> HIDE DEF td
<1>3. toolOut \o td \in Seq(TDelta) /\ Elems(toolOut \o td) = Elems(toolOut) \cup Elems(td)
    BY <1>1, <1>2, ConcatType, ElemsConcat
<1>4. Asked \in Seq(CallId)
    <2>1. <<>> \in Seq(CallId)
        OBVIOUS
    <2>2. ASSUME hist # <<>> PROVE hist[Len(hist)].calls \in Seq(CallId)
        <3>1. Len(hist) \in 1..Len(hist)
            BY <1>1, <2>2, EmptySeq
        <3>2. hist[Len(hist)] \in Message
            BY <1>1, <3>1, ElementOfSeq
        <3> QED
            BY <3>2 DEF Message, CallId
    <2> QED
        BY <2>1, <2>2 DEF Asked
<1> QED
    BY <1>1, <1>2, <1>3, <1>4 DEF td

LEMMA OverPasses == TypeInv /\ passID \notin ToolPasses => Over
<1> SUFFICES ASSUME TypeInv, passID \notin ToolPasses PROVE Over
    OBVIOUS
<1> DEFINE q == toolOut \o tool.todo
<1>1. /\ toolInbox \in Seq(ToolBatch) /\ q \in Seq(TDelta)
      /\ Elems(q) = Elems(toolOut) \cup Elems(tool.todo)
    BY LiveParts
<1>2. \A b \in Elems(toolInbox) : b.pass # passID
    BY DEF ToolPasses
<1>3. \A d \in Elems(q) : d.pass # passID
    BY <1>1 DEF ToolPasses
<1>4. ~Working
    BY DEF Working, ToolPasses
<1> HIDE DEF q
<1>5. BatchesOf(toolInbox, passID) = <<>>
    BY <1>1, <1>2, BatchesType
<1>6. DeltasOf(q, passID) = <<>>
    BY <1>1, <1>3, DeltasType
<1> QED
    BY <1>4, <1>5, <1>6 DEF Over, Ahead, Due, q

(* A pass that no batch is under way for has nothing to wait for.          *)
LEMMA LiveOver ==
    ASSUME TypeInv', passID' \notin ToolPasses'
    PROVE  LiveInv'
<1>1. (TypeInv /\ passID \notin ToolPasses => Over)'
    BY OverPasses, PTL
<1>2. Over'
    BY <1>1
<1> QED
    BY <1>2 DEF LiveInv

LEMMA NewPass ==
    ASSUME TypeInv, TypeInv', PhaseInv, passID' > passID, ToolPasses' \subseteq ToolPasses
    PROVE  LiveInv'
<1>1. passID \in Nat /\ passID' \in Nat
    BY DEF TypeInv, ConvTypes
<1>2. ToolPasses \subseteq 1..passID
    BY <1>1 DEF PhaseInv
<1>3. passID' \notin ToolPasses'
    BY <1>1, <1>2
<1> QED
    BY <1>3, LiveOver

LEMMA NoBatch ==
    ASSUME TypeInv, TypeInv', PhaseInv, outstanding = 0, passID' = passID,
           ToolPasses' \subseteq ToolPasses
    PROVE  LiveInv'
<1>1. passID \in Nat
    BY DEF TypeInv, ConvTypes
<1>2. ToolPasses \subseteq 1..(passID - 1)
    BY <1>1 DEF PhaseInv
<1>3. passID' \notin ToolPasses'
    BY <1>1, <1>2
<1> QED
    BY <1>3, LiveOver

(* What the coordinator reads of the batch it waits for.                   *)
LEMMA Arrives ==
    ASSUME ~Duplex, TypeInv, PhaseInv, LiveInv, engine = "running", toolOut # <<>>,
           ~Stale(Head(toolOut))
    PROVE  /\ outstanding = 1 /\ Head(toolOut).pass = passID
           /\ LastAsks /\ Ahead = <<>> /\ ~Working
           /\ Due \in Seq(TDelta) /\ Due # <<>> /\ Head(Due) = Head(toolOut)
           /\ DeltasOf(Tail(toolOut) \o tool.todo, passID) = Tail(Due)
           /\ Head(toolOut).kind = "start" => Due = Opening(passID, Asked)
           /\ Head(toolOut).kind = "result" => toolWin \o Due = Closing(passID, Asked)
           /\ Head(toolOut).kind = "end" => /\ toolWin = Notes(passID, Asked)
                                            /\ Due = <<Note(passID, "end", 0)>>
           /\ Head(toolOut).kind = "err" => Due = <<Note(passID, "err", 0)>> /\ ToolsMayFail
<1> DEFINE td == tool.todo
           q == toolOut \o td
           t == Tail(toolOut) \o td
           e == Head(toolOut)
<1>1. outstanding = 1 /\ e.pass = passID
    BY FreshTool
<1>2. /\ toolOut \in Seq(TDelta) /\ td \in Seq(TDelta) /\ q \in Seq(TDelta)
      /\ toolWin \in Seq(TDelta) /\ passID \in Nat /\ Asked \in Seq(CallId)
    BY LiveParts
<1>3. q # <<>> /\ Head(q) = e /\ Tail(q) = t
    <2> HIDE DEF td
    <2> QED
        BY <1>2
<1>4. Due = DeltasOf(q, passID)
    BY DEF Due
<1> HIDE DEF td, q, t, e
<1>5. /\ DeltasOf(q, passID) # <<>> /\ Head(DeltasOf(q, passID)) = e
      /\ DeltasOf(t, passID) = Tail(DeltasOf(q, passID))
    BY <1>1, <1>2, <1>3, DeltasHead
<1>6. Due \in Seq(TDelta)
    BY <1>2, <1>4, DeltasType
<1>7. LastAsks /\ (Fails \/ Reports)
    BY <1>4, <1>5 DEF LiveInv, Over, Waits, Works
<1>8. Ahead = <<>> /\ ~Working
    BY <1>7 DEF Fails, Reports
<1>9. Due # <<>> /\ Head(Due) = e /\ DeltasOf(t, passID) = Tail(Due)
    BY <1>4, <1>5
<1> HIDE DEF Due
<1>10. CASE Fails
    <2>1. Due = <<Note(passID, "err", 0)>> /\ ToolsMayFail
        BY <1>10 DEF Fails
    <2>2. e.kind = "err"
        BY <1>9, <2>1 DEF Note
    <2> QED
        BY <1>1, <1>6, <1>7, <1>8, <1>9, <2>1, <2>2 DEF e, t, td
<1>11. CASE Reports /\ Due = Opening(passID, Asked)
    <2>1. Head(Due) = Note(passID, "start", 0)
        BY <1>2, <1>11, OpeningType
    <2>2. e.kind = "start"
        BY <1>9, <2>1 DEF Note
    <2> QED
        BY <1>1, <1>6, <1>7, <1>8, <1>9, <1>11, <2>2 DEF e, t, td
<1>12. CASE toolWin \o Due = Closing(passID, Asked)
    <2>1. /\ Head(Due).kind \in {"result", "end"}
          /\ Head(Due).kind = "end" => /\ toolWin = Notes(passID, Asked)
                                       /\ Due = <<Note(passID, "end", 0)>>
        BY <1>2, <1>6, <1>9, <1>12, ClosingHead
    <2> QED
        BY <1>1, <1>6, <1>7, <1>8, <1>9, <1>12, <2>1 DEF e, t, td
<1> QED
    BY <1>7, <1>10, <1>11, <1>12 DEF Reports

LEMMA LiveStays ==
    ASSUME LiveInv, engine' = "running" => engine = "running",
           UNCHANGED <<hist, passID, toolWin>>, Ahead' = Ahead, Due' = Due, Working' <=> Working,
           Working => tool'.calls = tool.calls /\ tool'.cancelled = tool.cancelled
    PROVE  LiveInv'
<1>1. Asked' = Asked /\ (LastAsks' <=> LastAsks)
    BY DEF Asked, LastAsks
<1>2. Over => Over'
    BY DEF Over
<1>3. Waits => Waits'
    BY <1>1 DEF Waits
<1>4. Works => Works'
    BY <1>1 DEF Works
<1>5. Fails => Fails'
    BY <1>1 DEF Fails
<1>6. Reports => Reports'
    BY <1>1 DEF Reports
<1> QED
    BY <1>1, <1>2, <1>3, <1>4, <1>5, <1>6 DEF LiveInv

(* Outside the tool runner, nothing moves the batch.                       *)
LEMMA LiveRests ==
    ASSUME LiveInv, engine' = "running" => engine = "running",
           UNCHANGED <<hist, passID, toolWin, toolInbox, toolOut, tool>>
    PROVE  LiveInv'
<1>1. Ahead' = Ahead /\ Due' = Due /\ (Working' <=> Working)
    BY DEF Ahead, Due, Working
<1> QED
    BY <1>1, LiveStays

LEMMA TakeLive ==
    ASSUME TypeInv, RestInv, LiveInv, ToolTake
    PROVE  LiveInv'
<1> DEFINE b == Head(toolInbox)
<1>1. /\ engine = "running" /\ tool.pc = "idle" /\ toolInbox # <<>>
      /\ toolInbox' = Tail(toolInbox) /\ UNCHANGED <<hist, passID, toolWin, engine, toolOut>>
      /\ tool' = [NoTool EXCEPT !.pc = "taken", !.pass = b.pass, !.calls = b.calls]
    BY DEF ToolTake, convVars
<1>2. toolInbox \in Seq(ToolBatch) /\ passID \in Nat /\ Asked \in Seq(CallId)
    BY LiveParts
<1>3. /\ tool'.pc = "taken" /\ tool'.pass = b.pass /\ tool'.calls = b.calls
      /\ tool'.todo = <<>> /\ tool'.cancelled = FALSE
    BY <1>1 DEF NoTool
<1>4. Due' = Due /\ ~Working /\ Ahead' = BatchesOf(Tail(toolInbox), passID)
    BY <1>1, <1>3 DEF RestInv, Due, Working, Ahead
<1>5. Working' <=> b.pass = passID
    BY <1>1, <1>3 DEF Working
<1> HIDE DEF b
<1>6. CASE b.pass = passID
    <2>1. Ahead # <<>> /\ Head(Ahead) = b /\ Ahead' = Tail(Ahead)
        BY <1>1, <1>2, <1>4, <1>6, BatchesHead DEF Ahead, b
    <2>2. LastAsks /\ Waits
        BY <1>1, <2>1 DEF LiveInv, Over, Works, Fails, Reports
    <2>3. Ahead = <<[pass |-> passID, calls |-> Asked]>> /\ Due = <<>>
        BY <2>2 DEF Waits
    <2>4. b = [pass |-> passID, calls |-> Asked] /\ Ahead' = <<>>
        BY <2>1, <2>3
    <2>5. Asked' = Asked /\ LastAsks'
        BY <1>1, <2>2 DEF Asked, LastAsks
    <2>6. Works'
        BY <1>3, <1>4, <1>5, <1>6, <2>3, <2>4, <2>5 DEF Works
    <2> QED
        BY <2>5, <2>6 DEF LiveInv
<1>7. CASE b.pass # passID
    <2>1. BatchesOf(Tail(toolInbox), passID) = BatchesOf(toolInbox, passID)
        BY <1>1, <1>2, <1>7, BatchesHead DEF b
    <2>2. Ahead' = Ahead
        BY <1>4, <2>1 DEF Ahead
    <2> QED
        BY <1>1, <1>4, <1>5, <1>7, <2>2, LiveStays
<1> QED
    BY <1>6, <1>7

LEMMA StartLive ==
    ASSUME TypeInv, RestInv, AdmitInv, LiveInv, ToolStart
    PROVE  LiveInv'
<1>1. /\ engine = "running" /\ tool.pc = "taken"
      /\ UNCHANGED <<hist, passID, toolWin, engine, toolOut, toolInbox>>
      /\ tool' = IF AdmitCalls(tool.calls) = <<>> THEN NoTool
                 ELSE [tool EXCEPT !.pc = "run", !.calls = AdmitCalls(tool.calls)]
    BY DEF ToolStart, convVars
<1>2. tool \in [pc : {"idle", "taken", "run", "emit"}, pass : Nat,
                calls : Seq(CallId), todo : Seq(TDelta), cancelled : BOOLEAN]
    BY LiveParts
<1>3. tool' = IF tool.calls = <<>> THEN NoTool ELSE [tool EXCEPT !.pc = "run"]
    BY <1>1, <1>2, AllAdmitted
<1>4. tool'.todo = tool.todo
    BY <1>1, <1>2, <1>3 DEF RestInv, NoTool
<1>5. Due' = Due /\ Ahead' = Ahead
    BY <1>1, <1>4 DEF Due, Ahead
<1>6. CASE tool.pass = passID
    <2>1. Working
        BY <1>1, <1>6 DEF Working
    <2>2. Works /\ Asked # <<>>
        BY <1>1, <2>1 DEF LiveInv, Over, Waits, Fails, Reports, LastAsks
    <2>3. tool.calls # <<>>
        BY <2>2 DEF Works
    <2>4. /\ tool'.pc = "run" /\ tool'.pass = tool.pass /\ tool'.calls = tool.calls
          /\ tool'.cancelled = tool.cancelled
        BY <1>2, <1>3, <2>3
    <2>5. Working'
        BY <1>1, <1>6, <2>4 DEF Working
    <2> QED
        BY <1>1, <1>5, <2>1, <2>4, <2>5, LiveStays
<1>7. CASE tool.pass # passID
    <2>1. tool'.pc = "idle" \/ tool'.pass = tool.pass
        BY <1>2, <1>3 DEF NoTool
    <2>2. ~Working /\ ~Working'
        BY <1>1, <1>7, <2>1 DEF Working
    <2> QED
        BY <1>1, <1>5, <2>2, LiveStays
<1> QED
    BY <1>6, <1>7

(* The runner ends a batch: its deltas, all of the batch's pass, are due.  *)
LEMMA EndLive ==
    ASSUME TypeInv, RestInv, LiveInv, engine = "running", tool.pc = "run",
           UNCHANGED <<hist, passID, toolWin, engine, toolOut, toolInbox>>,
           NEW t \in Seq(TDelta), tool' = [tool EXCEPT !.pc = "emit", !.todo = t],
           \A d \in Elems(t) : d.pass = tool.pass,
           \/ t = Opening(tool.pass, tool.calls)
           \/ t = <<Note(tool.pass, "err", 0)>> /\ (ToolsMayFail \/ tool.cancelled)
    PROVE  LiveInv'
<1>1. /\ tool \in [pc : {"idle", "taken", "run", "emit"}, pass : Nat,
                   calls : Seq(CallId), todo : Seq(TDelta), cancelled : BOOLEAN]
      /\ toolOut \in Seq(TDelta) /\ Asked \in Seq(CallId) /\ passID \in Nat
    BY LiveParts
<1>2. tool.todo = <<>>
    BY DEF RestInv
<1>3. tool'.pc = "emit" /\ tool'.pass = tool.pass /\ tool'.todo = t
    BY <1>1
<1>4. /\ ~Working' /\ Ahead' = Ahead
      /\ Due' = DeltasOf(toolOut \o t, passID)
    BY <1>3 DEF Working, Ahead, Due
<1>5. Due = DeltasOf(toolOut, passID)
    BY <1>1, <1>2 DEF Due
<1>6. Due' = Due \o DeltasOf(t, passID) /\ Due \in Seq(TDelta)
    <2>1. DeltasOf(toolOut \o t, passID) = DeltasOf(toolOut, passID) \o DeltasOf(t, passID)
        BY ZenonT(60), <1>1, DeltasConcat
    <2>2. DeltasOf(toolOut, passID) \in Seq(TDelta)
        BY <1>1, DeltasType
    <2> QED
        BY <1>4, <1>5, <2>1, <2>2
<1>7. CASE tool.pass = passID
    <2>1. Working
        BY <1>7 DEF Working
    <2>2. Works /\ LastAsks
        BY <2>1 DEF LiveInv, Over, Waits, Fails, Reports
    <2>3. Ahead = <<>> /\ Due = <<>> /\ tool.calls = Asked /\ ~tool.cancelled
        BY <2>2 DEF Works
    <2>4. DeltasOf(t, passID) = t
        BY <1>7, DeltasType
    <2>5. Due' = t
        <3>1. Due' = <<>> \o t
            BY <1>6, <2>3, <2>4
        <3> QED
            BY <3>1
    <2>6. Asked' = Asked /\ LastAsks'
        BY <2>2 DEF Asked, LastAsks
    <2>7. CASE t = Opening(tool.pass, tool.calls)
        <3>1. t = Opening(passID, Asked) /\ t # <<>>
            BY <1>1, <1>7, <2>3, <2>7, OpeningType
        <3>2. Reports'
            BY <1>4, <2>3, <2>5, <2>6, <3>1 DEF Reports
        <3> QED
            BY <2>6, <3>2 DEF LiveInv
    <2>8. CASE t = <<Note(tool.pass, "err", 0)>> /\ (ToolsMayFail \/ tool.cancelled)
        <3>1. Fails'
            BY <1>4, <1>7, <2>3, <2>5, <2>8 DEF Fails
        <3> QED
            BY <2>6, <3>1 DEF LiveInv
    <2> QED
        BY <2>7, <2>8
<1>8. CASE tool.pass # passID
    <2>1. DeltasOf(t, passID) = <<>>
        BY <1>8, DeltasType
    <2>2. Due' = Due
        BY <1>6, <2>1
    <2>3. ~Working
        BY <1>8 DEF Working
    <2> QED
        BY <1>4, <2>2, <2>3, LiveStays
<1> QED
    BY <1>7, <1>8

(* What ToolReturn leaves to write is the batch's opening.                 *)
LEMMA ReturnOpens ==
    ASSUME TypeInv
    PROVE  LET all == <<ToolDelta("start", 0)>>
                      \o Map(LAMBDA c : ToolDelta("result", c), tool.calls)
                      \o <<ToolDelta("end", 0)>>
           IN  all = Opening(tool.pass, tool.calls)
<1> DEFINE cs == tool.calls
           p == tool.pass
           s == Note(p, "start", 0)
           e == Note(p, "end", 0)
           rs == Notes(p, cs)
           ms == Map(LAMBDA c : ToolDelta("result", c), cs)
<1>1. cs \in Seq(CallId) /\ p \in Nat
    BY LiveParts
<1>2. ms = rs
    BY DEF Map, Notes, Note, ToolDelta
<1>3. ToolDelta("start", 0) = s /\ ToolDelta("end", 0) = e
    BY DEF Note, ToolDelta
<1>4. Opening(p, cs) = <<s>> \o Append(rs, e)
    BY DEF Opening, Closing
<1>5. rs \in Seq(TDelta)
    BY <1>1, ClosingType
<1>6. s \in TDelta /\ e \in TDelta
    <2>1. 0 \in 0..MaxCalls
        BY Constants
    <2> QED
        BY <1>1, <2>1 DEF Note, TDelta
<1> HIDE DEF s, e, rs, ms, cs, p
<1>7. (<<s>> \o rs) \o <<e>> = <<s>> \o Append(rs, e)
    <2> DEFINE o == <<s>>
    <2>1. o \in Seq(TDelta)
        BY <1>6
    <2> HIDE DEF o
    <2>2. o \o rs \in Seq(TDelta) /\ o \o Append(rs, e) = Append(o \o rs, e)
        BY <1>5, <1>6, <2>1, ConcatType, AppendConcat
    <2> DEFINE x == o \o rs
    <2> HIDE DEF x
    <2>3. x \in Seq(TDelta)
        BY <2>2 DEF x
    <2>4. x \o <<e>> = Append(x, e)
        BY <1>6, <2>3
    <2> QED
        BY <2>2, <2>4 DEF o, x
<1>8. (<<s>> \o ms) \o <<e>> = Opening(p, cs)
    BY <1>2, <1>4, <1>7
<1> QED
    BY <1>3, <1>8 DEF ms, cs, p

LEMMA ReturnLive ==
    ASSUME TypeInv, RestInv, LiveInv, ToolReturn \/ ToolFail
    PROVE  LiveInv'
<1>1. /\ engine = "running" /\ tool.pc = "run"
      /\ UNCHANGED <<hist, passID, toolWin, engine, toolOut, toolInbox>>
    BY DEF ToolReturn, ToolFail, convVars
<1>2. tool.calls \in Seq(CallId) /\ tool.pass \in Nat
    BY LiveParts
<1>3. CASE ToolReturn
    <2> DEFINE t == Opening(tool.pass, tool.calls)
    <2>1. tool' = [tool EXCEPT !.pc = "emit", !.todo = t]
        BY <1>3, ReturnOpens DEF ToolReturn
    <2>2. t \in Seq(TDelta) /\ \A d \in Elems(t) : d.pass = tool.pass
        BY <1>2, OpeningType
    <2>3. t = Opening(tool.pass, tool.calls)
        OBVIOUS
    <2> HIDE DEF t
    <2> QED
        BY <1>1, <2>1, <2>2, <2>3, EndLive
<1>4. CASE ToolFail
    <2> DEFINE e == Note(tool.pass, "err", 0)
               t == <<e>>
    <2>1. /\ tool' = [tool EXCEPT !.pc = "emit", !.todo = t]
          /\ ToolsMayFail \/ tool.cancelled
        BY <1>4 DEF ToolFail, ToolDelta, Note
    <2>2. e \in TDelta /\ e.pass = tool.pass
        <3>1. 0 \in 0..MaxCalls
            BY Constants
        <3> QED
            BY <1>2, <3>1 DEF Note, TDelta
    <2> HIDE DEF e
    <2>3. t \in Seq(TDelta) /\ Elems(t) = {e}
        BY <2>2, ElemsSmall
    <2>4. t = <<Note(tool.pass, "err", 0)>>
        BY DEF e
    <2> HIDE DEF t
    <2> QED
        BY <1>1, <2>1, <2>2, <2>3, <2>4, EndLive
<1> QED
    BY <1>3, <1>4

LEMMA EmitLive ==
    ASSUME TypeInv, LiveInv, ToolEmit
    PROVE  LiveInv'
<1> DEFINE td == tool.todo
<1>1. /\ engine = "running" /\ tool.pc = "emit"
      /\ UNCHANGED <<hist, passID, toolWin, engine, toolInbox>>
      /\ toolOut' = Append(toolOut, Head(td))
      /\ tool' = IF Len(td) = 1 THEN NoTool ELSE [tool EXCEPT !.todo = Tail(td)]
    BY DEF ToolEmit, convVars
<1>2. /\ tool \in [pc : {"idle", "taken", "run", "emit"}, pass : Nat,
                   calls : Seq(CallId), todo : Seq(TDelta), cancelled : BOOLEAN]
      /\ toolOut \in Seq(TDelta) /\ td \in Seq(TDelta)
    BY LiveParts
<1>3. td # <<>>
    BY <1>1 DEF TypeInv, ToolTypes
<1>4. tool'.todo = Tail(td)
    <2>1. CASE Len(td) = 1
        <3>1. Tail(td) = <<>>
            <4> HIDE DEF td
            <4>1. Tail(td) \in Seq(TDelta) /\ Len(Tail(td)) = 0
                BY <1>2, <1>3, <2>1, TailType
            <4> QED
                BY <4>1, EmptySeq
        <3> QED
            BY <1>1, <2>1, <3>1 DEF NoTool
    <2>2. CASE Len(td) # 1
        BY <1>1, <1>2, <2>2
    <2> QED
        BY <2>1, <2>2
<1>5. tool'.pc \in {"idle", "emit"}
    BY <1>1, <1>2 DEF NoTool
<1> HIDE DEF td
<1>6. toolOut' \o tool'.todo = toolOut \o td
    <2>1. toolOut \in Seq(TDelta) /\ td \in Seq(TDelta) /\ td # <<>>
        BY <1>2, <1>3
    <2>2. Append(toolOut, Head(td)) \o Tail(td) = toolOut \o td
        BY <2>1, PassHead
    <2> QED
        BY <1>1, <1>4, <2>2 DEF td
<1>7. Due' = Due /\ Ahead' = Ahead
    BY <1>1, <1>6 DEF Due, Ahead, td
<1>8. ~Working /\ ~Working'
    BY <1>1, <1>5 DEF Working
<1> QED
    BY <1>1, <1>7, <1>8, LiveStays

LEMMA StaleLive ==
    ASSUME TypeInv, LiveInv, TickStaleTool
    PROVE  LiveInv'
<1> DEFINE td == tool.todo
           q == toolOut \o td
           t == Tail(toolOut) \o td
<1>1. /\ toolOut # <<>> /\ toolOut' = Tail(toolOut) /\ Head(toolOut).pass < passID
      /\ UNCHANGED <<hist, passID, toolWin, engine, toolInbox, tool>>
    BY DEF TickStaleTool, convVars, Stale
<1>2. /\ toolOut \in Seq(TDelta) /\ td \in Seq(TDelta) /\ q \in Seq(TDelta) /\ passID \in Nat
    BY LiveParts
<1>3. q # <<>> /\ Head(q) = Head(toolOut) /\ Tail(q) = t
    <2> HIDE DEF td
    <2> QED
        BY <1>1, <1>2
<1>4. Due = DeltasOf(q, passID) /\ Due' = DeltasOf(t, passID)
    BY <1>1 DEF Due
<1> HIDE DEF q, t, td
<1>5. Head(q).pass # passID
    <2>1. Head(toolOut) \in TDelta
        BY <1>1, <1>2, TailType
    <2>2. Head(toolOut).pass \in Nat
        BY <2>1 DEF TDelta
    <2> QED
        BY <1>1, <1>2, <1>3, <2>2
<1>6. DeltasOf(t, passID) = DeltasOf(q, passID)
    BY <1>2, <1>3, <1>5, DeltasHead
<1>7. Due' = Due /\ Ahead' = Ahead /\ (Working' <=> Working)
    BY <1>1, <1>4, <1>6 DEF Ahead, Working
<1> QED
    BY <1>1, <1>7, LiveStays

LEMMA PartLive ==
    ASSUME ~Duplex, TypeInv, PhaseInv, LiveInv, TickToolPart
    PROVE  LiveInv'
<1> DEFINE e == Head(toolOut)
<1>1. /\ engine = "running" /\ toolOut # <<>> /\ toolOut' = Tail(toolOut) /\ ~Stale(e)
      /\ e.kind \in {"start", "result"}
      /\ UNCHANGED <<hist, passID, engine, toolInbox, tool>>
      /\ toolWin' = IF e.kind = "start" THEN <<>> ELSE Append(toolWin, e)
    BY DEF TickToolPart, ReadTool, Ticking
<1>2. /\ LastAsks /\ Ahead = <<>> /\ ~Working
      /\ Due \in Seq(TDelta) /\ Due # <<>> /\ Head(Due) = e
      /\ DeltasOf(Tail(toolOut) \o tool.todo, passID) = Tail(Due)
      /\ e.kind = "start" => Due = Opening(passID, Asked)
      /\ e.kind = "result" => toolWin \o Due = Closing(passID, Asked)
    BY <1>1, Arrives
<1>3. toolWin \in Seq(TDelta) /\ Asked \in Seq(CallId) /\ passID \in Nat
    BY LiveParts
<1>4. Due' = Tail(Due) /\ Ahead' = <<>> /\ ~Working' /\ Asked' = Asked /\ LastAsks'
    BY <1>1, <1>2 DEF Due, Ahead, Working, Asked, LastAsks
<1> HIDE DEF e
<1>5. toolWin' \o Due' = Closing(passID, Asked)
    <2>1. CASE e.kind = "start"
        <3>1. toolWin' = <<>> /\ Due' = Closing(passID, Asked)
            BY <1>1, <1>2, <1>3, <1>4, <2>1, OpeningType
        <3>2. Closing(passID, Asked) \in Seq(TDelta)
            BY <1>3, ClosingType
        <3> QED
            BY <3>1, <3>2
    <2>2. CASE e.kind = "result"
        <3>1. toolWin' = Append(toolWin, Head(Due))
            BY <1>1, <1>2, <2>2
        <3> HIDE DEF Due
        <3>2. Append(toolWin, Head(Due)) \o Tail(Due) = toolWin \o Due
            BY <1>2, <1>3, PassHead
        <3> QED
            BY <1>2, <1>4, <2>2, <3>1, <3>2
    <2> QED
        BY <1>1, <2>1, <2>2
<1>6. CASE Due' = <<>>
    <2>1. Over'
        BY <1>4, <1>6 DEF Over
    <2> QED
        BY <2>1 DEF LiveInv
<1>7. CASE Due' # <<>>
    <2>1. Reports'
        BY <1>1, <1>4, <1>5, <1>7 DEF Reports
    <2> QED
        BY <1>4, <2>1 DEF LiveInv
<1> QED
    BY <1>6, <1>7

LEMMA ErrorLive ==
    ASSUME ~Duplex, TypeInv, PhaseInv, LiveInv, TickToolError
    PROVE  LiveInv'
<1>1. /\ engine = "running" /\ toolOut # <<>> /\ toolOut' = Tail(toolOut) /\ ~Stale(Head(toolOut))
      /\ Head(toolOut).kind = "err"
      /\ UNCHANGED <<passID, engine, toolInbox, tool>>
    BY DEF TickToolError, ReadTool, Ticking
<1>2. /\ Ahead = <<>> /\ ~Working /\ Due = <<Note(passID, "err", 0)>>
      /\ DeltasOf(Tail(toolOut) \o tool.todo, passID) = Tail(Due)
    BY <1>1, Arrives
<1>3. Due' = <<>> /\ Ahead' = <<>> /\ ~Working'
    <2>1. Due' = Tail(Due) /\ Ahead' = Ahead /\ (Working' <=> Working)
        BY <1>1, <1>2 DEF Due, Ahead, Working
    <2>2. Tail(Due) = <<>>
        BY <1>2
    <2> QED
        BY <1>2, <2>1, <2>2
<1>4. Over'
    BY <1>3 DEF Over
<1> QED
    BY <1>4 DEF LiveInv

LEMMA CallsLive ==
    ASSUME ~Duplex, TypeInv, StreamInv, PhaseInv, LiveInv, TickModelCalls
    PROVE  LiveInv'
<1> DEFINE cs == CallsIn(window)
           p == passID + 1
           b == [pass |-> p, calls |-> cs]
           q == toolOut \o tool.todo
<1>1. /\ modelOut # <<>> /\ ~Stale(Head(modelOut)) /\ cs # <<>>
      /\ hist' = Append(hist, Assistant(cs)) /\ passID' = p
      /\ toolInbox' = Append(toolInbox, b) /\ UNCHANGED <<toolOut, tool>>
    BY DEF TickModelCalls, ReadModel, KeepHeld, NextToolPass
<1>2. outstanding = 0
    BY <1>1, FreshModel
<1>3. /\ toolInbox \in Seq(ToolBatch) /\ q \in Seq(TDelta) /\ passID \in Nat /\ hist \in Seq(Message)
      /\ Elems(q) = Elems(toolOut) \cup Elems(tool.todo)
    BY LiveParts
<1>4. cs \in Seq(CallId) /\ window \in Seq(MDelta)
    BY StreamParts, CallsInType
<1>5. p \notin ToolPasses /\ p \in Nat
    BY <1>2, <1>3 DEF PhaseInv
<1>6. /\ \A x \in Elems(toolInbox) : x.pass # p
      /\ \A d \in Elems(q) : d.pass # p
      /\ ~(tool.pc \in {"taken", "run"} /\ tool.pass = p)
    BY <1>3, <1>5 DEF ToolPasses
<1>7. b \in ToolBatch /\ b.pass = p
    BY <1>4, <1>5 DEF ToolBatch
<1>8. hist' # <<>> /\ hist'[Len(hist')] = Assistant(cs) /\ Assistant(cs).calls = cs
    <2>1. Assistant(cs) \in Message /\ Assistant(cs).calls = cs
        BY <1>4, MessageTypes DEF Assistant
    <2>2. Len(hist') = Len(hist) + 1 /\ hist' # <<>> /\ hist'[Len(hist) + 1] = Assistant(cs)
        BY <1>1, <1>3, <2>1, AppendType
    <2> QED
        BY <2>1, <2>2
<1>9. Asked' = cs
    BY <1>8 DEF Asked
<1>10. LastAsks'
    BY <1>1, <1>8, <1>9 DEF LastAsks
<1>11. Due' = <<>>
    <2>1. Due' = DeltasOf(q, p)
        BY <1>1 DEF Due
    <2> HIDE DEF q
    <2> QED
        BY <1>3, <1>6, <2>1, DeltasType
<1>12. ~Working'
    BY <1>1, <1>6 DEF Working
<1>13. Ahead' = <<b>>
    <2> DEFINE T == {x \in ToolBatch : x.pass = p}
    <2>1. BatchesOf(toolInbox, p) = <<>>
        BY <1>3, <1>6, BatchesType
    <2>2. Ahead' = Only(toolInbox', T) /\ Only(toolInbox, T) = <<>>
        BY <1>1, <2>1 DEF Ahead, BatchesOf
    <2>3. b \in T
        BY <1>7
    <2> HIDE DEF T, b
    <2>4. Only(Append(toolInbox, b), T) = Append(Only(toolInbox, T), b)
        BY <1>3, <1>7, <2>3, OnlyAppend
    <2>5. Append(<<>>, b) = <<b>>
        BY <1>7
    <2> QED
        BY <1>1, <2>2, <2>4, <2>5 DEF b
<1>14. Waits'
    BY <1>1, <1>9, <1>11, <1>12, <1>13 DEF Waits
<1> QED
    BY <1>10, <1>14 DEF LiveInv

LEMMA SameTools ==
    ASSUME TypeInv, toolInbox' = toolInbox, toolOut' = toolOut, tool' = tool \/ CancelTool
    PROVE  ToolPasses' \subseteq ToolPasses
<1>1. tool \in [pc : {"idle", "taken", "run", "emit"}, pass : Nat,
                calls : Seq(CallId), todo : Seq(TDelta), cancelled : BOOLEAN]
    BY LiveParts
<1>2. tool'.pc = tool.pc /\ tool'.pass = tool.pass /\ tool'.todo = tool.todo
    BY <1>1 DEF CancelTool
<1> QED
    BY <1>2 DEF ToolPasses

LEMMA NextLive ==
    ASSUME ~Duplex
    PROVE  /\ TypeInv /\ TypeInv' /\ StreamInv /\ PhaseInv /\ AdmitInv /\ RestInv /\ NoClose
           /\ LiveInv /\ [Next]_vars
           => LiveInv'
<1> SUFFICES ASSUME TypeInv, TypeInv', StreamInv, PhaseInv, AdmitInv, RestInv, NoClose,
                    LiveInv, [Next]_vars
             PROVE  LiveInv'
    OBVIOUS
<1>0. passID \in Nat /\ passID + 1 > passID
    BY LiveParts
<1>1. CASE Caller \/ ModelStep \/ UNCHANGED vars
    BY <1>1, LiveRests DEF Caller, Send, SendInterrupt, SendClose, ModelStep, ModelTake,
       ModelArm, ModelEmit, SessionTake, SessionRespond, vars, convVars, toolVars
<1>2. CASE ToolStep
    BY <1>2, TakeLive, StartLive, ReturnLive, EmitLive DEF ToolStep
<1>3. CASE Stop \/ TickModelError
    BY <1>3 DEF Stop, TickModelError, LiveInv
<1>4. CASE TickStaleModel \/ TickUserHeld
    BY <1>4, LiveRests DEF TickStaleModel, TickUserHeld, ReadUser, convVars, toolVars
<1>5. CASE TickModelPart \/ TickReasoningEnd
    <2>1. outstanding = 0
        BY <1>5, FreshModel DEF TickModelPart, TickReasoningEnd, ReadModel
    <2>2. UNCHANGED <<passID, toolInbox, toolOut, tool>>
        BY <1>5 DEF TickModelPart, TickReasoningEnd, ReadModel
    <2> QED
        BY <2>1, <2>2, SameTools, NoBatch
<1>6. CASE TickModelCalls
    BY <1>6, CallsLive
<1>7. CASE TickModelFinal
    <2>1. outstanding = 0
        BY <1>7, FreshModel DEF TickModelFinal, ReadModel
    <2>2. UNCHANGED <<toolInbox, toolOut, tool>> /\ (passID' = passID \/ passID' = passID + 1)
        BY <1>7 DEF TickModelFinal, ReadModel, DispatchInference
    <2> QED
        BY <1>0, <2>1, <2>2, SameTools, NoBatch, NewPass
<1>8. CASE TickStaleTool
    BY <1>8, StaleLive
<1>9. CASE TickToolPart
    BY <1>9, PartLive
<1>10. CASE TickToolEnd
    <2>1. passID' = passID + 1
        BY <1>10 DEF TickToolEnd, NextToolPass
    <2> QED
        BY <1>0, <1>10, <2>1, ToolPassesStay, NewPass
<1>11. CASE TickToolError
    BY <1>11, ErrorLive
<1>12. CASE TickUser \/ TickInterrupt
    <2>1. /\ passID' = passID + 1 /\ toolInbox' = toolInbox /\ toolOut' = toolOut
          /\ tool' = tool \/ CancelTool
        BY <1>12 DEF TickUser, TickInterrupt, ReadUser, DispatchInference
    <2> QED
        BY <1>0, <2>1, SameTools, NewPass
<1>13. ~TickClose
    <2>1. userOut # <<>> => Head(userOut) \in Elems(userOut)
        BY ElemsTail DEF TypeInv, UserTypes
    <2> QED
        BY <2>1 DEF TickClose, ReadUser, NoClose
<1> QED
    BY <1>1, <1>2, <1>3, <1>4, <1>5, <1>6, <1>7, <1>8, <1>9, <1>10, <1>11, <1>12, <1>13
    DEF Next, Tick

LEMMA Lives ==
    ASSUME ~Duplex, ~RepeatIDs
    PROVE  Spec => []LiveInv
<1>1. Init => LiveInv
    <2>1. Init => Over
        <3> SUFFICES ASSUME Init PROVE Over
            OBVIOUS
        <3>1. toolInbox = <<>> /\ toolOut \o tool.todo = <<>> /\ tool.pc = "idle"
            BY EmptyPath DEF Init, NoTool
        <3> QED
            BY <3>1, OnlyEmpty DEF Over, Ahead, Due, Working, BatchesOf, DeltasOf
    <2> QED
        BY <2>1 DEF LiveInv
<1>2. TypeInv /\ TypeInv' /\ StreamInv /\ PhaseInv /\ AdmitInv /\ RestInv /\ NoClose
      /\ LiveInv /\ [Next]_vars => LiveInv'
    BY NextLive
<1>3. Spec => [](RestInv /\ NoClose)
    BY Rests
<1>4. Spec => []PhaseInv
    BY Phases
<1>5. Spec => []AdmitInv
    BY Admits
<1> QED
    BY <1>1, <1>2, <1>3, <1>4, <1>5, Typed, Streams, PTL DEF Spec

-----------------------------------------------------------------------------
(* Results in history                                                      *)

ResultIds(h) == {m.id : m \in {x \in Elems(h) : IsResult(x)}}

(* Every result in h answers a call made before it, no two answer the      *)
(* same, and no message calls the same twice or both calls and answers.    *)
HistInv(h) ==
    /\ ResultIds(h) \subseteq CallsOf(h)
    /\ \A i, j \in DOMAIN h : i < j /\ IsResult(h[i]) => h[i].id \notin Elems(h[j].calls)
    /\ \A i, j \in DOMAIN h : IsResult(h[i]) /\ IsResult(h[j]) /\ h[i].id = h[j].id => i = j
    /\ \A m \in Elems(h) : Distinct(m.calls) /\ (IsResult(m) => m.calls = <<>>)

LEMMA ResultAt ==
    ASSUME NEW h \in Seq(Message)
    PROVE  /\ \A i \in 1..Len(h) : IsResult(h[i]) => h[i].id \in ResultIds(h)
           /\ \A c \in ResultIds(h) : \E i \in 1..Len(h) : IsResult(h[i]) /\ h[i].id = c
BY ElemsType DEF ResultIds, Elems

(* Messages that make no call join history, answering what was not yet     *)
(* answered, each call once.                                               *)
LEMMA HistGrows ==
    ASSUME NEW h \in Seq(Message), NEW k \in Seq(Message), HistInv(h),
           \A m \in Elems(k) : m.calls = <<>>,
           \A i \in 1..Len(k) : IsResult(k[i]) => k[i].id \in CallsOf(h) \ ResultIds(h),
           \A i, j \in 1..Len(k) : IsResult(k[i]) /\ IsResult(k[j]) /\ k[i].id = k[j].id => i = j
    PROVE  HistInv(h \o k)
<1> DEFINE x == h \o k
           n == Len(h)
           m == Len(k)
<1>1. /\ x \in Seq(Message) /\ Len(x) = n + m /\ n \in Nat /\ m \in Nat
      /\ \A i \in 1..n : x[i] = h[i]
      /\ \A i \in 1..m : x[n + i] = k[i]
    BY ConcatType
<1>2. /\ DOMAIN x = 1..(n + m) /\ DOMAIN h = 1..n
      /\ Elems(x) = Elems(h) \cup Elems(k) /\ CallsOf(x) = CallsOf(h)
    BY <1>1, ElemsConcat, PlainCalls
<1>3. \A i \in 1..n : i \in 1..(n + m)
    BY <1>1
<1>4. \A i \in 1..m : k[i] \in Elems(k) /\ k[i].calls = <<>>
    BY ElemsType
<1> HIDE DEF x, n, m
<1>5. \A i \in 1..(n + m) : i \in 1..n \/ (i > n /\ i - n \in 1..m /\ x[i] = k[i - n])
    <2> SUFFICES ASSUME NEW i \in 1..(n + m), i \notin 1..n
                 PROVE  i > n /\ i - n \in 1..m /\ x[i] = k[i - n]
        OBVIOUS
    <2>1. i > n /\ i - n \in 1..m /\ n + (i - n) = i
        BY <1>1
    <2>2. x[n + (i - n)] = k[i - n]
        BY <1>1, <2>1
    <2> QED
        BY <2>1, <2>2
<1>6. ResultIds(x) \subseteq CallsOf(x)
    <2> SUFFICES ASSUME NEW c \in ResultIds(x) PROVE c \in CallsOf(h)
        BY <1>2
    <2>1. PICK i \in 1..(n + m) : IsResult(x[i]) /\ x[i].id = c
        BY <1>1, <1>2, ResultAt
    <2>2. CASE i \in 1..n
        <3>1. c \in ResultIds(h)
            BY <1>1, <2>1, <2>2, ResultAt DEF n
        <3> QED
            BY <3>1 DEF HistInv
    <2>3. CASE i > n /\ i - n \in 1..m /\ x[i] = k[i - n]
        BY <2>1, <2>3 DEF m
    <2> QED
        BY <1>5, <2>2, <2>3
<1>7. ASSUME NEW i \in 1..(n + m), NEW j \in 1..(n + m), i < j, IsResult(x[i])
      PROVE  x[i].id \notin Elems(x[j].calls)
    <2>1. CASE j > n /\ j - n \in 1..m /\ x[j] = k[j - n]
        <3>1. x[j].calls = <<>>
            BY <1>4, <2>1
        <3> QED
            BY <3>1, ElemsSmall
    <2>2. CASE j \in 1..n
        <3>1. i \in 1..n
            BY <1>1, <1>7, <2>2
        <3>2. h[i].id \notin Elems(h[j].calls)
            BY <1>1, <1>2, <1>7, <2>2, <3>1 DEF HistInv
        <3> QED
            BY <1>1, <2>2, <3>1, <3>2
    <2> QED
        BY <1>5, <2>1, <2>2
<1>8. ASSUME NEW i \in 1..(n + m), NEW j \in 1..n, i > n, i - n \in 1..m, x[i] = k[i - n],
             IsResult(x[i]), IsResult(x[j])
      PROVE  x[i].id # x[j].id
    <2>1. x[j] = h[j] /\ h[j].id \in ResultIds(h)
        BY <1>1, <1>8, ResultAt DEF n
    <2>2. k[i - n].id \notin ResultIds(h)
        BY <1>8 DEF m
    <2> QED
        BY <1>8, <2>1, <2>2
<1>9. ASSUME NEW i \in 1..(n + m), NEW j \in 1..(n + m), IsResult(x[i]), IsResult(x[j]),
             x[i].id = x[j].id
      PROVE  i = j
    <2>1. CASE i \in 1..n /\ j \in 1..n
        BY <1>1, <1>2, <1>9, <2>1 DEF HistInv
    <2>2. CASE i \notin 1..n /\ j \in 1..n
        BY <1>5, <1>8, <1>9, <2>2
    <2>3. CASE i \in 1..n /\ j \notin 1..n
        BY <1>5, <1>8, <1>9, <2>3
    <2>4. CASE i \notin 1..n /\ j \notin 1..n
        <3>1. /\ i - n \in 1..m /\ x[i] = k[i - n]
              /\ j - n \in 1..m /\ x[j] = k[j - n]
            BY <1>5, <2>4
        <3>2. i - n = j - n
            BY <1>9, <3>1 DEF m
        <3> QED
            BY <1>1, <3>2
    <2> QED
        BY <2>1, <2>2, <2>3, <2>4
<1>10. \A y \in Elems(x) : Distinct(y.calls) /\ (IsResult(y) => y.calls = <<>>)
    <2>1. Distinct(<<>>)
        BY DEF Distinct
    <2> QED
        BY <1>2, <2>1 DEF HistInv
<1> QED
    BY <1>2, <1>6, <1>7, <1>9, <1>10 DEF HistInv, x

LEMMA HistPlain ==
    ASSUME NEW h \in Seq(Message), NEW k \in Seq(Message), HistInv(h), Plain(k)
    PROVE  HistInv(h \o k)
<1>1. \A i \in 1..Len(k) : k[i] \in Elems(k)
    BY ElemsType
<1>2. \A i \in 1..Len(k) : ~IsResult(k[i])
    BY <1>1 DEF Plain
<1>3. \A m \in Elems(k) : m.calls = <<>>
    BY DEF Plain
<1> QED
    BY <1>2, <1>3, HistGrows

(* The results of calls cs, in order.                                      *)
AnswersTo(k, cs) ==
    /\ Len(k) = Len(cs)
    /\ \A i \in 1..Len(cs) : IsResult(k[i]) /\ k[i].id = cs[i] /\ k[i].calls = <<>>

LEMMA HistAnswers ==
    ASSUME NEW h \in Seq(Message), NEW k \in Seq(Message), NEW cs \in Seq(CallId), HistInv(h),
           AnswersTo(k, cs), Distinct(cs), Elems(cs) \subseteq CallsOf(h) \ ResultIds(h)
    PROVE  HistInv(h \o k)
<1>1. /\ Len(k) = Len(cs)
      /\ \A i \in 1..Len(k) : IsResult(k[i]) /\ k[i].id = cs[i] /\ k[i].calls = <<>>
    BY DEF AnswersTo
<1>2. DOMAIN cs = 1..Len(k) /\ DOMAIN k = 1..Len(k)
    BY <1>1
<1>3. \A m \in Elems(k) : m.calls = <<>>
    BY <1>1, <1>2 DEF Elems
<1>4. \A i \in 1..Len(k) : k[i].id \in CallsOf(h) \ ResultIds(h)
    BY <1>1, <1>2 DEF Elems
<1>5. \A i, j \in 1..Len(k) : k[i].id = k[j].id => i = j
    BY <1>1, <1>2 DEF Distinct
<1> QED
    BY <1>3, <1>4, <1>5, HistGrows

LEMMA HistAsks ==
    ASSUME NEW h \in Seq(Message), NEW cs \in Seq(CallId), HistInv(h), Distinct(cs),
           Elems(cs) \cap CallsOf(h) = {}
    PROVE  /\ Append(h, Assistant(cs)) \in Seq(Message)
           /\ HistInv(Append(h, Assistant(cs)))
<1> DEFINE m == Assistant(cs)
           x == Append(h, m)
           n == Len(h)
<1>1. m \in Message /\ m.calls = cs /\ ~IsResult(m)
    BY MessageTypes DEF Assistant, IsResult
<1> HIDE DEF m
<1>2. /\ x \in Seq(Message) /\ Len(x) = n + 1 /\ n \in Nat
      /\ \A i \in 1..n : x[i] = h[i]
      /\ x[n + 1] = m
    BY <1>1, AppendType
<1>3. /\ DOMAIN x = 1..(n + 1) /\ DOMAIN h = 1..n /\ Elems(x) = Elems(h) \cup {m}
      /\ CallsOf(x) = CallsOf(h) \cup Elems(cs)
    BY <1>1, <1>2, ElemsAppend, CallsOfAppend
<1> HIDE DEF x, n
<1>4. \A i \in 1..(n + 1) : i \in 1..n \/ i = n + 1
    BY <1>2
<1>5. ResultIds(x) = ResultIds(h)
    BY <1>1, <1>3 DEF ResultIds
<1>6. ASSUME NEW i \in 1..(n + 1), NEW j \in 1..(n + 1), i < j, IsResult(x[i])
      PROVE  x[i].id \notin Elems(x[j].calls)
    <2>1. i \in 1..n
        BY <1>2, <1>6
    <2>2. CASE j \in 1..n
        BY <1>2, <1>3, <1>6, <2>1, <2>2 DEF HistInv
    <2>3. CASE j = n + 1
        <3>1. x[i] = h[i] /\ h[i].id \in ResultIds(h)
            BY <1>2, <1>6, <2>1, ResultAt DEF n
        <3>2. h[i].id \in CallsOf(h)
            BY <3>1 DEF HistInv
        <3> QED
            BY <1>1, <1>2, <2>3, <3>1, <3>2
    <2> QED
        BY <1>4, <2>2, <2>3
<1>7. ASSUME NEW i \in 1..(n + 1), NEW j \in 1..(n + 1), IsResult(x[i]), IsResult(x[j]),
             x[i].id = x[j].id
      PROVE  i = j
    <2>1. i \in 1..n /\ j \in 1..n
        BY <1>1, <1>2, <1>4, <1>7
    <2> QED
        BY <1>2, <1>3, <1>7, <2>1 DEF HistInv
<1>8. \A y \in Elems(x) : Distinct(y.calls) /\ (IsResult(y) => y.calls = <<>>)
    BY <1>1, <1>3 DEF HistInv
<1>9. HistInv(x)
    BY <1>3, <1>5, <1>6, <1>7, <1>8 DEF HistInv
<1> QED
    BY <1>2, <1>9 DEF x, m

(* What cancelledToolResults returns, unless nothing: cancelled results    *)
(* for the calls of the latest message l with calls that no message after  *)
(* it answers.                                                             *)
Cancels(h, l, left) ==
    /\ h[l].calls # <<>> /\ h[l].calls \in Seq(CallId)
    /\ \A j \in 1..Len(h) : j > l => h[j].calls = <<>>
    /\ Elems(left) = {c \in Elems(h[l].calls) :
                        \A j \in 1..Len(h) : j > l /\ IsResult(h[j]) => h[j].id # c}
    /\ Distinct(h[l].calls) => Distinct(left)
    /\ AnswersTo(CancelledResults(h), left)
    /\ \A i \in 1..Len(left) : CancelledResults(h)[i] = Cancelled(left[i])

LEMMA CancelledShape ==
    ASSUME NEW h \in Seq(Message)
    PROVE  \/ CancelledResults(h) = <<>>
           \/ \E l \in 1..Len(h), left \in Seq(CallId) : Cancels(h, l, left)
<1> DEFINE calling == {i \in DOMAIN h : h[i].calls # <<>>}
           latest == CHOOSE i \in calling : \A j \in calling : j <= i
           after == SubSeq(h, latest + 1, Len(h))
           done == {m.id : m \in {x \in Elems(after) : IsResult(x)}}
           left == Only(h[latest].calls, Elems(h[latest].calls) \ done)
<1>1. CASE calling = {} \/ \E m \in Elems(after) : IsUser(m)
    <2>1. CancelledResults(h) = <<>>
        BY <1>1 DEF CancelledResults
    <2> QED
        BY <2>1
<1>2. CASE calling # {} /\ ~ \E m \in Elems(after) : IsUser(m)
    <2>0. Len(h) \in Nat /\ calling \in SUBSET (1..Len(h)) /\ calling # {}
        BY <1>2
    <2>1. latest \in calling /\ \A j \in calling : j <= latest
        <3> HIDE DEF calling
        <3> QED
            BY <2>0, LatestExists
    <2>2. h[latest].calls \in Seq(CallId)
        <3> HIDE DEF latest
        <3>1. h[latest] \in Message
            BY <2>1
        <3> QED
            BY <3>1 DEF Message, CallId
    <2>3. /\ left \in Seq(CallId) /\ Elems(left) = Elems(h[latest].calls) \ done
          /\ Distinct(h[latest].calls) => Distinct(left)
        <3> HIDE DEF latest, done
        <3>1. left \in Seq(CallId) /\ (Distinct(h[latest].calls) => Distinct(left))
            BY <2>2, OnlyType, OnlyDistinct
        <3>2. Elems(left) = Elems(h[latest].calls) \cap (Elems(h[latest].calls) \ done)
            BY <2>2, OnlyElems
        <3> QED
            BY <3>1, <3>2
    <2>4. CancelledResults(h) = [i \in DOMAIN left |-> Cancelled(left[i])]
        BY <1>2 DEF CancelledResults, Map
    <2>5. latest \in 1..Len(h) /\ h[latest].calls # <<>>
        <3> HIDE DEF latest
        <3> QED
            BY <2>0, <2>1
    <2>6. \A j \in 1..Len(h) : j > latest => h[j].calls = <<>>
        <3> HIDE DEF latest
        <3>1. \A j \in 1..Len(h) : h[j].calls # <<>> => j \in calling
            OBVIOUS
        <3> HIDE DEF calling
        <3> QED
            BY <2>0, <2>1, <2>5, <3>1
    <2>7. done = {h[j].id : j \in {i \in 1..Len(h) : i > latest /\ IsResult(h[i])}}
        <3> HIDE DEF latest
        <3>1. /\ Len(after) = Len(h) - latest
              /\ \A i \in 1..(Len(h) - latest) : after[i] = h[latest + i]
            BY <2>0, <2>5
        <3>2. DOMAIN after = 1..(Len(h) - latest)
            BY <2>0, <2>5
        <3> HIDE DEF after
        <3>3. Elems(after) = {h[j] : j \in {i \in 1..Len(h) : i > latest}}
            <4>1. ASSUME NEW i \in 1..(Len(h) - latest)
                  PROVE  after[i] \in {h[j] : j \in {k \in 1..Len(h) : k > latest}}
                <5>1. latest + i \in 1..Len(h) /\ latest + i > latest
                    BY <2>0, <2>5
                <5> QED
                    BY <3>1, <5>1
            <4>2. ASSUME NEW j \in 1..Len(h), j > latest
                  PROVE  \E i \in 1..(Len(h) - latest) : h[j] = after[i]
                <5>1. j - latest \in 1..(Len(h) - latest) /\ latest + (j - latest) = j
                    BY <2>0, <2>5, <4>2
                <5>2. after[j - latest] = h[latest + (j - latest)]
                    BY <3>1, <5>1
                <5> QED
                    BY <5>1, <5>2
            <4> QED
                BY <3>2, <4>1, <4>2 DEF Elems
        <3> QED
            BY <3>3
    <2> HIDE DEF left, done, after, latest, calling
    <2>8. Elems(left) = {c \in Elems(h[latest].calls) :
                           \A j \in 1..Len(h) : j > latest /\ IsResult(h[j]) => h[j].id # c}
        BY <2>3, <2>7
    <2>9. DOMAIN left = 1..Len(left) /\ Len(left) \in Nat
        BY <2>3
    <2>10. \A i \in 1..Len(left) : CancelledResults(h)[i] = Cancelled(left[i])
        BY <2>4, <2>9
    <2>11. AnswersTo(CancelledResults(h), left)
        <3>1. Len(CancelledResults(h)) = Len(left)
            BY <2>4, <2>9
        <3>2. \A c : IsResult(Cancelled(c)) /\ Cancelled(c).id = c /\ Cancelled(c).calls = <<>>
            BY DEF IsResult, Cancelled
        <3> QED
            BY <2>10, <3>1, <3>2 DEF AnswersTo
    <2>12. Cancels(h, latest, left)
        BY <2>2, <2>3, <2>5, <2>6, <2>8, <2>10, <2>11 DEF Cancels
    <2> QED
        BY <2>3, <2>5, <2>12
<1> QED
    BY <1>1, <1>2

(* When the last message makes calls, it cancels them all.                 *)
LEMMA CancelledLast ==
    ASSUME NEW h \in Seq(Message), h # <<>>, h[Len(h)].calls # <<>>
    PROVE  LET cs == h[Len(h)].calls
           IN  /\ cs \in Seq(CallId) /\ AnswersTo(CancelledResults(h), cs)
               /\ \A i \in 1..Len(cs) : CancelledResults(h)[i] = Cancelled(cs[i])
<1> DEFINE n == Len(h)
           cs == h[n].calls
           calling == {i \in DOMAIN h : h[i].calls # <<>>}
           latest == CHOOSE i \in calling : \A j \in calling : j <= i
           after == SubSeq(h, latest + 1, Len(h))
           done == {m.id : m \in {x \in Elems(after) : IsResult(x)}}
           left == Only(h[latest].calls, Elems(h[latest].calls) \ done)
<1>1. n \in Nat /\ n \in 1..n /\ n \in calling /\ calling \in SUBSET (1..n)
    BY EmptySeq
<1>2. latest = n
    <2>1. latest \in calling /\ \A j \in calling : j <= latest
        <3> HIDE DEF calling
        <3>1. calling # {}
            BY <1>1
        <3> HIDE DEF n
        <3> QED
            BY <1>1, <3>1, LatestExists
    <2> HIDE DEF latest, calling
    <2> QED
        BY <1>1, <2>1
<1> HIDE DEF latest
<1>3. cs \in Seq(CallId)
    <2>1. h[n] \in Message
        BY <1>1
    <2> QED
        BY <2>1 DEF Message, CallId
<1>4. after = <<>>
    BY <1>1, <1>2
<1>5. Elems(after) = {} /\ done = {}
    <2>1. Elems(after) = {}
        BY <1>4, ElemsSmall
    <2> HIDE DEF after
    <2> QED
        BY <2>1
<1>6. left = cs
    <2>1. Elems(cs) \ done = Elems(cs)
        BY <1>5
    <2> HIDE DEF done, n
    <2>2. left = Only(cs, Elems(cs))
        BY <1>2, <2>1
    <2>3. Only(cs, Elems(cs)) = cs
        BY <1>3, OnlyAll
    <2> QED
        BY <2>2, <2>3
<1>7. CancelledResults(h) = [i \in DOMAIN left |-> Cancelled(left[i])]
    <2>1. calling # {}
        BY <1>1
    <2>2. ~ \E m \in Elems(after) : IsUser(m)
        BY <1>5
    <2> QED
        BY <2>1, <2>2 DEF CancelledResults, Map, latest
<1> HIDE DEF left, after, done, calling, cs
<1>8. CancelledResults(h) = [i \in DOMAIN cs |-> Cancelled(cs[i])]
    BY <1>6, <1>7
<1>9. DOMAIN cs = 1..Len(cs) /\ Len(cs) \in Nat
    BY <1>3
<1>10. \A i \in 1..Len(cs) : CancelledResults(h)[i] = Cancelled(cs[i])
    BY <1>8, <1>9
<1>11. AnswersTo(CancelledResults(h), cs)
    <2>1. Len(CancelledResults(h)) = Len(cs)
        BY <1>8, <1>9
    <2>2. \A c : IsResult(Cancelled(c)) /\ Cancelled(c).id = c /\ Cancelled(c).calls = <<>>
        BY DEF IsResult, Cancelled
    <2> QED
        BY <1>10, <2>1, <2>2 DEF AnswersTo
<1> QED
    BY <1>3, <1>10, <1>11 DEF cs, n

LEMMA HistCancels ==
    ASSUME NEW h \in Seq(Message), HistInv(h)
    PROVE  HistInv(h \o CancelledResults(h))
<1> DEFINE k == CancelledResults(h)
<1>0. k \in Seq(Message)
    BY CancelledType
<1>1. CASE k = <<>>
    <2>1. h \o k = h
        BY <1>1, EmptySides
    <2> QED
        BY <2>1
<1>2. CASE \E l \in 1..Len(h), left \in Seq(CallId) : Cancels(h, l, left)
    <2>1. PICK l \in 1..Len(h), left \in Seq(CallId) : Cancels(h, l, left)
        BY <1>2
    <2>2. h[l] \in Elems(h) /\ Len(h) \in Nat
        BY ElemsType
    <2>3. /\ Distinct(left) /\ AnswersTo(k, left) /\ h[l].calls # <<>> /\ ~IsResult(h[l])
          /\ Elems(left) = {c \in Elems(h[l].calls) :
                              \A j \in 1..Len(h) : j > l /\ IsResult(h[j]) => h[j].id # c}
        BY <2>1, <2>2 DEF Cancels, HistInv
    <2>4. Elems(left) \subseteq CallsOf(h)
        BY <2>2, <2>3 DEF CallsOf
    <2>5. ASSUME NEW c \in Elems(left), c \in ResultIds(h) PROVE FALSE
        <3>1. PICK i \in 1..Len(h) : IsResult(h[i]) /\ h[i].id = c
            BY <2>5, ResultAt
        <3>2. c \in Elems(h[l].calls) /\ ~(i > l)
            BY <2>3, <3>1
        <3>3. i # l
            BY <2>3, <3>1
        <3>4. i < l
            BY <2>2, <3>2, <3>3
        <3>5. i \in DOMAIN h /\ l \in DOMAIN h
            OBVIOUS
        <3>6. h[i].id \notin Elems(h[l].calls)
            BY <3>1, <3>4, <3>5 DEF HistInv
        <3> QED
            BY <3>1, <3>2, <3>6
    <2>6. Elems(left) \subseteq CallsOf(h) \ ResultIds(h)
        BY <2>4, <2>5
    <2> HIDE DEF k
    <2> QED
        BY <1>0, <2>3, <2>6, HistAnswers DEF k
<1> QED
    BY <1>1, <1>2, CancelledShape

HistOK == HistInv(hist)

LEMMA WindowFresh ==
    ASSUME TypeInv, FreshInv
    PROVE  /\ CallsIn(window) \in Seq(CallId) /\ Distinct(CallsIn(window))
           /\ Elems(CallsIn(window)) \cap CallsOf(hist) = {}
<1> DEFINE W == CallsIn(window)
           M == CallsIn(modelOut)
           T == CallsIn(model.todo)
           r == M \o T
<1>1. /\ W \in Seq(CallId) /\ M \in Seq(CallId) /\ T \in Seq(CallId)
      /\ CallsIn(Stream) = W \o r
    BY StreamCalls
<1> HIDE DEF W, M, T
<1>2. r \in Seq(CallId)
    BY <1>1, ConcatType
<1> HIDE DEF r
<1>3. Distinct(W) /\ Elems(W) \subseteq Elems(CallsIn(Stream))
    <2>1. Distinct(W \o r)
        BY <1>1 DEF FreshInv
    <2> QED
        BY <1>1, <1>2, <2>1, DistinctParts, ElemsConcat
<1> QED
    BY <1>1, <1>3 DEF FreshInv, W

(* The window of a whole batch answers its calls.                          *)
LEMMA BatchAnswers ==
    ASSUME TypeInv, toolWin = Notes(passID, Asked)
    PROVE  LET rs == Map(LAMBDA d : Result(d.call), toolWin)
           IN  /\ rs \in Seq(Message) /\ AnswersTo(rs, Asked)
               /\ \A i \in 1..Len(Asked) : rs[i].role = "tool"
<1> DEFINE rs == Map(LAMBDA d : Result(d.call), toolWin)
<1>1. /\ rs \in Seq(Message) /\ Len(rs) = Len(toolWin)
      /\ \A i \in 1..Len(toolWin) : rs[i] = Result(toolWin[i].call)
    BY BatchMessages DEF TypeInv
<1>2. passID \in Nat /\ Asked \in Seq(CallId)
    BY LiveParts
<1>3. /\ Len(toolWin) = Len(Asked)
      /\ \A i \in 1..Len(Asked) : toolWin[i] = Note(passID, "result", Asked[i])
    BY <1>2, ClosingType
<1> HIDE DEF rs
<1>4. \A c : /\ IsResult(Result(c)) /\ Result(c).id = c /\ Result(c).calls = <<>>
             /\ Result(c).role = "tool"
    BY DEF IsResult, Result
<1>5. \A i \in 1..Len(Asked) : toolWin[i].call = Asked[i]
    <2>1. \A c : Note(passID, "result", c).call = c
        BY DEF Note
    <2> QED
        BY <1>3, <2>1
<1>6. \A i \in 1..Len(Asked) : rs[i] = Result(Asked[i])
    BY <1>1, <1>3, <1>5
<1>7. AnswersTo(rs, Asked)
    BY <1>1, <1>3, <1>4, <1>6 DEF AnswersTo
<1> QED
    BY <1>1, <1>4, <1>6, <1>7 DEF rs

LEMMA SavedHist ==
    ASSUME TypeInv, FreshInv, HistOK
    PROVE  HistInv(hist \o Partial)
<1> DEFINE cs == CallsIn(window)
<1>1. hist \in Seq(Message) /\ cs \in Seq(CallId)
    BY WindowFresh DEF TypeInv, ConvTypes
<1>2. Distinct(cs) /\ Elems(cs) \cap CallsOf(hist) = {}
    BY WindowFresh
<1>3. Partial = <<>> \/ Partial = <<Assistant(cs)>>
    BY DEF Partial
<1> HIDE DEF cs
<1>4. CASE Partial = <<>>
    <2>1. hist \o Partial = hist
        BY <1>1, <1>4, EmptySides
    <2> QED
        BY <2>1 DEF HistOK
<1>5. CASE Partial = <<Assistant(cs)>>
    <2>1. Assistant(cs) \in Message
        BY <1>1, MessageTypes
    <2>2. hist \o <<Assistant(cs)>> = Append(hist, Assistant(cs))
        BY <1>1, <2>1
    <2> QED
        BY <1>1, <1>2, <1>5, <2>2, HistAsks DEF HistOK
<1> QED
    BY <1>3, <1>4, <1>5

LEMMA NextHist ==
    ASSUME ~Duplex
    PROVE  /\ TypeInv /\ HeldPlain /\ FreshInv /\ PhaseInv /\ LiveInv /\ HistOK /\ [Next]_vars
           => HistOK'
<1> SUFFICES ASSUME TypeInv, HeldPlain, FreshInv, PhaseInv, LiveInv, HistOK, [Next]_vars
             PROVE  HistInv(hist')
    BY DEF HistOK
<1>0. hist \in Seq(Message) /\ HistInv(hist)
    BY DEF TypeInv, ConvTypes, HistOK
<1>1. CASE ~Talking
    <2>1. PICK k \in Seq(Message) : Plain(k) /\ hist' = hist \o k
        BY <1>1, PlainSteps
    <2> QED
        BY <1>0, <2>1, HistPlain
<1>2. CASE TickModelCalls
    <2> DEFINE cs == CallsIn(window)
    <2>1. hist' = Append(hist, Assistant(cs))
        BY <1>2 DEF TickModelCalls, KeepHeld
    <2>2. cs \in Seq(CallId) /\ Distinct(cs) /\ Elems(cs) \cap CallsOf(hist) = {}
        BY WindowFresh
    <2> HIDE DEF cs
    <2> QED
        BY <1>0, <2>1, <2>2, HistAsks
<1>3. CASE TickToolEnd
    <2> DEFINE rs == Map(LAMBDA d : Result(d.call), toolWin)
               h == hist \o rs
    <2>1. PICK k \in Seq(Message) : Plain(k) /\ hist' = h \o k
        BY <1>3, ToolEndHist
    <2>2. /\ engine = "running" /\ toolOut # <<>> /\ ~Stale(Head(toolOut))
          /\ Head(toolOut).kind = "end"
        BY <1>3 DEF TickToolEnd, ReadTool, Ticking
    <2>3. toolWin = Notes(passID, Asked) /\ LastAsks
        BY <2>2, Arrives
    <2>4. rs \in Seq(Message) /\ AnswersTo(rs, Asked)
        BY <2>3, BatchAnswers
    <2> HIDE DEF rs
    <2>5. Asked \in Seq(CallId) /\ Distinct(Asked) /\ Elems(Asked) \subseteq CallsOf(hist) \ ResultIds(hist)
        <3> DEFINE n == Len(hist)
        <3>1. n \in 1..n /\ n \in Nat /\ DOMAIN hist = 1..n
            BY <1>0, <2>3, EmptySeq DEF LastAsks
        <3>2. hist[n].calls = Asked /\ Asked # <<>> /\ ~IsResult(hist[n]) /\ hist[n] \in Elems(hist)
            BY <1>0, <2>3, <3>1, ElemsType DEF LastAsks, Assistant, IsResult
        <3>3. Asked \in Seq(CallId)
            BY LiveParts
        <3>4. Distinct(Asked) /\ Elems(Asked) \subseteq CallsOf(hist)
            BY <1>0, <3>2 DEF HistInv, CallsOf
        <3>5. ASSUME NEW c \in Elems(Asked), c \in ResultIds(hist) PROVE FALSE
            <4>1. PICK i \in 1..n : IsResult(hist[i]) /\ hist[i].id = c
                BY <1>0, <3>5, ResultAt
            <4>2. i # n
                <5> SUFFICES ASSUME i = n PROVE FALSE
                    OBVIOUS
                <5>1. IsResult(hist[n])
                    BY <4>1
                <5> HIDE DEF n
                <5> QED
                    BY <3>2, <5>1
            <4>3. i < n
                <5> HIDE DEF n
                <5> QED
                    BY <3>1, <4>2
            <4>4. c \notin Elems(hist[n].calls)
                BY <1>0, <3>1, <4>1, <4>3 DEF HistInv
            <4> QED
                BY <3>2, <3>5, <4>4
        <3> QED
            BY <3>3, <3>4, <3>5
    <2>6. h \in Seq(Message) /\ HistInv(h)
        BY <1>0, <2>4, <2>5, ConcatType, HistAnswers
    <2> HIDE DEF h
    <2> QED
        BY <2>1, <2>6, HistPlain
<1>4. CASE TickInterrupt
    <2> DEFINE saved == hist \o Partial
               results == CancelledResults(saved)
               x == saved \o results
    <2>1. /\ saved \in Seq(Message) /\ results \in Seq(Message)
          /\ \E k \in Seq(Message) : Plain(k) /\ hist' = x \o k
        BY <1>4, InterruptHist
    <2>2. PICK k \in Seq(Message) : Plain(k) /\ hist' = x \o k
        BY <2>1
    <2>3. HistInv(saved)
        BY SavedHist
    <2> HIDE DEF saved
    <2>4. HistInv(x)
        BY <2>1, <2>3, HistCancels
    <2> HIDE DEF results
    <2>5. x \in Seq(Message)
        BY <2>1, ConcatType
    <2> HIDE DEF x
    <2> QED
        BY <2>2, <2>4, <2>5, HistPlain
<1> QED
    BY <1>1, <1>2, <1>3, <1>4 DEF Talking

LEMMA Hists ==
    ASSUME ~Duplex, ~RepeatIDs
    PROVE  Spec => []HistOK
<1>1. Init => HistOK
    <2>1. Init => hist = <<>>
        BY DEF Init
    <2>2. Elems(<<>>) = {}
        BY ElemsSmall
    <2>3. HistInv(<<>>)
        <3>1. ResultIds(<<>>) = {} /\ \A m \in Elems(<<>>) : FALSE
            BY <2>2 DEF ResultIds
        <3>2. \A i \in DOMAIN <<>> : FALSE
            OBVIOUS
        <3> QED
            BY <3>1, <3>2 DEF HistInv
    <2> QED
        BY <2>1, <2>3 DEF HistOK
<1>2. TypeInv /\ HeldPlain /\ FreshInv /\ PhaseInv /\ LiveInv /\ HistOK /\ [Next]_vars => HistOK'
    BY NextHist
<1>3. Spec => []PhaseInv
    BY Phases
<1>4. Spec => []FreshInv
    BY Freshs
<1>5. Spec => []LiveInv
    BY Lives
<1> QED
    BY <1>1, <1>2, <1>3, <1>4, <1>5, Typed, HeldsPlain, PTL DEF Spec

(* In a turn-based loop whose provider does not reuse call IDs, history    *)
(* never holds two results for one call, however interrupts, failing tools *)
(* and late batches interleave.                                            *)
THEOREM OneAnswer ==
    ASSUME ~Duplex, ~RepeatIDs
    PROVE  Spec => []OneResultPerCall
<1>1. HistOK => OneResultPerCall
    BY DEF HistOK, HistInv, OneResultPerCall
<1>2. Spec => []HistOK
    BY Hists
<1> QED
    BY <1>1, <1>2, PTL

-----------------------------------------------------------------------------
(* Batches of superseded passes                                            *)

(* The tool runner has or had to run call c in a batch of pass p.          *)
Carries(p, c) ==
    \/ \E b \in Elems(toolInbox) : b.pass = p /\ c \in Elems(b.calls)
    \/ tool.pc \in {"taken", "run"} /\ tool.pass = p /\ c \in Elems(tool.calls)
    \/ \E d \in Elems(toolOut) \cup Elems(tool.todo) :
          d.kind = "result" /\ d.pass = p /\ d.call = c

(* Whatever of a superseded pass is still under way has its cancelled      *)
(* results in history.                                                     *)
StaleInv ==
    engine = "running" =>
        \A p \in Nat, c \in CallId : p < passID /\ Carries(p, c) => c \in CancelledIn(hist)

LEMMA CarriedPass ==
    ASSUME NEW p, NEW c, Carries(p, c)
    PROVE  p \in ToolPasses
BY DEF Carries, ToolPasses

LEMMA ClosingCalls ==
    ASSUME NEW p \in Nat, NEW cs \in Seq(CallId)
    PROVE  /\ \A d \in Elems(Closing(p, cs)) : d.kind = "result" => d.call \in Elems(cs)
           /\ \A d \in Elems(Opening(p, cs)) : d.kind = "result" => d.call \in Elems(cs)
<1> DEFINE x == Closing(p, cs)
           y == Opening(p, cs)
<1>1. /\ x \in Seq(TDelta) /\ Len(x) = Len(cs) + 1
      /\ \A i \in 1..Len(cs) : x[i] = Note(p, "result", cs[i])
      /\ x[Len(cs) + 1] = Note(p, "end", 0)
    BY ClosingType
<1>2. /\ y \in Seq(TDelta) /\ y # <<>> /\ Head(y) = Note(p, "start", 0) /\ Tail(y) = x
    BY OpeningType
<1> HIDE DEF x, y
<1>3. \A c : /\ Note(p, "result", c).call = c /\ Note(p, "end", c).kind = "end"
             /\ Note(p, "start", c).kind = "start"
    BY DEF Note
<1>4. \A i \in 1..Len(cs) : cs[i] \in Elems(cs)
    BY ElemsType
<1>5. DOMAIN x = 1..(Len(cs) + 1) /\ Len(cs) \in Nat
    BY <1>1
<1>6. \A d \in Elems(x) : d.kind = "result" => d.call \in Elems(cs)
    <2> SUFFICES ASSUME NEW i \in 1..(Len(cs) + 1), x[i].kind = "result"
                 PROVE  x[i].call \in Elems(cs)
        BY <1>5 DEF Elems
    <2>1. i # Len(cs) + 1
        BY <1>1, <1>3
    <2>2. i \in 1..Len(cs)
        BY <1>5, <2>1
    <2> QED
        BY <1>1, <1>3, <1>4, <2>2
<1>7. Elems(y) = {Head(y)} \cup Elems(x)
    BY <1>2, ElemsTail
<1> QED
    BY <1>2, <1>3, <1>6, <1>7 DEF x, y

(* What is under way in the current pass is what the last message asks.    *)
LEMMA LiveCarries ==
    ASSUME TypeInv, LiveInv, engine = "running", NEW c, Carries(passID, c)
    PROVE  LastAsks /\ c \in Elems(Asked)
<1> DEFINE q == toolOut \o tool.todo
<1>1. /\ toolInbox \in Seq(ToolBatch) /\ q \in Seq(TDelta)
      /\ Elems(q) = Elems(toolOut) \cup Elems(tool.todo)
      /\ toolWin \in Seq(TDelta) /\ passID \in Nat /\ Asked \in Seq(CallId)
    BY LiveParts
<1>2. CASE \E b \in Elems(toolInbox) : b.pass = passID /\ c \in Elems(b.calls)
    <2>1. PICK b \in Elems(toolInbox) : b.pass = passID /\ c \in Elems(b.calls)
        BY <1>2
    <2>2. b \in Elems(Ahead)
        BY <1>1, <2>1, BatchesType DEF Ahead
    <2>3. Ahead # <<>>
        BY <2>2, ElemsSmall
    <2>4. LastAsks /\ Ahead = <<[pass |-> passID, calls |-> Asked]>>
        BY <2>3 DEF LiveInv, Over, Waits, Works, Fails, Reports
    <2>5. b = [pass |-> passID, calls |-> Asked]
        BY <2>2, <2>4, ElemsSmall
    <2> QED
        BY <2>1, <2>4, <2>5
<1>3. CASE tool.pc \in {"taken", "run"} /\ tool.pass = passID /\ c \in Elems(tool.calls)
    <2>1. Working
        BY <1>3 DEF Working
    <2>2. LastAsks /\ Works
        BY <2>1 DEF LiveInv, Over, Waits, Fails, Reports
    <2> QED
        BY <1>3, <2>2 DEF Works
<1>4. CASE \E d \in Elems(toolOut) \cup Elems(tool.todo) :
              d.kind = "result" /\ d.pass = passID /\ d.call = c
    <2>1. PICK d \in Elems(q) : d.kind = "result" /\ d.pass = passID /\ d.call = c
        BY <1>1, <1>4
    <2>2. Due = DeltasOf(q, passID)
        BY DEF Due
    <2> HIDE DEF q
    <2>3. d \in Elems(Due) /\ Due \in Seq(TDelta)
        BY <1>1, <2>1, <2>2, DeltasType
    <2>4. Due # <<>>
        BY <2>3, ElemsSmall
    <2>5. LastAsks /\ (Fails \/ Reports)
        BY <2>4 DEF LiveInv, Over, Waits, Works
    <2> HIDE DEF Due
    <2>6. ~Fails
        <3> SUFFICES ASSUME Fails PROVE FALSE
            OBVIOUS
        <3>1. Elems(Due) = {Note(passID, "err", 0)}
            BY ElemsSmall DEF Fails
        <3> QED
            BY <2>1, <2>3, <3>1 DEF Note
    <2>7. CASE Due = Opening(passID, Asked)
        BY <1>1, <2>1, <2>3, <2>5, <2>7, ClosingCalls
    <2>8. CASE toolWin \o Due = Closing(passID, Asked)
        <3>1. Elems(toolWin \o Due) = Elems(toolWin) \cup Elems(Due)
            BY <1>1, <2>3, ElemsConcat
        <3>2. d \in Elems(Closing(passID, Asked))
            BY <2>3, <2>8, <3>1
        <3> QED
            BY <1>1, <2>1, <2>5, <3>2, ClosingCalls
    <2> QED
        BY <2>5, <2>6, <2>7, <2>8 DEF Reports
<1> QED
    BY <1>2, <1>3, <1>4 DEF Carries

(* Outside the tick that starts a batch, no call comes under way.          *)
LEMMA CarriesFewer ==
    ASSUME TypeInv, [Next]_vars, ~TickModelCalls, NEW p, NEW c, Carries(p, c)'
    PROVE  Carries(p, c)
<1>0. /\ toolInbox \in Seq(ToolBatch) /\ toolOut \in Seq(TDelta)
      /\ tool \in [pc : {"idle", "taken", "run", "emit"}, pass : Nat,
                   calls : Seq(CallId), todo : Seq(TDelta), cancelled : BOOLEAN]
      /\ tool.todo \in Seq(TDelta) /\ tool.calls \in Seq(CallId)
    BY LiveParts
<1>1. Elems(<<>>) = {} /\ NoTool.pc = "idle" /\ NoTool.todo = <<>>
    BY ElemsSmall DEF NoTool
<1>2. ASSUME Elems(toolInbox') \subseteq Elems(toolInbox),
             Elems(toolOut') \cup Elems(tool'.todo) \subseteq Elems(toolOut) \cup Elems(tool.todo),
             \/ tool'.pc \notin {"taken", "run"}
             \/ /\ tool.pc \in {"taken", "run"} /\ tool'.pass = tool.pass
                /\ Elems(tool'.calls) \subseteq Elems(tool.calls)
      PROVE  Carries(p, c)
    BY <1>2 DEF Carries
<1>3. CASE ToolTake
    <2> DEFINE b == Head(toolInbox)
    <2>1. /\ toolInbox # <<>> /\ toolInbox' = Tail(toolInbox) /\ toolOut' = toolOut
          /\ tool'.calls = b.calls /\ tool'.pass = b.pass /\ tool'.todo = <<>>
        BY <1>3 DEF ToolTake, NoTool
    <2>2. Elems(Tail(toolInbox)) \subseteq Elems(toolInbox) /\ b \in Elems(toolInbox)
        BY <1>0, <2>1, ElemsTail
    <2> HIDE DEF b
    <2> QED
        BY <1>1, <2>1, <2>2 DEF Carries
<1>4. CASE ToolStart
    <2> DEFINE calls == AdmitCalls(tool.calls)
    <2>1. /\ UNCHANGED <<toolInbox, toolOut>> /\ tool.pc = "taken"
          /\ tool' = IF calls = <<>> THEN NoTool
                     ELSE [tool EXCEPT !.pc = "run", !.calls = calls]
        BY <1>4 DEF ToolStart
    <2>2. Elems(calls) \subseteq Elems(tool.calls)
        BY <1>0, OnlyElems DEF AdmitCalls
    <2> HIDE DEF calls
    <2>3. CASE calls = <<>>
        BY <1>1, <1>2, <2>1, <2>3
    <2>4. CASE calls # <<>>
        <3>1. tool'.pass = tool.pass /\ tool'.calls = calls /\ tool'.todo = tool.todo
            BY <1>0, <2>1, <2>4
        <3> QED
            BY <1>2, <2>1, <2>2, <3>1
    <2> QED
        BY <2>3, <2>4
<1>5. CASE ToolReturn
    <2> DEFINE t == Opening(tool.pass, tool.calls)
    <2>1. /\ UNCHANGED <<toolInbox, toolOut>> /\ tool.pc = "run"
          /\ tool' = [tool EXCEPT !.pc = "emit", !.todo = t]
        BY <1>5, ReturnOpens DEF ToolReturn
    <2>2. /\ \A d \in Elems(t) : d.kind = "result" => d.call \in Elems(tool.calls)
          /\ \A d \in Elems(t) : d.pass = tool.pass
        BY <1>0, ClosingCalls, OpeningType
    <2> HIDE DEF t
    <2>3. tool'.pc = "emit" /\ tool'.todo = t
        BY <1>0, <2>1
    <2> QED
        BY <2>1, <2>2, <2>3 DEF Carries
<1>6. CASE ToolFail
    <2> DEFINE e == ToolDelta("err", 0)
    <2>1. /\ UNCHANGED <<toolInbox, toolOut>>
          /\ tool' = [tool EXCEPT !.pc = "emit", !.todo = <<e>>]
        BY <1>6 DEF ToolFail
    <2>2. e.kind # "result" /\ Elems(<<e>>) = {e}
        BY ElemsSmall DEF ToolDelta
    <2> HIDE DEF e
    <2>3. tool'.pc = "emit" /\ tool'.todo = <<e>>
        BY <1>0, <2>1
    <2> QED
        BY <2>1, <2>2, <2>3 DEF Carries
<1>7. CASE ToolEmit
    <2> DEFINE td == tool.todo
    <2>1. /\ toolInbox' = toolInbox /\ toolOut' = Append(toolOut, Head(td)) /\ tool.pc = "emit"
          /\ tool' = NoTool \/ tool' = [tool EXCEPT !.todo = Tail(td)]
        BY <1>7 DEF ToolEmit
    <2>2. td # <<>> /\ td \in Seq(TDelta)
        BY <1>0, <2>1 DEF TypeInv, ToolTypes
    <2>3. tool'.todo \in {<<>>, Tail(td)} /\ tool'.pc \notin {"taken", "run"}
        BY <1>0, <1>1, <2>1
    <2> HIDE DEF td
    <2>4. Elems(td) = {Head(td)} \cup Elems(Tail(td)) /\ Head(td) \in TDelta
        BY <2>2, ElemsTail, TailType
    <2>5. Elems(toolOut') = Elems(toolOut) \cup {Head(td)}
        BY <1>0, <2>1, <2>4, ElemsAppend
    <2>6. Elems(toolOut') \cup Elems(tool'.todo) \subseteq Elems(toolOut) \cup Elems(td)
        BY <1>1, <2>3, <2>4, <2>5
    <2> QED
        BY <1>2, <2>1, <2>3, <2>6 DEF td
<1>8. CASE TickStaleTool \/ TickToolPart \/ TickToolEnd \/ TickToolError
    <2>1. /\ UNCHANGED <<toolInbox, tool>> /\ toolOut # <<>> /\ toolOut' = Tail(toolOut)
        BY <1>8 DEF TickStaleTool, TickToolPart, TickToolEnd, TickToolError, ReadTool
    <2>2. Elems(toolOut') \subseteq Elems(toolOut)
        BY <1>0, <2>1, ElemsTail
    <2> QED
        BY <1>2, <2>1, <2>2
<1>9. CASE UNCHANGED <<toolInbox, toolOut, tool>>
    BY <1>2, <1>9
<1>10. CASE TickInterrupt
    <2>1. UNCHANGED <<toolInbox, toolOut>> /\ CancelTool
        BY <1>10 DEF TickInterrupt, ReadUser
    <2>2. /\ tool'.pc = tool.pc /\ tool'.pass = tool.pass /\ tool'.calls = tool.calls
          /\ tool'.todo = tool.todo
        BY <1>0, <2>1 DEF CancelTool
    <2> QED
        BY <1>2, <2>1, <2>2
<1>11. CASE Caller \/ ModelStep \/ Stop \/ UNCHANGED vars
    BY <1>9, <1>11 DEF Caller, Send, SendInterrupt, SendClose, ModelStep, ModelTake, ModelArm,
       ModelEmit, SessionTake, SessionRespond, Stop, vars, toolVars
<1>12. CASE TickStaleModel \/ TickModelPart \/ TickReasoningEnd \/ TickModelFinal
            \/ TickModelError \/ TickUser \/ TickUserHeld \/ TickClose
    BY <1>9, <1>12 DEF TickStaleModel, TickModelPart, TickReasoningEnd, TickModelFinal,
       TickModelError, TickUser, TickUserHeld, TickClose, ReadModel, ReadUser, toolVars
<1> QED
    BY <1>3, <1>4, <1>5, <1>6, <1>7, <1>8, <1>10, <1>11, <1>12 DEF Next, Tick, ToolStep

(* History only grows.                                                     *)
LEMMA HistKept ==
    ASSUME TypeInv, HeldPlain, [Next]_vars
    PROVE  \E l \in Seq(Message) : hist' = hist \o l
<1>0. hist \in Seq(Message)
    BY DEF TypeInv, ConvTypes
<1>1. CASE ~Talking
    BY <1>1, PlainSteps
<1>2. CASE TickModelCalls
    <2> DEFINE m == Assistant(CallsIn(window))
    <2>1. hist' = Append(hist, m)
        BY <1>2 DEF TickModelCalls, KeepHeld
    <2>2. m \in Message
        BY StreamParts, CallsInType, MessageTypes
    <2> HIDE DEF m
    <2>3. <<m>> \in Seq(Message) /\ Append(hist, m) = hist \o <<m>>
        BY <1>0, <2>2
    <2> QED
        BY <2>1, <2>3
<1>3. CASE TickToolEnd
    <2> DEFINE rs == Map(LAMBDA d : Result(d.call), toolWin)
    <2>1. PICK k \in Seq(Message) : Plain(k) /\ hist' = (hist \o rs) \o k
        BY <1>3, ToolEndHist
    <2>2. rs \in Seq(Message)
        BY BatchMessages DEF TypeInv
    <2> HIDE DEF rs
    <2>3. (hist \o rs) \o k = hist \o (rs \o k) /\ rs \o k \in Seq(Message)
        BY <1>0, <2>2, ConcatAssociative, ConcatType
    <2> QED
        BY <2>1, <2>3
<1>4. CASE TickInterrupt
    <2> DEFINE part == Partial
               rs == CancelledResults(hist \o part)
    <2>1. /\ rs \in Seq(Message) /\ part \in Seq(Message)
          /\ \E k \in Seq(Message) : Plain(k) /\ hist' = ((hist \o part) \o rs) \o k
        BY <1>4, InterruptHist, StreamParts, PartialType
    <2>2. PICK k \in Seq(Message) : hist' = ((hist \o part) \o rs) \o k
        BY <2>1
    <2>3. k \in Seq(Message)
        BY <2>2
    <2> HIDE DEF rs, part
    <2> DEFINE a == hist \o part
    <2>4. a \in Seq(Message)
        BY <1>0, <2>1, ConcatType
    <2>5. hist' = (a \o rs) \o k
        BY <2>2
    <2> HIDE DEF a
    <2> DEFINE y == rs \o k
    <2>6. /\ rs \in Seq(Message) /\ k \in Seq(Message) /\ a \in Seq(Message)
          /\ hist \in Seq(Message) /\ part \in Seq(Message)
        BY <1>0, <2>1, <2>3, <2>4
    <2>7. hist' = a \o y
        <3>1. (a \o rs) \o k = a \o (rs \o k)
            BY SMTT(60), <2>6, ConcatAssociative
        <3> QED
            BY <2>5, <3>1
    <2>8. y \in Seq(Message)
        BY <2>6, ConcatType
    <2> HIDE DEF y
    <2> DEFINE z == part \o y
    <2>9. z \in Seq(Message)
        BY <2>6, <2>8, ConcatType
    <2>10. hist' = hist \o z
        <3>1. (hist \o part) \o y = hist \o (part \o y)
            BY SMTT(60), <2>6, <2>8, ConcatAssociative
        <3> QED
            BY <2>7, <3>1 DEF a
    <2> HIDE DEF z
    <2> QED
        BY <2>9, <2>10
<1> QED
    BY <1>1, <1>2, <1>3, <1>4 DEF Talking

LEMMA CancelledKept ==
    ASSUME TypeInv, HeldPlain, [Next]_vars
    PROVE  CancelledIn(hist) \subseteq CancelledIn(hist')
<1>1. PICK l \in Seq(Message) : hist' = hist \o l
    BY HistKept
<1>2. Elems(hist \o l) = Elems(hist) \cup Elems(l)
    BY ElemsConcat DEF TypeInv, ConvTypes
<1> QED
    BY <1>1, <1>2 DEF CancelledIn

(* An interrupt answers every call of the batch the loop waits for.        *)
LEMMA InterruptCancels ==
    ASSUME TypeInv, HeldPlain, PhaseInv, LastAsks, outstanding = 1, TickInterrupt
    PROVE  Elems(Asked) \subseteq CancelledIn(hist')
<1> DEFINE saved == hist \o Partial
           results == CancelledResults(saved)
           x == saved \o results
<1>1. /\ saved \in Seq(Message) /\ results \in Seq(Message)
      /\ \E k \in Seq(Message) : Plain(k) /\ hist' = x \o k
    BY InterruptHist
<1>2. PICK k \in Seq(Message) : hist' = x \o k
    BY <1>1
<1>3. hist \in Seq(Message) /\ hist # <<>> /\ Asked # <<>> /\ hist[Len(hist)].calls = Asked
    BY DEF TypeInv, ConvTypes, LastAsks, Asked
<1>4. saved = hist
    <2>1. window = <<>>
        BY DEF PhaseInv
    <2>2. Partial = <<>>
        BY <2>1 DEF Partial
    <2> QED
        BY <1>3, <2>2, EmptySides
<1>5. /\ Asked \in Seq(CallId) /\ Len(results) = Len(Asked)
      /\ \A i \in 1..Len(Asked) : results[i] = Cancelled(Asked[i])
    <2>1. /\ hist[Len(hist)].calls \in Seq(CallId)
          /\ AnswersTo(CancelledResults(hist), hist[Len(hist)].calls)
          /\ \A i \in 1..Len(hist[Len(hist)].calls) :
                CancelledResults(hist)[i] = Cancelled(hist[Len(hist)].calls[i])
        BY <1>3, CancelledLast
    <2> QED
        BY <1>3, <1>4, <2>1 DEF AnswersTo
<1> HIDE DEF saved, results
<1>6. x \in Seq(Message) /\ Elems(x) = Elems(saved) \cup Elems(results)
    BY <1>1, ConcatType, ElemsConcat
<1> HIDE DEF x
<1>7. Elems(hist') = Elems(x) \cup Elems(k)
    BY <1>2, <1>6, ElemsConcat
<1>8. \A i \in 1..Len(Asked) : Cancelled(Asked[i]) \in Elems(results)
    <2>1. \A i \in 1..Len(results) : results[i] \in Elems(results)
        BY <1>1, ElemsType
    <2> QED
        BY <1>5, <2>1
<1>9. \A c : Cancelled(c).role = "cancelled" /\ Cancelled(c).id = c
    BY DEF Cancelled
<1>10. DOMAIN Asked = 1..Len(Asked)
    BY <1>5
<1>11. ASSUME NEW i \in 1..Len(Asked) PROVE Asked[i] \in CancelledIn(hist')
    <2>1. Cancelled(Asked[i]) \in Elems(hist')
        BY <1>6, <1>7, <1>8
    <2> QED
        BY <1>9, <2>1 DEF CancelledIn
<1> QED
    BY <1>10, <1>11 DEF Elems

LEMMA NextStale ==
    ASSUME ~Duplex
    PROVE  /\ TypeInv /\ TypeInv' /\ HeldPlain /\ StreamInv /\ PhaseInv /\ LiveInv /\ StaleInv
           /\ [Next]_vars
           => StaleInv'
<1> SUFFICES ASSUME TypeInv, TypeInv', HeldPlain, StreamInv, PhaseInv, LiveInv, StaleInv,
                    [Next]_vars, engine' = "running",
                    NEW p \in Nat, NEW c \in CallId, p < passID', Carries(p, c)'
             PROVE  c \in CancelledIn(hist')
    BY DEF StaleInv
<1>0. passID \in Nat /\ passID' \in Nat
    BY SMTT(60) DEF TypeInv, ConvTypes
<1>1. engine = "running"
    BY DEF Next, Caller, Send, SendInterrupt, SendClose, ModelStep, ModelTake, ModelArm,
       ModelEmit, SessionTake, SessionRespond, ToolStep, ToolTake, ToolStart, ToolReturn, ToolFail,
       ToolEmit, Tick, TickStaleModel, TickModelPart, TickReasoningEnd, TickModelCalls,
       TickModelFinal, TickModelError, TickStaleTool, TickToolPart, TickToolEnd, TickToolError,
       TickUser, TickUserHeld, TickInterrupt, TickClose, ReadModel, ReadTool, ReadUser, Ticking,
       Stop, vars
<1>2. CancelledIn(hist) \subseteq CancelledIn(hist')
    BY CancelledKept
<1>3. CASE TickModelCalls
    <2> DEFINE b == [pass |-> passID', calls |-> CallsIn(window)]
    <2>1. /\ toolInbox' = Append(toolInbox, b) /\ UNCHANGED <<toolOut, tool>>
          /\ passID' = passID + 1 /\ modelOut # <<>> /\ ~Stale(Head(modelOut))
        BY <1>3 DEF TickModelCalls, ReadModel, NextToolPass
    <2>2. outstanding = 0
        BY <2>1, FreshModel
    <2>3. b \in ToolBatch /\ b.pass = passID'
        BY <1>0, StreamParts, CallsInType DEF ToolBatch
    <2> HIDE DEF b
    <2>4. Elems(toolInbox') = Elems(toolInbox) \cup {b}
        BY <2>1, <2>3, LiveParts, ElemsAppend
    <2>5. Carries(p, c)
        BY <1>0, <2>1, <2>3, <2>4 DEF Carries
    <2>6. p \in ToolPasses
        BY <2>5, CarriedPass
    <2>7. p < passID
        BY <1>0, <2>2, <2>6 DEF PhaseInv
    <2> QED
        BY <1>1, <1>2, <2>5, <2>7 DEF StaleInv
<1>4. CASE ~TickModelCalls
    <2>1. Carries(p, c)
        BY <1>4, CarriesFewer
    <2>2. p \in ToolPasses
        BY <2>1, CarriedPass
    <2>3. CASE p < passID
        BY <1>1, <1>2, <2>1, <2>3 DEF StaleInv
    <2>4. CASE ~(p < passID)
        <3>1. p = passID /\ outstanding = 1 /\ passID' # passID
            BY <1>0, <2>2, <2>4 DEF PhaseInv
        <3>2. TickModelFinal \/ TickToolEnd \/ TickUser \/ TickUserHeld \/ TickInterrupt
            BY <1>4, <3>1 DEF Next, Caller, Send, SendInterrupt, SendClose, ModelStep, ModelTake,
               ModelArm, ModelEmit, SessionTake, SessionRespond, ToolStep, ToolTake, ToolStart,
               ToolReturn, ToolFail, ToolEmit, Tick, TickStaleModel, TickModelPart,
               TickReasoningEnd, TickModelError, TickStaleTool, TickToolPart, TickToolError,
               TickClose, Stop, vars, convVars
        <3>3. ~TickModelFinal
            BY <3>1, FreshModel DEF TickModelFinal, ReadModel
        <3>4. ~TickUser /\ ~TickUserHeld
            BY <3>1 DEF TickUser, TickUserHeld, Holding
        <3>5. CASE TickToolEnd
            <4>1. /\ toolOut # <<>> /\ ~Stale(Head(toolOut)) /\ Head(toolOut).kind = "end"
                  /\ toolOut' = Tail(toolOut) /\ UNCHANGED <<toolInbox, tool>>
                BY <3>5 DEF TickToolEnd, ReadTool
            <4> DEFINE q == toolOut' \o tool.todo
            <4>2. /\ Ahead = <<>> /\ ~Working /\ Due = <<Note(passID, "end", 0)>>
                  /\ DeltasOf(q, passID) = Tail(Due)
                BY <1>1, <4>1, Arrives
            <4>3. DeltasOf(q, passID) = <<>>
                BY <4>2
            <4>4. /\ toolInbox \in Seq(ToolBatch)
                  /\ q \in Seq(TDelta) /\ Elems(q) = Elems(toolOut') \cup Elems(tool.todo)
                <5>1. toolOut' \in Seq(TDelta) /\ tool.todo \in Seq(TDelta)
                      /\ toolInbox \in Seq(ToolBatch)
                    BY <4>1, TailType, LiveParts
                <5> QED
                    BY <5>1, ConcatType, ElemsConcat
            <4> HIDE DEF q
            <4>5. \A b \in Elems(toolInbox) : b.pass # passID
                BY <4>2, <4>4, BatchesType DEF Ahead
            <4>6. \A d \in Elems(q) : d.pass # passID
                <5>1. Elems(DeltasOf(q, passID)) = {d \in Elems(q) : d.pass = passID}
                    BY <4>4, DeltasType
                <5> QED
                    BY <4>3, <5>1, ElemsSmall
            <4> QED
                BY <3>1, <4>1, <4>2, <4>4, <4>5, <4>6 DEF Carries, Working
        <3>6. CASE TickInterrupt
            <4>1. LastAsks /\ c \in Elems(Asked)
                BY <1>1, <2>1, <3>1, LiveCarries
            <4> QED
                BY <3>1, <3>6, <4>1, InterruptCancels
        <3> QED
            BY <3>2, <3>3, <3>4, <3>5, <3>6
    <2> QED
        BY <2>3, <2>4
<1> QED
    BY <1>3, <1>4

LEMMA NextDropped ==
    TypeInv /\ HeldPlain /\ StaleInv /\ ResultsKept /\ [Next]_vars => ResultsKept'
<1> SUFFICES ASSUME TypeInv, HeldPlain, StaleInv, ResultsKept, [Next]_vars PROVE ResultsKept'
    OBVIOUS
<1>1. CancelledIn(hist) \subseteq CancelledIn(hist')
    BY CancelledKept
<1>2. CASE dropped' = dropped
    BY <1>1, <1>2 DEF ResultsKept
<1>3. CASE TickStaleTool
    <2> DEFINE d == Head(toolOut)
    <2>1. /\ engine = "running" /\ toolOut # <<>> /\ d.pass < passID
          /\ dropped' = IF d.kind = "result" THEN dropped \cup {d.call} ELSE dropped
        BY <1>3 DEF TickStaleTool, Ticking, Stale
    <2>2. d \in Elems(toolOut) /\ d \in TDelta
        BY <2>1, LiveParts, ElemsTail, TailType
    <2> HIDE DEF d
    <2>3. d.kind = "result" => d.call \in CallId /\ d.pass \in Nat /\ Carries(d.pass, d.call)
        BY <2>2 DEF TDelta, Carries
    <2>4. d.kind = "result" => d.call \in CancelledIn(hist)
        BY SMTT(60), <2>1, <2>3 DEF StaleInv
    <2> QED
        BY <1>1, <2>1, <2>4 DEF ResultsKept
<1>4. TickStaleTool \/ dropped' = dropped
    BY DEF Next, Caller, Send, SendInterrupt, SendClose, ModelStep, ModelTake, ModelArm,
       ModelEmit, SessionTake, SessionRespond, ToolStep, ToolTake, ToolStart, ToolReturn, ToolFail,
       ToolEmit, Tick, TickStaleModel, TickModelPart, TickReasoningEnd, TickModelCalls,
       TickModelFinal, TickModelError, TickToolPart, TickToolEnd, TickToolError,
       TickUser, TickUserHeld, TickInterrupt, TickClose, ReadModel, ReadTool, ReadUser,
       Stop, vars, traceVars
<1> QED
    BY <1>2, <1>3, <1>4

(* In the same loops a batch's results are dropped as stale only if the    *)
(* conversation already holds cancelled results for its calls: whatever    *)
(* supersedes the pass of a batch first answers its calls.                 *)
THEOREM DroppedAnswered ==
    ASSUME ~Duplex, ~RepeatIDs
    PROVE  Spec => []ResultsKept
<1>1. Init => StaleInv /\ ResultsKept
    <2> SUFFICES ASSUME Init PROVE StaleInv /\ ResultsKept
        OBVIOUS
    <2>1. toolInbox = <<>> /\ toolOut = <<>> /\ tool.todo = <<>> /\ tool.pc = "idle" /\ dropped = {}
        BY DEF Init, NoTool
    <2>2. Elems(<<>>) = {}
        BY ElemsSmall
    <2> QED
        BY <2>1, <2>2 DEF StaleInv, Carries, ResultsKept
<1>2. TypeInv /\ TypeInv' /\ HeldPlain /\ StreamInv /\ PhaseInv /\ LiveInv /\ StaleInv
      /\ [Next]_vars => StaleInv'
    BY NextStale
<1>3. TypeInv /\ HeldPlain /\ StaleInv /\ ResultsKept /\ [Next]_vars => ResultsKept'
    BY NextDropped
<1>4. Spec => []PhaseInv
    BY Phases
<1>5. Spec => []LiveInv
    BY Lives
<1> QED
    BY <1>1, <1>2, <1>3, <1>4, <1>5, Typed, Streams, HeldsPlain, PTL DEF Spec

-----------------------------------------------------------------------------
(* Well-formed conversations                                               *)

(* Each call of h is directly followed by its one result, and no result    *)
(* stands without its call.                                                *)
WellFormed(h) ==
    /\ \A i \in 1..Len(h) : h[i].calls # <<>> => AnswersFollow(h, i)
    /\ \A i \in 1..Len(h) :
         IsResult(h[i]) => i > 1 /\ (IsResult(h[i - 1]) \/ h[i - 1].calls # <<>>)

LEMMA MessageCalls ==
    ASSUME NEW h \in Seq(Message)
    PROVE  \A i \in 1..Len(h) : /\ h[i].calls \in Seq(CallId) /\ Len(h[i].calls) \in Nat
                                /\ DOMAIN h[i].calls = 1..Len(h[i].calls)
                                /\ h[i].calls # <<>> => Len(h[i].calls) > 0
<1> SUFFICES ASSUME NEW i \in 1..Len(h)
             PROVE  /\ h[i].calls \in Seq(CallId) /\ Len(h[i].calls) \in Nat
                    /\ DOMAIN h[i].calls = 1..Len(h[i].calls)
                    /\ h[i].calls # <<>> => Len(h[i].calls) > 0
    OBVIOUS
<1> DEFINE cs == h[i].calls
<1>1. h[i] \in Message
    OBVIOUS
<1>2. cs \in Seq(CallId)
    BY <1>1 DEF Message, CallId
<1> HIDE DEF cs
<1>3. Len(cs) \in Nat /\ DOMAIN cs = 1..Len(cs) /\ (cs # <<>> => Len(cs) > 0)
    BY <1>2, EmptySeq
<1> QED
    BY <1>2, <1>3 DEF cs

(* The answers to a message's calls stay where they are, and nothing that  *)
(* joins behind them is taken for another.                                 *)
LEMMA FollowStays ==
    ASSUME NEW h \in Seq(Message), NEW k \in Seq(Message), NEW i \in 1..Len(h),
           AnswersFollow(h, i), k # <<>> => ~IsResult(k[1])
    PROVE  AnswersFollow(h \o k, i)
<1> DEFINE x == h \o k
           n == Len(h)
           m == Len(k)
           cs == h[i].calls
           c == Len(cs)
<1>1. /\ x \in Seq(Message) /\ Len(x) = n + m /\ n \in Nat /\ m \in Nat
      /\ \A j \in 1..n : x[j] = h[j]
      /\ \A j \in 1..m : x[n + j] = k[j]
    BY ConcatType
<1>2. c \in Nat /\ DOMAIN cs = 1..c
    BY MessageCalls
<1>3. /\ i + c <= n
      /\ \A j \in 1..c : IsResult(h[i + j]) /\ h[i + j].id = cs[j]
      /\ i + c = n \/ ~IsResult(h[i + c + 1])
    BY <1>2 DEF AnswersFollow
<1>4. k # <<>> => 1 \in 1..m
    BY EmptySeq
<1>5. x[i].calls = cs /\ i \in 1..n
    BY <1>1
<1> HIDE DEF x, n, m, c, cs
<1>6. i + c <= n + m
    BY <1>1, <1>2, <1>3, <1>5
<1>7. ASSUME NEW j \in 1..c PROVE IsResult(x[i + j]) /\ x[i + j].id = cs[j]
    <2>1. i + j \in 1..n
        BY <1>1, <1>2, <1>3, <1>5
    <2> QED
        BY <1>1, <1>3, <2>1
<1>8. i + c = n + m \/ ~IsResult(x[i + c + 1])
    <2>1. CASE i + c = n /\ k = <<>>
        <3>1. m = 0
            BY <2>1 DEF m
        <3> QED
            BY <1>1, <2>1, <3>1
    <2>2. CASE i + c = n /\ k # <<>>
        <3>1. x[n + 1] = k[1]
            BY <1>1, <1>4, <2>2
        <3> QED
            BY <2>2, <3>1
    <2>3. CASE i + c # n
        <3>1. i + c + 1 \in 1..n
            BY <1>1, <1>2, <1>3, <1>5, <2>3
        <3>2. x[i + c + 1] = h[i + c + 1]
            BY <1>1, <3>1
        <3> QED
            BY <1>3, <2>3, <3>2
    <2> QED
        BY <2>1, <2>2, <2>3
<1>9. AnswersFollow(x, i) <=> /\ i + c <= Len(x)
                              /\ \A j \in 1..c : IsResult(x[i + j]) /\ x[i + j].id = cs[j]
                              /\ i + c = Len(x) \/ ~IsResult(x[i + c + 1])
    BY <1>2, <1>5 DEF AnswersFollow, c
<1> QED
    BY <1>1, <1>6, <1>7, <1>8, <1>9 DEF x

(* Messages that neither call nor answer join a well-formed conversation.  *)
LEMMA FormPlain ==
    ASSUME NEW h \in Seq(Message), NEW k \in Seq(Message), WellFormed(h), Plain(k)
    PROVE  WellFormed(h \o k)
<1> DEFINE x == h \o k
           n == Len(h)
           m == Len(k)
<1>1. /\ x \in Seq(Message) /\ Len(x) = n + m /\ n \in Nat /\ m \in Nat
      /\ \A i \in 1..n : x[i] = h[i]
      /\ \A i \in 1..m : x[n + i] = k[i]
    BY ConcatType
<1>2. \A i \in 1..m : k[i].calls = <<>> /\ ~IsResult(k[i])
    BY ElemsType DEF Plain
<1>3. k # <<>> => ~IsResult(k[1])
    <2>1. k # <<>> => 1 \in 1..m
        BY EmptySeq
    <2> QED
        BY <1>2, <2>1
<1>4. \A i \in 1..n : h[i].calls # <<>> => AnswersFollow(x, i)
    BY <1>3, FollowStays DEF WellFormed
<1>5. \A i \in 1..n : IsResult(h[i]) => i > 1 /\ (IsResult(h[i - 1]) \/ h[i - 1].calls # <<>>)
    BY DEF WellFormed
<1> HIDE DEF x, n, m
<1>6. ASSUME NEW i \in 1..(n + m), ~(i \in 1..n) PROVE x[i].calls = <<>> /\ ~IsResult(x[i])
    <2>1. i - n \in 1..m /\ n + (i - n) = i
        BY <1>1, <1>6
    <2> QED
        BY <1>1, <1>2, <2>1
<1>7. \A i \in 1..(n + m) : x[i].calls # <<>> => AnswersFollow(x, i)
    BY <1>1, <1>4, <1>6
<1>8. ASSUME NEW i \in 1..(n + m), IsResult(x[i])
      PROVE  i > 1 /\ (IsResult(x[i - 1]) \/ x[i - 1].calls # <<>>)
    <2>1. i \in 1..n /\ IsResult(h[i])
        BY <1>1, <1>6, <1>8
    <2>2. i > 1 /\ (IsResult(h[i - 1]) \/ h[i - 1].calls # <<>>)
        BY <1>5, <2>1
    <2>3. i - 1 \in 1..n
        BY <1>1, <2>1, <2>2
    <2> QED
        BY <1>1, <2>2, <2>3
<1>9. WellFormed(x)
    BY <1>1, <1>7, <1>8 DEF WellFormed
<1> QED
    BY <1>9 DEF x

(* So does a message with calls, when their answers follow it.             *)
LEMMA FormAnswers ==
    ASSUME NEW h \in Seq(Message), NEW cs \in Seq(CallId), NEW k \in Seq(Message),
           WellFormed(h), cs # <<>>, AnswersTo(k, cs)
    PROVE  WellFormed(Append(h, Assistant(cs)) \o k)
<1> DEFINE a == Assistant(cs)
           g == Append(h, a)
           x == g \o k
           n == Len(h)
           m == Len(k)
<1>1. a \in Message /\ a.calls = cs /\ ~IsResult(a)
    BY MessageTypes DEF Assistant, IsResult
<1>2. /\ n \in Nat /\ m \in Nat /\ m > 0 /\ Len(cs) = m /\ DOMAIN cs = 1..m
      /\ \A j \in 1..m : IsResult(k[j]) /\ k[j].id = cs[j] /\ k[j].calls = <<>>
    <2>1. Len(cs) > 0
        BY EmptySeq
    <2> QED
        BY <2>1 DEF AnswersTo
<1>3. <<a>> \in Seq(Message) /\ <<a>>[1] = a
    <2> HIDE DEF a
    <2> QED
        BY <1>1, SingletonType
<1>4. g = h \o <<a>>
    <2> HIDE DEF a
    <2> QED
        BY <1>1, AppendIsConcat
<1> HIDE DEF a
<1>5. g \in Seq(Message) /\ Len(g) = n + 1 /\ (\A i \in 1..n : g[i] = h[i]) /\ g[n + 1] = a
    BY <1>1, AppendType
<1>6. \A i \in 1..n : h[i].calls # <<>> => AnswersFollow(g, i)
    <2>1. \A i \in 1..n : AnswersFollow(h, i) => AnswersFollow(h \o <<a>>, i)
        BY <1>1, <1>3, FollowStays
    <2> QED
        BY <1>4, <2>1 DEF WellFormed
<1> HIDE DEF g
<1>7. /\ x \in Seq(Message) /\ Len(x) = n + 1 + m
      /\ \A i \in 1..(n + 1) : x[i] = g[i]
      /\ \A i \in 1..m : x[n + 1 + i] = k[i]
    <2>0. g \in Seq(Message)
        BY <1>5
    <2>1. /\ x \in Seq(Message) /\ Len(x) = Len(g) + m
          /\ \A i \in 1..Len(g) : x[i] = g[i]
          /\ \A i \in 1..m : x[Len(g) + i] = k[i]
        BY <2>0, ConcatType
    <2> HIDE DEF x, n, m
    <2> QED
        BY <1>5, <2>1
<1>8. \A i \in 1..n : h[i].calls # <<>> => AnswersFollow(x, i)
    <2> SUFFICES ASSUME NEW i \in 1..n, h[i].calls # <<>> PROVE AnswersFollow(x, i)
        OBVIOUS
    <2>1. AnswersFollow(g, i) /\ i \in 1..Len(g)
        BY <1>2, <1>5, <1>6
    <2>2. CASE i + Len(h[i].calls) = n
        (* The message with calls itself follows the answers.              *)
        <3>1. /\ g[i].calls = h[i].calls
              /\ i + Len(h[i].calls) <= n
              /\ \A j \in DOMAIN h[i].calls : /\ IsResult(g[i + j])
                                              /\ g[i + j].id = h[i].calls[j]
            BY <1>5, <2>1, <2>2 DEF AnswersFollow
        <3>2. Len(h[i].calls) \in Nat /\ DOMAIN h[i].calls = 1..Len(h[i].calls)
            BY MessageCalls
        <3>3. \A j \in DOMAIN h[i].calls : i + j \in 1..(n + 1)
            BY <1>2, <3>1, <3>2
        <3>4. i \in 1..(n + 1) /\ n + 1 \in 1..(n + 1)
            BY <1>2
        <3>5. x[i].calls = h[i].calls /\ x[i + Len(h[i].calls) + 1] = a
            BY <1>5, <1>7, <2>2, <3>1, <3>4
        <3>6. i + Len(h[i].calls) <= Len(x)
            BY <1>2, <1>7, <2>2
        <3>7. \A j \in DOMAIN h[i].calls : IsResult(x[i + j]) /\ x[i + j].id = h[i].calls[j]
            BY <1>7, <3>1, <3>3
        <3> QED
            BY <1>1, <3>5, <3>6, <3>7 DEF AnswersFollow
    <2>3. CASE i + Len(h[i].calls) # n
        <3> DEFINE c == Len(h[i].calls)
        <3>1. AnswersFollow(h, i)
            BY DEF WellFormed
        <3>2. c \in Nat /\ DOMAIN h[i].calls = 1..c
            BY MessageCalls
        <3>3. /\ i + c <= n /\ i + c # n /\ ~IsResult(h[i + c + 1])
              /\ \A j \in DOMAIN h[i].calls : IsResult(h[i + j]) /\ h[i + j].id = h[i].calls[j]
            BY <2>3, <3>1 DEF AnswersFollow
        <3> HIDE DEF c
        <3>4. \A j \in 1..n : x[j] = h[j]
            BY <1>2, <1>5, <1>7
        <3>5. i + c + 1 \in 1..n /\ i \in 1..n /\ i + c <= Len(x)
            BY <1>2, <1>7, <3>2, <3>3
        <3>6. \A j \in DOMAIN h[i].calls : i + j \in 1..n
            BY <1>2, <3>2, <3>3
        <3>7. x[i].calls = h[i].calls /\ ~IsResult(x[i + c + 1])
              /\ \A j \in DOMAIN h[i].calls : IsResult(x[i + j]) /\ x[i + j].id = h[i].calls[j]
            BY <3>3, <3>4, <3>5, <3>6
        <3> QED
            BY <3>5, <3>7 DEF AnswersFollow, c
    <2> QED
        BY <2>2, <2>3
<1> HIDE DEF x, n, m
<1>9. x[n + 1] = a
    BY <1>2, <1>5, <1>7
<1>10. AnswersFollow(x, n + 1)
    <2>1. n + 1 + Len(cs) = Len(x)
        BY <1>2, <1>7
    <2>2. \A j \in DOMAIN cs : IsResult(x[n + 1 + j]) /\ x[n + 1 + j].id = cs[j]
        BY <1>2, <1>7
    <2>3. x[n + 1].calls = cs /\ n + 1 + Len(cs) <= Len(x)
        BY <1>1, <1>2, <1>7, <1>9
    <2> QED
        BY <2>1, <2>2, <2>3 DEF AnswersFollow
<1>11. \A i \in 1..(n + 1 + m) : i \in 1..n \/ i = n + 1 \/ i - (n + 1) \in 1..m
    BY <1>2
<1>12. \A i \in 1..n : x[i] = h[i]
    BY <1>2, <1>5, <1>7
<1>13. \A i \in 1..(n + 1 + m) : i - (n + 1) \in 1..m =>
          x[i] = k[i - (n + 1)] /\ x[i].calls = <<>> /\ IsResult(x[i])
    <2> SUFFICES ASSUME NEW i \in 1..(n + 1 + m), i - (n + 1) \in 1..m
                 PROVE  x[i] = k[i - (n + 1)] /\ x[i].calls = <<>> /\ IsResult(x[i])
        OBVIOUS
    <2>1. n + 1 + (i - (n + 1)) = i
        BY <1>2
    <2>2. x[n + 1 + (i - (n + 1))] = k[i - (n + 1)]
        BY <1>7
    <2> QED
        BY <1>2, <2>1, <2>2
<1>14. \A i \in 1..(n + 1 + m) : x[i].calls # <<>> => AnswersFollow(x, i)
    BY <1>8, <1>10, <1>11, <1>12, <1>13
<1>15. ASSUME NEW i \in 1..(n + 1 + m), IsResult(x[i])
       PROVE  i > 1 /\ (IsResult(x[i - 1]) \/ x[i - 1].calls # <<>>)
    <2>1. CASE i \in 1..n
        <3>1. i > 1 /\ (IsResult(h[i - 1]) \/ h[i - 1].calls # <<>>)
            BY <1>12, <1>15, <2>1 DEF WellFormed, n
        <3>2. i - 1 \in 1..n
            BY <1>2, <2>1, <3>1
        <3> QED
            BY <1>12, <3>1, <3>2
    <2>2. CASE i = n + 1
        BY <1>1, <1>9, <1>15, <2>2
    <2>3. CASE i = n + 2
        <3>1. i - 1 = n + 1 /\ i > 1
            BY <1>2, <2>3
        <3> QED
            BY <1>1, <1>9, <3>1
    <2>4. CASE i - (n + 1) \in 1..m /\ i # n + 2
        <3>1. i - 1 \in 1..(n + 1 + m) /\ (i - 1) - (n + 1) \in 1..m /\ i > 1
            BY <1>2, <2>4
        <3> QED
            BY <1>13, <3>1
    <2> QED
        BY <1>11, <2>1, <2>2, <2>3, <2>4
<1>16. WellFormed(x)
    BY <1>7, <1>14, <1>15 DEF WellFormed
<1> QED
    BY <1>16 DEF x, g, a

(* In a well-formed conversation cancelledToolResults finds nothing.       *)
LEMMA FormNothing ==
    ASSUME NEW h \in Seq(Message), WellFormed(h)
    PROVE  CancelledResults(h) = <<>>
<1> DEFINE k == CancelledResults(h)
<1>1. k \in Seq(Message)
    BY CancelledType
<1>2. CASE \E l \in 1..Len(h), left \in Seq(CallId) : Cancels(h, l, left)
    <2>1. PICK l \in 1..Len(h), left \in Seq(CallId) : Cancels(h, l, left)
        BY <1>2
    <2> DEFINE cs == h[l].calls
               c == Len(cs)
    <2>2. /\ cs # <<>> /\ AnswersTo(k, left)
          /\ Elems(left) = {y \in Elems(cs) :
                              \A j \in 1..Len(h) : j > l /\ IsResult(h[j]) => h[j].id # y}
        BY <2>1 DEF Cancels
    <2>3. c \in Nat /\ DOMAIN cs = 1..c /\ Len(h) \in Nat
        BY MessageCalls
    <2>4. l + c <= Len(h) /\ \A j \in 1..c : IsResult(h[l + j]) /\ h[l + j].id = cs[j]
        BY <2>2, <2>3 DEF WellFormed, AnswersFollow
    <2> HIDE DEF c, cs, k
    <2>5. \A j \in 1..c : l + j \in 1..Len(h) /\ l + j > l
        BY <2>3, <2>4
    <2>6. Elems(left) = {}
        <3> SUFFICES ASSUME NEW y \in Elems(left) PROVE FALSE
            OBVIOUS
        <3>1. y \in Elems(cs) /\ \A j \in 1..Len(h) : j > l /\ IsResult(h[j]) => h[j].id # y
            BY <2>2
        <3>2. PICK j \in 1..c : y = cs[j]
            BY <2>3, <3>1 DEF Elems
        <3> QED
            BY <2>4, <2>5, <3>1, <3>2
    <2>7. Len(left) = 0
        <3>1. \A i \in 1..Len(left) : left[i] \in Elems(left)
            BY ElemsType
        <3>2. Len(left) \in Nat
            OBVIOUS
        <3> QED
            BY <2>6, <3>1, <3>2
    <2>8. Len(k) = 0
        BY <2>2, <2>7 DEF AnswersTo
    <2> QED
        BY <1>1, <2>8, EmptySeq DEF k
<1> QED
    BY <1>2, CancelledShape

(* A well-formed conversation and, behind it, calls without their answers. *)
Asking(h) ==
    \E g \in Seq(Message), cs \in Seq(CallId) :
        cs # <<>> /\ h = Append(g, Assistant(cs)) /\ WellFormed(g)

LEMMA AskingLast ==
    ASSUME NEW g \in Seq(Message), NEW cs \in Seq(CallId), cs # <<>>
    PROVE  LET h == Append(g, Assistant(cs))
           IN  h \in Seq(Message) /\ h # <<>> /\ h[Len(h)].calls = cs
<1> DEFINE a == Assistant(cs)
<1>1. a \in Message /\ a.calls = cs
    BY MessageTypes DEF Assistant
<1> HIDE DEF a
<1> DEFINE h == Append(g, a)
<1>2. h \in Seq(Message) /\ Len(h) = Len(g) + 1 /\ h # <<>> /\ h[Len(g) + 1] = a
    BY <1>1, AppendType
<1> HIDE DEF h
<1>3. h[Len(h)].calls = cs
    BY <1>1, <1>2
<1> QED
    BY <1>2, <1>3 DEF a, h

(* cancelledToolResults completes what it is given.                        *)
LEMMA FormCancels ==
    ASSUME NEW h \in Seq(Message), WellFormed(h) \/ Asking(h)
    PROVE  WellFormed(h \o CancelledResults(h))
<1>1. CASE WellFormed(h)
    <2>1. CancelledResults(h) = <<>>
        BY <1>1, FormNothing
    <2>2. h \o <<>> = h
        BY EmptySides
    <2> QED
        BY <1>1, <2>1, <2>2
<1>2. CASE Asking(h)
    <2>1. PICK g \in Seq(Message), cs \in Seq(CallId) :
                cs # <<>> /\ h = Append(g, Assistant(cs)) /\ WellFormed(g)
        BY <1>2 DEF Asking
    <2>2. h # <<>> /\ h[Len(h)].calls = cs
        BY <2>1, AskingLast
    <2>3. h[Len(h)].calls # <<>>
        BY <2>1, <2>2
    <2>4. AnswersTo(CancelledResults(h), h[Len(h)].calls)
        BY <2>2, <2>3, CancelledLast
    <2>5. AnswersTo(CancelledResults(h), cs) /\ CancelledResults(h) \in Seq(Message)
        BY <2>2, <2>4, CancelledType
    <2> DEFINE k == CancelledResults(h)
    <2>6. k \in Seq(Message) /\ AnswersTo(k, cs)
        BY <2>5
    <2> HIDE DEF k
    <2>7. WellFormed(Append(g, Assistant(cs)) \o k)
        BY <2>1, <2>6, FormAnswers
    <2> QED
        BY <2>1, <2>7 DEF k
<1> QED
    BY <1>1, <1>2

(* Between ticks history is well formed, but for the calls of the batch    *)
(* that is out.                                                            *)
FormInv ==
    engine = "running" => IF outstanding = 0 THEN WellFormed(hist) ELSE Asking(hist)

(* While a batch is out, only its end and an interrupt add to history.     *)
LEMMA BatchAlone ==
    ASSUME ~Duplex, ~ToolsMayFail, TypeInv, StreamInv, PhaseInv, NoClose, LiveInv,
           outstanding # 0, engine' = "running", [Next]_vars, ~Talking
    PROVE  hist' = hist
<1>0. outstanding = 1
    BY DEF PhaseInv
<1>1. CASE Caller \/ ModelStep \/ ToolStep \/ UNCHANGED vars
    BY <1>1 DEF Caller, Send, SendInterrupt, SendClose, ModelStep, ModelTake, ModelArm,
       ModelEmit, SessionTake, SessionRespond, ToolStep, ToolTake, ToolStart, ToolReturn,
       ToolFail, ToolEmit, vars, convVars
<1>2. CASE TickStaleModel \/ TickModelPart \/ TickStaleTool \/ TickToolPart \/ TickUserHeld
    BY <1>2 DEF TickStaleModel, TickModelPart, TickStaleTool, TickToolPart, TickUserHeld,
       convVars
<1>3. ~Stop /\ ~TickModelError
    BY DEF Stop, TickModelError
<1>4. ~TickReasoningEnd /\ ~TickModelFinal
    BY <1>0, FreshModel DEF TickReasoningEnd, TickModelFinal, ReadModel
<1>5. ~TickToolError
    <2> SUFFICES ASSUME TickToolError PROVE FALSE
        OBVIOUS
    <2>1. /\ engine = "running" /\ toolOut # <<>> /\ ~Stale(Head(toolOut))
          /\ Head(toolOut).kind = "err"
        BY DEF TickToolError, ReadTool, Ticking
    <2> QED
        BY <2>1, Arrives
<1>6. ~TickClose
    <2> SUFFICES ASSUME TickClose PROVE FALSE
        OBVIOUS
    <2>1. userOut # <<>> /\ Head(userOut).kind = "close"
        BY DEF TickClose, ReadUser
    <2>2. Head(userOut) \in Elems(userOut)
        BY <2>1, ElemsTail DEF TypeInv, UserTypes
    <2> QED
        BY <2>1, <2>2 DEF NoClose
<1>7. ~TickUser
    BY <1>0 DEF TickUser, Holding
<1> QED
    BY <1>1, <1>2, <1>3, <1>4, <1>5, <1>6, <1>7 DEF Next, Tick, Talking

LEMMA SavedForm ==
    ASSUME TypeInv, PhaseInv, FormInv, engine = "running"
    PROVE  LET saved == hist \o Partial
           IN  saved \in Seq(Message) /\ (WellFormed(saved) \/ Asking(saved))
<1> DEFINE saved == hist \o Partial
           cs == CallsIn(window)
<1>0. hist \in Seq(Message) /\ cs \in Seq(CallId)
    BY StreamParts, CallsInType DEF TypeInv, ConvTypes
<1>1. CASE Partial = <<>>
    <2>1. saved = hist
        BY <1>0, <1>1, EmptySides
    <2> QED
        BY <1>0, <2>1 DEF FormInv
<1>2. CASE Partial # <<>>
    <2>1. window # <<>>
        BY <1>2 DEF Partial
    <2>2. outstanding = 0 /\ WellFormed(hist)
        BY <2>1 DEF PhaseInv, FormInv
    <2>3. Partial = <<Assistant(cs)>>
        BY <1>2 DEF Partial
    <2>4. Assistant(cs) \in Message
        BY <1>0, MessageTypes
    <2> HIDE DEF cs
    <2>5. saved = Append(hist, Assistant(cs))
        BY <1>0, <2>3, <2>4, AppendIsConcat
    <2>6. CASE cs # <<>>
        BY <1>0, <2>2, <2>5, <2>6, AskingLast DEF Asking
    <2>7. CASE cs = <<>>
        <3>1. Partial = <<Assistant(<<>>)>>
            BY <2>3, <2>7
        <3>2. Plain(Partial) /\ Partial \in Seq(Message)
            BY <3>1, PlainSmall
        <3> QED
            BY <1>0, <2>2, <3>2, FormPlain, ConcatType
    <2> QED
        BY <2>6, <2>7
<1> QED
    BY <1>1, <1>2

LEMMA NextForm ==
    ASSUME ~Duplex, ~ToolsMayFail
    PROVE  /\ TypeInv /\ HeldPlain /\ StreamInv /\ PhaseInv /\ NoClose /\ LiveInv /\ FormInv
           /\ [Next]_vars
           => FormInv'
<1> SUFFICES ASSUME TypeInv, HeldPlain, StreamInv, PhaseInv, NoClose, LiveInv, FormInv,
                    [Next]_vars, engine' = "running"
             PROVE  IF outstanding' = 0 THEN WellFormed(hist') ELSE Asking(hist')
    BY DEF FormInv
<1>0. hist \in Seq(Message) /\ engine = "running"
    <2>1. hist \in Seq(Message)
        BY SMTT(60) DEF TypeInv, ConvTypes
    <2>2. engine = "running"
        BY DEF Next, Caller, Send, SendInterrupt, SendClose, ModelStep, ModelTake,
           ModelArm, ModelEmit, SessionTake, SessionRespond, ToolStep, ToolTake, ToolStart,
           ToolReturn, ToolFail, ToolEmit, Tick, TickStaleModel, TickModelPart,
           TickReasoningEnd, TickModelCalls, TickModelFinal, TickModelError, TickStaleTool,
           TickToolPart, TickToolEnd, TickToolError, TickUser, TickUserHeld, TickInterrupt,
           TickClose, ReadModel, ReadTool, ReadUser, Ticking, Stop, vars
    <2> QED
        BY <2>1, <2>2
<1>1. CASE ~Talking
    <2>1. outstanding' = outstanding
        BY <1>1 DEF Talking, Next, Caller, Send, SendInterrupt, SendClose, ModelStep, ModelTake,
           ModelArm, ModelEmit, SessionTake, SessionRespond, ToolStep, ToolTake, ToolStart,
           ToolReturn, ToolFail, ToolEmit, Tick, TickStaleModel, TickModelPart,
           TickReasoningEnd, TickModelFinal, TickModelError, TickStaleTool,
           TickToolPart, TickToolError, TickUser, TickUserHeld, TickClose, Stop,
           vars, convVars
    <2>2. CASE outstanding = 0
        <3>1. PICK l \in Seq(Message) : Plain(l) /\ hist' = hist \o l
            BY <1>1, PlainSteps
        <3>2. WellFormed(hist')
            BY <1>0, <2>2, <3>1, FormPlain DEF FormInv
        <3> QED
            BY <2>1, <2>2, <3>2
    <2>3. CASE outstanding # 0
        <3>1. hist' = hist
            BY <1>1, <2>3, BatchAlone
        <3>2. Asking(hist')
            BY <1>0, <2>3, <3>1 DEF FormInv
        <3> QED
            BY <2>1, <2>3, <3>2
    <2> QED
        BY <2>2, <2>3
<1>2. CASE TickModelCalls
    <2> DEFINE cs == CallsIn(window)
    <2>1. /\ hist' = Append(hist, Assistant(cs)) /\ cs # <<>> /\ outstanding' = outstanding + 1
          /\ modelOut # <<>> /\ ~Stale(Head(modelOut))
        BY <1>2 DEF TickModelCalls, KeepHeld, ReadModel
    <2>2. cs \in Seq(CallId)
        BY StreamParts, CallsInType
    <2> HIDE DEF cs
    <2>3. outstanding = 0
        BY <2>1, FreshModel
    <2>4. WellFormed(hist) /\ outstanding' # 0
        BY <1>0, <2>1, <2>3 DEF FormInv
    <2> QED
        BY <1>0, <2>1, <2>2, <2>4 DEF Asking
<1>3. CASE TickToolEnd
    <2> DEFINE rs == Map(LAMBDA d : Result(d.call), toolWin)
               h == hist \o rs
    <2>1. PICK k \in Seq(Message) : Plain(k) /\ hist' = h \o k
        BY <1>3, ToolEndHist
    <2>2. /\ engine = "running" /\ toolOut # <<>> /\ ~Stale(Head(toolOut))
          /\ Head(toolOut).kind = "end"
        BY <1>3 DEF TickToolEnd, ReadTool, Ticking
    <2>3. toolWin = Notes(passID, Asked) /\ outstanding = 1
        BY <2>2, Arrives
    <2>4. rs \in Seq(Message) /\ AnswersTo(rs, Asked)
        BY <2>3, BatchAnswers
    <2> HIDE DEF rs
    <2>5. Asking(hist)
        BY <1>0, <2>3 DEF FormInv
    <2>6. PICK g \in Seq(Message), cs \in Seq(CallId) :
                cs # <<>> /\ hist = Append(g, Assistant(cs)) /\ WellFormed(g)
        BY <2>5 DEF Asking
    <2>7. Asked = cs
        BY <2>6, AskingLast DEF Asked
    <2>8. WellFormed(Append(g, Assistant(cs)) \o rs)
        BY <2>4, <2>6, <2>7, FormAnswers
    <2>9. WellFormed(h) /\ h \in Seq(Message)
        BY <1>0, <2>4, <2>6, <2>8, ConcatType
    <2> HIDE DEF h
    <2>10. WellFormed(hist')
        BY <2>1, <2>9, FormPlain
    <2>11. outstanding' = 0
        BY <1>3, <2>3 DEF TickToolEnd
    <2> QED
        BY <2>10, <2>11
<1>4. CASE TickInterrupt
    <2> DEFINE saved == hist \o Partial
               results == CancelledResults(saved)
               x == saved \o results
    <2>1. /\ saved \in Seq(Message) /\ results \in Seq(Message)
          /\ \E k \in Seq(Message) : Plain(k) /\ hist' = x \o k
        BY <1>4, InterruptHist
    <2>2. PICK k \in Seq(Message) : Plain(k) /\ hist' = x \o k
        BY <2>1
    <2>3. WellFormed(saved) \/ Asking(saved)
        BY <1>0, SavedForm
    <2> HIDE DEF saved
    <2>4. WellFormed(x)
        BY <2>1, <2>3, FormCancels
    <2> HIDE DEF results
    <2>5. x \in Seq(Message)
        BY <2>1, ConcatType
    <2> HIDE DEF x
    <2>6. WellFormed(hist')
        BY <2>2, <2>4, <2>5, FormPlain
    <2>7. outstanding' = 0
        BY <1>4 DEF TickInterrupt
    <2> QED
        BY <2>6, <2>7
<1> QED
    BY <1>1, <1>2, <1>3, <1>4 DEF Talking

-----------------------------------------------------------------------------
(* Requests                                                                *)

(* The conversation leaves the next message to the model.                  *)
Replied(h) == h # <<>> => h[Len(h)].role # "assistant"

Fit(r) == WellFormed(r.conv) /\ (r.bare \/ Replied(r.conv))
RequestsFit == \A r \in Elems(modelInbox) : Fit(r)

LEMMA RepliedConcat ==
    ASSUME NEW h \in Seq(Message), NEW k \in Seq(Message), k # <<>>, Replied(k)
    PROVE  Replied(h \o k)
<1> DEFINE x == h \o k
           n == Len(k)
<1>1. n \in Nat /\ n \in 1..n /\ k[n].role # "assistant"
    BY EmptySeq DEF Replied
<1>2. x \in Seq(Message) /\ Len(x) = Len(h) + n /\ x[Len(h) + n] = k[n]
    BY <1>1, ConcatType
<1> HIDE DEF x, n
<1> QED
    BY <1>1, <1>2 DEF Replied, x

LEMMA RepliedSmall ==
    ASSUME NEW m \in Message, m.role # "assistant"
    PROVE  <<m>> \in Seq(Message) /\ <<m>> # <<>> /\ Replied(<<m>>)
<1>1. <<m>> \in Seq(Message) /\ <<m>> # <<>> /\ Len(<<m>>) = 1 /\ <<m>>[1] = m
    BY SingletonType
<1> DEFINE k == <<m>>
<1> HIDE DEF k
<1>2. k \in Seq(Message) /\ k # <<>> /\ Len(k) = 1 /\ k[1] = m
    BY <1>1 DEF k
<1>3. Replied(k)
    BY <1>2 DEF Replied
<1> QED
    BY <1>2, <1>3 DEF k

LEMMA RepliedHeld ==
    ASSUME TypeInv, held # <<>>
    PROVE  held \in Seq(Message) /\ Replied(held)
<1>1. held \in Seq(Message) /\ \A m \in Elems(held) : m.role = "user"
    BY DEF TypeInv, ConvTypes
<1>2. Len(held) \in 1..Len(held)
    BY <1>1, EmptySeq
<1>3. held[Len(held)] \in Elems(held)
    BY <1>1, <1>2, ElemsType
<1> QED
    BY <1>1, <1>3 DEF Replied

LEMMA DispatchFit ==
    ASSUME TypeInv, TypeInv', RequestsFit, NEW conv \in Seq(Message), NEW bare \in BOOLEAN,
           Dispatch(conv, bare), WellFormed(conv), bare \/ Replied(conv)
    PROVE  RequestsFit'
<1> DEFINE r == [pass |-> passID', conv |-> conv, bare |-> bare]
<1>1. passID' \in Nat /\ modelInbox \in Seq(Request)
    BY DEF TypeInv, ConvTypes, ModelTypes
<1>2. r \in Request /\ r.conv = conv /\ r.bare = bare
    BY <1>1 DEF Request
<1>3. modelInbox' = Append(modelInbox, r) \/ modelInbox' = modelInbox
    BY DEF Dispatch
<1> HIDE DEF r
<1>4. Elems(Append(modelInbox, r)) = Elems(modelInbox) \cup {r}
    BY <1>1, <1>2, ElemsAppend
<1>5. Fit(r)
    BY <1>2 DEF Fit
<1> QED
    BY <1>3, <1>4, <1>5 DEF RequestsFit

(* The end of a batch: the request ends on a result or on a held turn.     *)
LEMMA ToolEndReplied ==
    ASSUME ~Duplex, TypeInv, PhaseInv, LiveInv, TickToolEnd
    PROVE  Replied(hist')
<1> DEFINE rs == Map(LAMBDA d : Result(d.call), toolWin)
           h == hist \o rs
<1>1. /\ engine = "running" /\ toolOut # <<>> /\ ~Stale(Head(toolOut))
      /\ Head(toolOut).kind = "end"
      /\ \E q : KeepHeld(h, q) \/ PlaceHeld(h, q)
    BY DEF TickToolEnd, ReadTool, Ticking
<1>2. toolWin = Notes(passID, Asked) /\ Asked # <<>>
    BY <1>1, Arrives DEF LastAsks
<1>3. /\ rs \in Seq(Message) /\ AnswersTo(rs, Asked)
      /\ \A i \in 1..Len(Asked) : rs[i].role = "tool"
    BY <1>2, BatchAnswers
<1> HIDE DEF rs
<1>4. Asked \in Seq(CallId) /\ hist \in Seq(Message) /\ held \in Seq(Message)
    BY LiveParts DEF TypeInv, ConvTypes
<1>5. Len(rs) = Len(Asked) /\ Len(Asked) \in 1..Len(Asked)
    BY <1>2, <1>3, <1>4, EmptySeq DEF AnswersTo
<1>6. rs # <<>> /\ rs[Len(rs)].role # "assistant"
    <2>1. Len(<<>>) = 0
        OBVIOUS
    <2> QED
        BY <1>3, <1>5, <2>1
<1>7. Replied(rs)
    BY <1>6 DEF Replied
<1>8. Replied(h) /\ h \in Seq(Message)
    BY <1>3, <1>4, <1>6, <1>7, RepliedConcat, ConcatType
<1> HIDE DEF h
<1>9. hist' = h \/ hist' = h \o held
    BY <1>1 DEF KeepHeld, PlaceHeld
<1>10. CASE hist' = h \o held /\ held # <<>>
    BY <1>8, <1>10, RepliedHeld, RepliedConcat
<1>11. CASE hist' = h \o held /\ held = <<>>
    <2>1. h \o held = h
        BY <1>8, <1>11, EmptySides
    <2> QED
        BY <1>8, <1>11, <2>1
<1> QED
    BY <1>8, <1>9, <1>10, <1>11

LEMMA InterruptReplied ==
    ASSUME TypeInv, TickInterrupt, Head(userOut).id # 0
    PROVE  Replied(hist')
<1> DEFINE id == Head(userOut).id
           saved == hist \o Partial
           results == CancelledResults(saved)
           x == saved \o results
           y == x \o held
           m == User(id)
<1>0. hist \in Seq(Message) /\ held \in Seq(Message) /\ window \in Seq(MDelta)
    BY DEF TypeInv, ConvTypes
<1>1. hist' = y \o <<m>> /\ userOut # <<>>
    BY DEF TickInterrupt, ReadUser
<1>2. m \in Message /\ m.role # "assistant"
    BY <1>1, TurnMessage DEF User
<1>3. Partial \in Seq(Message)
    BY <1>0, PartialType
<1>4. saved \in Seq(Message)
    BY <1>0, <1>3, ConcatType
<1> HIDE DEF saved, m
<1>5. results \in Seq(Message)
    BY <1>4, CancelledType
<1> HIDE DEF results
<1>6. x \in Seq(Message)
    BY <1>4, <1>5, ConcatType
<1> HIDE DEF x
<1>7. y \in Seq(Message)
    BY <1>0, <1>6, ConcatType
<1> HIDE DEF y
<1> DEFINE k == <<m>>
<1>8. k \in Seq(Message) /\ k # <<>> /\ Replied(k)
    BY <1>2, RepliedSmall
<1>9. hist' = y \o k
    BY <1>1
<1> HIDE DEF k
<1> QED
    BY <1>7, <1>8, <1>9, RepliedConcat

LEMMA UserReplied ==
    ASSUME TypeInv, TickUser
    PROVE  Replied(hist')
<1> DEFINE m == User(Head(userOut).id)
           k == <<m>>
<1>0. hist \in Seq(Message)
    BY DEF TypeInv, ConvTypes
<1>1. userOut # <<>> /\ Head(userOut).kind = "turn" /\ hist' = Append(hist, m)
    BY DEF TickUser, ReadUser, KeepHeld
<1>2. Head(userOut).id # 0
    <2>1. Head(userOut).id > 0 /\ Head(userOut).id \in 0..MaxTurns
        BY <1>1, HeadUser DEF UserItem
    <2> QED
        BY <2>1, Constants
<1>3. m \in Message /\ m.role # "assistant"
    BY <1>1, <1>2, TurnMessage DEF User
<1> HIDE DEF m
<1>4. k \in Seq(Message) /\ k # <<>> /\ Replied(k)
    BY <1>3, RepliedSmall
<1>5. hist' = hist \o k
    BY <1>0, <1>1, <1>3, AppendIsConcat
<1> HIDE DEF k
<1> QED
    BY <1>0, <1>4, <1>5, RepliedConcat

LEMMA FinalReplied ==
    ASSUME ~Duplex, TypeInv, TickModelFinal, Resume
    PROVE  Replied(hist')
<1> DEFINE h == Append(hist, Assistant(<<>>))
<1>1. hist' = h \o held /\ held # <<>>
    BY DEF TickModelFinal, PlaceHeld, Resume
<1>2. h \in Seq(Message)
    BY MessageTypes, AppendType DEF TypeInv, ConvTypes
<1> HIDE DEF h
<1> QED
    BY <1>1, <1>2, RepliedHeld, RepliedConcat

LEMMA NextRequests ==
    ASSUME ~Duplex
    PROVE  /\ TypeInv /\ TypeInv' /\ StreamInv /\ PhaseInv /\ LiveInv /\ FormInv'
           /\ RequestsFit /\ [Next]_vars
           => RequestsFit'
<1> SUFFICES ASSUME TypeInv, TypeInv', StreamInv, PhaseInv, LiveInv, FormInv', RequestsFit,
                    [Next]_vars
             PROVE  RequestsFit'
    OBVIOUS
<1>0. hist' \in Seq(Message) /\ modelInbox \in Seq(Request)
    BY DEF TypeInv, ConvTypes, ModelTypes
<1>1. CASE modelInbox' = modelInbox
    BY <1>1 DEF RequestsFit
<1>2. CASE ModelTake \/ SessionTake
    <2>1. modelInbox # <<>> /\ modelInbox' = Tail(modelInbox)
        BY <1>2 DEF ModelTake, SessionTake
    <2> QED
        BY <1>0, <2>1, ElemsTail DEF RequestsFit
<1>3. ASSUME engine' = "running", outstanding' = 0, NEW bare \in BOOLEAN, Dispatch(hist', bare),
             bare \/ Replied(hist')
      PROVE  RequestsFit'
    <2>1. WellFormed(hist')
        BY <1>3 DEF FormInv
    <2> QED
        BY <1>0, <1>3, <2>1, DispatchFit
<1>4. CASE TickModelFinal
    <2>1. CASE Resume
        <3>1. modelOut # <<>> /\ ~Stale(Head(modelOut)) /\ engine = "running"
            BY <1>4 DEF TickModelFinal, ReadModel, Ticking
        <3>2. outstanding = 0
            BY <3>1, FreshModel
        <3>3. engine' = "running" /\ outstanding' = 0 /\ Dispatch(hist', FALSE)
            BY <1>4, <2>1, <3>1, <3>2 DEF TickModelFinal, DispatchInference
        <3>4. Replied(hist')
            BY <1>4, <2>1, FinalReplied
        <3> QED
            BY <1>3, <3>3, <3>4
    <2>2. CASE ~Resume
        BY <1>1, <1>4, <2>2 DEF TickModelFinal
    <2> QED
        BY <2>1, <2>2
<1>5. CASE TickToolEnd
    <2>1. toolOut # <<>> /\ ~Stale(Head(toolOut)) /\ engine = "running"
        BY <1>5 DEF TickToolEnd, ReadTool, Ticking
    <2>2. outstanding = 1
        BY <2>1, FreshTool
    <2>3. engine' = "running" /\ outstanding' = 0 /\ Dispatch(hist', FALSE)
        <3>1. /\ outstanding' = IF outstanding > 0 THEN outstanding - 1 ELSE 0
              /\ engine' = engine
            BY <1>5 DEF TickToolEnd, ReadTool
        <3>2. Dispatch(hist', FALSE)
            BY <1>5 DEF TickToolEnd
        <3>3. outstanding' = 0
            BY <2>2, <3>1
        <3> QED
            BY <2>1, <3>1, <3>2, <3>3
    <2>4. Replied(hist')
        BY <1>5, ToolEndReplied
    <2> QED
        BY <1>3, <2>3, <2>4
<1>6. CASE TickUser
    <2>1. engine' = "running" /\ outstanding' = outstanding /\ ~(outstanding > 0)
          /\ Dispatch(hist', FALSE)
        BY <1>6 DEF TickUser, ReadUser, Ticking, Holding, DispatchInference
    <2>2. outstanding' = 0
        BY <2>1 DEF PhaseInv
    <2>3. Replied(hist')
        BY <1>6, UserReplied
    <2> QED
        BY <1>3, <2>1, <2>2, <2>3
<1>7. CASE TickInterrupt
    <2> DEFINE bare == Head(userOut).id = 0
    <2>1. engine' = "running" /\ outstanding' = 0 /\ Dispatch(hist', bare)
        BY <1>7 DEF TickInterrupt, ReadUser, Ticking
    <2>2. bare \/ Replied(hist')
        BY <1>7, InterruptReplied
    <2>3. bare \in BOOLEAN
        OBVIOUS
    <2> HIDE DEF bare
    <2> QED
        BY <1>3, <2>1, <2>2, <2>3
<1>8. CASE TickUserHeld
    BY <1>1, <1>8 DEF TickUserHeld
<1>9. \/ modelInbox' = modelInbox \/ ModelTake \/ SessionTake
      \/ TickModelFinal \/ TickToolEnd \/ TickUser \/ TickInterrupt \/ TickUserHeld
    BY DEF Next, Caller, Send, SendInterrupt, SendClose, ModelStep, ModelArm, ModelEmit,
       SessionRespond, ToolStep, ToolTake, ToolStart, ToolReturn, ToolFail, ToolEmit, Tick,
       TickStaleModel, TickModelPart, TickReasoningEnd, TickModelCalls, TickModelError,
       TickStaleTool, TickToolPart, TickToolError, TickClose, Stop, vars, modelVars
<1> QED
    BY <1>1, <1>2, <1>4, <1>5, <1>6, <1>7, <1>8, <1>9

LEMMA FitIsWellFormed == TypeInv /\ RequestsFit => RequestWellFormed
<1> SUFFICES ASSUME TypeInv, RequestsFit, NEW r \in Elems(modelInbox)
             PROVE  /\ \A i \in DOMAIN r.conv :
                          r.conv[i].calls # <<>> => AnswersFollow(r.conv, i)
                    /\ \A i \in DOMAIN r.conv :
                          IsResult(r.conv[i]) =>
                              i > 1 /\ (IsResult(r.conv[i - 1]) \/ r.conv[i - 1].calls # <<>>)
                    /\ r.conv # <<>> /\ r.conv[Len(r.conv)].role = "assistant" => r.bare
    BY DEF RequestWellFormed
<1> DEFINE h == r.conv
<1>1. modelInbox \in Seq(Request)
    BY DEF TypeInv, ModelTypes
<1>2. h \in Seq(Message)
    <2>1. r \in Request
        BY <1>1, ElemsType
    <2> QED
        BY <2>1 DEF Request
<1>3. WellFormed(h) /\ (r.bare \/ Replied(h))
    BY DEF RequestsFit, Fit
<1> HIDE DEF h
<1>4. DOMAIN h = 1..Len(h)
    BY <1>2
<1>5. /\ \A i \in DOMAIN h : h[i].calls # <<>> => AnswersFollow(h, i)
      /\ \A i \in DOMAIN h :
           IsResult(h[i]) => i > 1 /\ (IsResult(h[i - 1]) \/ h[i - 1].calls # <<>>)
      /\ h # <<>> /\ h[Len(h)].role = "assistant" => r.bare
    BY <1>3, <1>4 DEF WellFormed, Replied
<1> QED
    BY <1>5 DEF h

(* Every request of a turn-based loop whose tools report every result is   *)
(* one that providers accept: each call directly followed by its one       *)
(* result, real or cancelled by an interrupt, no result without its call,  *)
(* and an assistant message last only after a bare interrupt.              *)
THEOREM RequestsAccepted ==
    ASSUME ~Duplex, ~RepeatIDs, ~ToolsMayFail
    PROVE  Spec => []RequestWellFormed
<1>1. Init => FormInv /\ RequestsFit
    <2> SUFFICES ASSUME Init PROVE FormInv /\ RequestsFit
        OBVIOUS
    <2>1. hist = <<>> /\ modelInbox = <<>> /\ outstanding = 0
        BY DEF Init
    <2>2. Elems(<<>>) = {} /\ Len(<<>>) = 0
        BY ElemsSmall
    <2>3. WellFormed(<<>>)
        BY <2>2 DEF WellFormed
    <2> QED
        BY <2>1, <2>2, <2>3 DEF FormInv, RequestsFit
<1>2. TypeInv /\ HeldPlain /\ StreamInv /\ PhaseInv /\ NoClose /\ LiveInv /\ FormInv
      /\ [Next]_vars => FormInv'
    BY NextForm
<1>3. TypeInv /\ TypeInv' /\ StreamInv /\ PhaseInv /\ LiveInv /\ FormInv'
      /\ RequestsFit /\ [Next]_vars => RequestsFit'
    BY NextRequests
<1>4. Spec => []PhaseInv
    BY Phases
<1>5. Spec => []LiveInv
    BY Lives
<1>6. Spec => [](RestInv /\ NoClose)
    BY Rests
<1> QED
    BY <1>1, <1>2, <1>3, <1>4, <1>5, <1>6, Typed, Streams, HeldsPlain, FitIsWellFormed, PTL
    DEF Spec

=============================================================================
