--------------------------- MODULE SequenceLemmas ---------------------------
(***************************************************************************)
(* What the proofs about the queues of the loop keep needing: a queue that *)
(* passes its head on, a queue that takes a new element, prefixes of what  *)
(* was sent, and what the loop of SequenceFilter computes, by induction.   *)
(***************************************************************************)
EXTENDS SequencesExt, SequenceTheorems, SequenceFilter, WellFoundedInduction, TLAPS

LEMMA AppendType ==
    ASSUME NEW S, NEW s \in Seq(S), NEW e \in S
    PROVE  /\ Append(s, e) \in Seq(S)
           /\ Len(Append(s, e)) = Len(s) + 1
           /\ Append(s, e) # <<>>
           /\ \A i \in 1..Len(s) : Append(s, e)[i] = s[i]
           /\ Append(s, e)[Len(s) + 1] = e
BY SMT

LEMMA TailType ==
    ASSUME NEW S, NEW s \in Seq(S), s # <<>>
    PROVE  /\ Tail(s) \in Seq(S)
           /\ Len(Tail(s)) = Len(s) - 1
           /\ Len(s) > 0
           /\ Head(s) \in S
           /\ Head(s) = s[1]
           /\ \A i \in 1..(Len(s) - 1) : Tail(s)[i] = s[i + 1]
BY SMT

LEMMA ConcatType ==
    ASSUME NEW S, NEW s \in Seq(S), NEW t \in Seq(S)
    PROVE  /\ s \o t \in Seq(S)
           /\ Len(s \o t) = Len(s) + Len(t)
           /\ \A i \in 1..Len(s) : (s \o t)[i] = s[i]
           /\ \A i \in 1..Len(t) : (s \o t)[Len(s) + i] = t[i]
BY SMT

LEMMA SingletonType ==
    ASSUME NEW S, NEW e \in S
    PROVE  <<e>> \in Seq(S) /\ Len(<<e>>) = 1 /\ <<e>>[1] = e
BY SMT

(* A reader moves the head of a queue behind what it has read.             *)
LEMMA PassHead ==
    ASSUME NEW S, NEW s \in Seq(S), NEW t \in Seq(S), t # <<>>
    PROVE  /\ Append(s, Head(t)) \o Tail(t) = s \o t
           /\ t = <<Head(t)>> \o Tail(t)
<1> DEFINE u == Append(s, Head(t)) \o Tail(t)
<1>1. Head(t) \in S /\ Tail(t) \in Seq(S)
    BY TailType
<1>2. t = <<Head(t)>> \o Tail(t)
    <2>1. <<Head(t)>> \o Tail(t) \in Seq(S) /\ Len(<<Head(t)>> \o Tail(t)) = Len(t)
        BY <1>1, SingletonType, ConcatProperties, TailType
    <2>2. \A i \in 1..Len(t) : (<<Head(t)>> \o Tail(t))[i] = t[i]
        BY <1>1, SingletonType, ConcatProperties, TailType
    <2> QED
        BY <2>1, <2>2, SeqEqual
<1>3. Append(s, Head(t)) = s \o <<Head(t)>>
    BY <1>1, AppendIsConcat
<1>4. (s \o <<Head(t)>>) \o Tail(t) = s \o (<<Head(t)>> \o Tail(t))
    BY <1>1, SingletonType, ConcatAssociative
<1> QED
    BY <1>2, <1>3, <1>4

(* A writer appends to the last queue of a path.                           *)
LEMMA AppendConcat ==
    ASSUME NEW S, NEW s \in Seq(S), NEW t \in Seq(S), NEW e \in S
    PROVE  s \o Append(t, e) = Append(s \o t, e)
<1>1. Append(t, e) = t \o <<e>> /\ Append(s \o t, e) = (s \o t) \o <<e>>
    BY AppendIsConcat, ConcatProperties
<1> QED
    BY <1>1, SingletonType, ConcatAssociative

LEMMA PrefixIsPointwise ==
    ASSUME NEW S, NEW s \in Seq(S), NEW t \in Seq(S)
    PROVE  IsPrefix(s, t) <=> /\ Len(s) <= Len(t)
                              /\ \A i \in 1..Len(s) : s[i] = t[i]
<1>1. CASE Len(s) > Len(t)
    BY <1>1 DEF IsPrefix
<1>2. CASE Len(s) <= Len(t)
    <2>1. /\ Len(s) \in Nat /\ Len(t) \in Nat
          /\ \A i \in 1..Len(s) : s[i] \in S /\ t[i] \in S
        BY <1>2
    <2>2. /\ SubSeq(t, 1, Len(s)) \in Seq(S)
          /\ Len(SubSeq(t, 1, Len(s))) = Len(s)
          /\ \A i \in 1..Len(s) : SubSeq(t, 1, Len(s))[i] = t[i]
        BY <2>1, SubSeqProperties
    <2>3. SubSeq(s, 1, Len(s)) = s
        BY SubSeqFull
    <2> QED
        BY <1>2, <2>1, <2>2, <2>3, SeqEqual DEF IsPrefix
<1> QED
    BY <1>1, <1>2

LEMMA PrefixOfConcat ==
    ASSUME NEW S, NEW s \in Seq(S), NEW t \in Seq(S)
    PROVE  IsPrefix(s, s \o t)
<1>1. /\ s \o t \in Seq(S) /\ Len(s) <= Len(s \o t)
      /\ \A i \in 1..Len(s) : (s \o t)[i] = s[i]
    BY ConcatProperties
<1> QED
    BY <1>1, PrefixIsPointwise

LEMMA PrefixOfAppend ==
    ASSUME NEW S, NEW s \in Seq(S), NEW t \in Seq(S), NEW e \in S, IsPrefix(s, t)
    PROVE  IsPrefix(s, Append(t, e))
<1>1. Len(s) <= Len(t) /\ \A i \in 1..Len(s) : s[i] = t[i]
    BY PrefixIsPointwise
<1>2. /\ Append(t, e) \in Seq(S) /\ Len(s) <= Len(Append(t, e))
      /\ \A i \in 1..Len(s) : s[i] = Append(t, e)[i]
    BY <1>1, AppendType
<1> QED
    BY <1>2, PrefixIsPointwise

LEMMA EmptyPath ==
    <<>> \o <<>> = <<>> /\ IsPrefix(<<>>, <<>>)
<1>1. <<>> \in Seq({}) /\ <<>> \o <<>> = <<>>
    BY EmptySeq, ConcatEmptySeq
<1> QED
    BY <1>1, PrefixOfConcat
-----------------------------------------------------------------------------
(* The loop of SequenceFilter                                              *)

(* Induction over the natural numbers, for a set instead of a predicate.   *)
LEMMA LeastNumber ==
    ASSUME NEW T \in SUBSET Nat, T # {}
    PROVE  \E x \in T : \A y \in T : x <= y
<1> DEFINE R == OpToRel(<, Nat)
<1>1. IsWellFoundedOn(R, Nat)
    BY NatLessThanWellFounded
<1>2. \A x, y \in Nat : <<y, x>> \in R <=> y < x
    BY DEF OpToRel
<1> HIDE DEF R
<1>3. PICK x \in T : \A y \in T : ~ (<<y, x>> \in R)
    BY <1>1, WFMin
<1>4. \A y \in T : ~ (y < x)
    BY <1>2, <1>3
<1>5. \A y \in T : y \in Nat
    OBVIOUS
<1>6. \A y \in T : x <= y
    BY <1>4, <1>5
<1> QED
    BY <1>6

LEMMA SetInduction ==
    ASSUME NEW S \in SUBSET Nat, 0 \in S, \A n \in S : n + 1 \in S
    PROVE  S = Nat
<1> SUFFICES ASSUME Nat \ S # {} PROVE FALSE
    OBVIOUS
<1>1. PICK x \in Nat \ S : \A y \in Nat \ S : x <= y
    BY LeastNumber
<1>2. x \in Nat /\ x # 0
    BY <1>1
<1>3. x - 1 \in Nat /\ x - 1 < x /\ (x - 1) + 1 = x
    BY <1>2
<1>4. x - 1 \in S
    BY <1>1, <1>3
<1> QED
    BY <1>1, <1>3, <1>4

(* One step of the loop.                                                   *)
OnlyStep(f, s, T, i) ==
    f[i] = IF i = 0 THEN <<>>
           ELSE IF s[i] \in T THEN Append(f[i - 1], s[i]) ELSE f[i - 1]

(* The loop can be run for n steps.                                        *)
OnlyBuilt(S, s, T, n) ==
    \E f \in [0..n -> Seq(S)] : \A i \in 0..n : OnlyStep(f, s, T, i)

LEMMA OnlyExists ==
    ASSUME NEW S, NEW s \in Seq(S), NEW T
    PROVE  OnlyBuilt(S, s, T, Len(s))
<1> DEFINE Good == {n \in Nat : n <= Len(s) => OnlyBuilt(S, s, T, n)}
<1>0. Len(s) \in Nat
    OBVIOUS
<1>1. OnlyBuilt(S, s, T, 0)
    <2> DEFINE f == [i \in 0..0 |-> <<>>]
    <2>1. f \in [0..0 -> Seq(S)] /\ \A i \in 0..0 : OnlyStep(f, s, T, i)
        BY DEF OnlyStep
    <2> QED
        BY <2>1 DEF OnlyBuilt
<1>2. ASSUME NEW n \in Nat, n + 1 <= Len(s), OnlyBuilt(S, s, T, n)
      PROVE  OnlyBuilt(S, s, T, n + 1)
    <2>1. PICK f \in [0..n -> Seq(S)] : \A i \in 0..n : OnlyStep(f, s, T, i)
        BY <1>2 DEF OnlyBuilt
    <2> DEFINE last == IF s[n + 1] \in T THEN Append(f[n], s[n + 1]) ELSE f[n]
               g == [i \in 0..(n + 1) |-> IF i <= n THEN f[i] ELSE last]
    <2>2. f[n] \in Seq(S) /\ s[n + 1] \in S
        BY <1>2
    <2>3. last \in Seq(S)
        BY <2>2
    <2> HIDE DEF last
    <2>4. g \in [0..(n + 1) -> Seq(S)]
        BY <2>3
    <2>5. \A i \in 0..n : g[i] = f[i]
        OBVIOUS
    <2>6. g[n + 1] = last
        OBVIOUS
    <2> HIDE DEF g
    <2>7. \A i \in 0..n : OnlyStep(g, s, T, i)
        <3> SUFFICES ASSUME NEW i \in 0..n PROVE OnlyStep(g, s, T, i)
            OBVIOUS
        <3>1. OnlyStep(f, s, T, i) /\ g[i] = f[i]
            BY <2>1, <2>5
        <3>2. i # 0 => g[i - 1] = f[i - 1]
            BY <2>5
        <3> QED
            BY <3>1, <3>2 DEF OnlyStep
    <2>8. OnlyStep(g, s, T, n + 1)
        <3>1. n + 1 # 0 /\ (n + 1) - 1 = n /\ n \in 0..n
            OBVIOUS
        <3> QED
            BY <2>5, <2>6, <3>1 DEF OnlyStep, last
    <2>9. \A i \in 0..(n + 1) : i \in 0..n \/ i = n + 1
        OBVIOUS
    <2> QED
        BY <2>4, <2>7, <2>8, <2>9 DEF OnlyBuilt
<1>3. 0 \in Good
    BY <1>1
<1>4. \A n \in Good : n + 1 \in Good
    BY <1>0, <1>2
<1>5. Good \in SUBSET Nat
    OBVIOUS
<1> HIDE DEF Good
<1>6. Good = Nat
    BY <1>3, <1>4, <1>5, SetInduction
<1> QED
    BY <1>0, <1>6 DEF Good

(* The recursive definition defines what it says.                          *)
LEMMA OnlyUpToDef ==
    ASSUME NEW S, NEW s \in Seq(S), NEW T
    PROVE  \A i \in 0..Len(s) :
              OnlyUpTo(s, T)[i] \in Seq(S) /\ OnlyStep(OnlyUpTo(s, T), s, T, i)
<1> DEFINE P(f) == f = [i \in 0..Len(s) |->
                          IF i = 0 THEN <<>>
                          ELSE IF s[i] \in T THEN Append(f[i - 1], s[i]) ELSE f[i - 1]]
           F == OnlyUpTo(s, T)
           Good == {n \in Nat : n <= Len(s) => F[n] \in Seq(S)}
<1>0. Len(s) \in Nat
    OBVIOUS
<1>1. F = CHOOSE f : P(f)
    BY DEF OnlyUpTo
<1>2. PICK g \in [0..Len(s) -> Seq(S)] : \A i \in 0..Len(s) : OnlyStep(g, s, T, i)
    BY OnlyExists DEF OnlyBuilt
<1>3. P(g)
    BY <1>2 DEF OnlyStep
<1>4. P(F)
    BY <1>1, <1>3
<1> HIDE DEF F
<1>5. \A i \in 0..Len(s) : OnlyStep(F, s, T, i)
    BY <1>4 DEF OnlyStep
<1>6. 0 \in Good
    <2>1. OnlyStep(F, s, T, 0)
        BY <1>0, <1>5
    <2>2. F[0] = <<>> /\ <<>> \in Seq(S)
        BY <2>1 DEF OnlyStep
    <2> QED
        BY <2>2
<1>7. \A n \in Good : n + 1 \in Good
    <2> SUFFICES ASSUME NEW n \in Nat, n + 1 <= Len(s), F[n] \in Seq(S)
                 PROVE  F[n + 1] \in Seq(S)
        BY <1>0
    <2>1. OnlyStep(F, s, T, n + 1) /\ (n + 1) - 1 = n /\ n + 1 # 0 /\ s[n + 1] \in S
        BY <1>0, <1>5
    <2> QED
        BY <2>1 DEF OnlyStep
<1>8. Good \in SUBSET Nat
    OBVIOUS
<1> HIDE DEF Good
<1>9. Good = Nat
    BY <1>6, <1>7, <1>8, SetInduction
<1> QED
    BY <1>0, <1>5, <1>9 DEF Good, F

LEMMA OnlyType ==
    ASSUME NEW S, NEW s \in Seq(S), NEW T
    PROVE  Only(s, T) \in Seq(S)
<1>1. Len(s) \in 0..Len(s)
    OBVIOUS
<1> QED
    BY <1>1, OnlyUpToDef DEF Only

LEMMA OnlyEmpty ==
    ASSUME NEW T
    PROVE  Only(<<>>, T) = <<>>
<1>1. <<>> \in Seq({}) /\ Len(<<>>) = 0 /\ 0 \in 0..0
    OBVIOUS
<1>2. OnlyStep(OnlyUpTo(<<>>, T), <<>>, T, 0)
    BY <1>1, OnlyUpToDef
<1> QED
    BY <1>1, <1>2 DEF OnlyStep, Only

(* The loop over a slice that grew: it starts as the one over the slice    *)
(* before and ends with one more step.                                     *)
LEMMA OnlyAppend ==
    ASSUME NEW S, NEW s \in Seq(S), NEW e \in S, NEW T
    PROVE  Only(Append(s, e), T) = IF e \in T THEN Append(Only(s, T), e)
                                   ELSE Only(s, T)
<1> DEFINE t == Append(s, e)
           F == OnlyUpTo(s, T)
           G == OnlyUpTo(t, T)
           Good == {n \in Nat : n <= Len(s) => G[n] = F[n]}
<1>0. /\ Len(s) \in Nat /\ t \in Seq(S) /\ Len(t) = Len(s) + 1
      /\ \A i \in 1..Len(s) : t[i] = s[i]
      /\ t[Len(s) + 1] = e
    BY AppendType
<1>1. \A i \in 0..Len(s) : OnlyStep(F, s, T, i)
    BY OnlyUpToDef
<1>2. \A i \in 0..Len(t) : OnlyStep(G, t, T, i)
    BY <1>0, OnlyUpToDef
<1> HIDE DEF F, G, t
<1>3. 0 \in Good
    <2>1. OnlyStep(F, s, T, 0) /\ OnlyStep(G, t, T, 0)
        BY <1>0, <1>1, <1>2
    <2> QED
        BY <2>1 DEF OnlyStep
<1>4. \A n \in Good : n + 1 \in Good
    <2> SUFFICES ASSUME NEW n \in Nat, n + 1 <= Len(s), G[n] = F[n]
                 PROVE  G[n + 1] = F[n + 1]
        BY <1>0
    <2>1. OnlyStep(F, s, T, n + 1) /\ OnlyStep(G, t, T, n + 1)
        BY <1>0, <1>1, <1>2
    <2>2. (n + 1) - 1 = n /\ n + 1 # 0 /\ t[n + 1] = s[n + 1]
        BY <1>0
    <2> QED
        BY <2>1, <2>2 DEF OnlyStep
<1>5. Good \in SUBSET Nat
    OBVIOUS
<1> HIDE DEF Good
<1>6. Good = Nat
    BY <1>3, <1>4, <1>5, SetInduction
<1>7. G[Len(s)] = F[Len(s)]
    BY <1>0, <1>6 DEF Good
<1>8. OnlyStep(G, t, T, Len(s) + 1)
    BY <1>0, <1>2
<1>9. (Len(s) + 1) - 1 = Len(s) /\ Len(s) + 1 # 0
    BY <1>0
<1>10. G[Len(t)] = IF e \in T THEN Append(F[Len(s)], e) ELSE F[Len(s)]
    BY <1>0, <1>7, <1>8, <1>9 DEF OnlyStep
<1> QED
    BY <1>10 DEF Only, F, G, t

(* G holds every sequence of length n.                                     *)
HoldsLength(S, G, n) == \A s \in Seq(S) : Len(s) = n => s \in G

(* Induction over sequences that grow at their end.                        *)
LEMMA AppendInduction ==
    ASSUME NEW S, NEW G \in SUBSET Seq(S), <<>> \in G,
           \A s \in G, e \in S : Append(s, e) \in G
    PROVE  G = Seq(S)
<1> DEFINE Good == {n \in Nat : HoldsLength(S, G, n)}
<1>1. 0 \in Good
    <2>1. \A s \in Seq(S) : Len(s) = 0 => s = <<>>
        OBVIOUS
    <2> QED
        BY <2>1 DEF HoldsLength
<1>2. \A n \in Good : n + 1 \in Good
    <2> SUFFICES ASSUME NEW n \in Nat, HoldsLength(S, G, n)
                 PROVE  HoldsLength(S, G, n + 1)
        OBVIOUS
    <2> SUFFICES ASSUME NEW s \in Seq(S), Len(s) = n + 1
                 PROVE  s \in G
        BY DEF HoldsLength
    <2> DEFINE r == [i \in 1..n |-> s[i]]
    <2>1. r \in Seq(S) /\ Len(r) = n /\ s[n + 1] \in S
        OBVIOUS
    <2>2. s = Append(r, s[n + 1])
        <3>1. Append(r, s[n + 1]) \in Seq(S) /\ Len(Append(r, s[n + 1])) = Len(s)
            BY <2>1, AppendType
        <3>2. \A i \in 1..Len(s) : Append(r, s[n + 1])[i] = s[i]
            <4> SUFFICES ASSUME NEW i \in 1..Len(s)
                         PROVE  Append(r, s[n + 1])[i] = s[i]
                OBVIOUS
            <4>1. CASE i = n + 1
                BY <2>1, <4>1, AppendType
            <4>2. CASE i \in 1..n
                <5>1. r[i] = s[i]
                    BY <4>2
                <5> HIDE DEF r
                <5> QED
                    BY <2>1, <4>2, <5>1, AppendType
            <4> QED
                BY <4>1, <4>2
        <3> QED
            BY <3>1, <3>2, SeqEqual
    <2> HIDE DEF r
    <2> QED
        BY <2>1, <2>2 DEF HoldsLength
<1>3. Good \in SUBSET Nat
    OBVIOUS
<1> HIDE DEF Good
<1>4. Good = Nat
    BY <1>1, <1>2, <1>3, SetInduction
<1>5. \A s \in Seq(S) : s \in G
    <2> SUFFICES ASSUME NEW s \in Seq(S) PROVE s \in G
        OBVIOUS
    <2>1. Len(s) \in Nat
        OBVIOUS
    <2> QED
        BY <1>4, <2>1 DEF Good, HoldsLength
<1> QED
    BY <1>5

LEMMA ElemsAppend ==
    ASSUME NEW S, NEW s \in Seq(S), NEW e \in S
    PROVE  Elems(Append(s, e)) = Elems(s) \cup {e}
<1>1. DOMAIN s = 1..Len(s) /\ DOMAIN Append(s, e) = 1..(Len(s) + 1) /\ Len(s) \in Nat
    BY AppendType
<1> QED
    BY <1>1, AppendType DEF Elems

LEMMA ElemsConcat ==
    ASSUME NEW S, NEW s \in Seq(S), NEW t \in Seq(S)
    PROVE  Elems(s \o t) = Elems(s) \cup Elems(t)
<1>1. /\ DOMAIN s = 1..Len(s) /\ DOMAIN t = 1..Len(t)
      /\ DOMAIN (s \o t) = 1..(Len(s) + Len(t))
      /\ Len(s) \in Nat /\ Len(t) \in Nat
      /\ \A i \in 1..Len(s) : (s \o t)[i] = s[i]
      /\ \A i \in 1..Len(t) : (s \o t)[Len(s) + i] = t[i]
    BY ConcatProperties
<1>2. \A i \in 1..(Len(s) + Len(t)) :
         i \in 1..Len(s) \/ (i - Len(s) \in 1..Len(t) /\ (s \o t)[i] = t[i - Len(s)])
    <2> SUFFICES ASSUME NEW i \in 1..(Len(s) + Len(t)), i \notin 1..Len(s)
                 PROVE  i - Len(s) \in 1..Len(t) /\ (s \o t)[i] = t[i - Len(s)]
        OBVIOUS
    <2>1. i - Len(s) \in 1..Len(t) /\ Len(s) + (i - Len(s)) = i
        BY <1>1
    <2> QED
        BY <1>1, <2>1
<1>3. \A i \in 1..Len(t) : Len(s) + i \in 1..(Len(s) + Len(t))
    BY <1>1
<1>4. Elems(s \o t) \subseteq Elems(s) \cup Elems(t)
    BY <1>1, <1>2 DEF Elems
<1>5. Elems(s) \subseteq Elems(s \o t)
    BY <1>1 DEF Elems
<1>6. Elems(t) \subseteq Elems(s \o t)
    BY <1>1, <1>3 DEF Elems
<1> QED
    BY <1>4, <1>5, <1>6

LEMMA ElemsType ==
    ASSUME NEW S, NEW s \in Seq(S)
    PROVE  Elems(s) \subseteq S /\ (\A i \in 1..Len(s) : s[i] \in Elems(s))
BY DEF Elems

LEMMA ElemsTail ==
    ASSUME NEW S, NEW s \in Seq(S), s # <<>>
    PROVE  Elems(s) = {Head(s)} \cup Elems(Tail(s)) /\ Head(s) \in Elems(s)
<1>1. /\ DOMAIN s = 1..Len(s) /\ DOMAIN Tail(s) = 1..(Len(s) - 1)
      /\ Len(s) \in Nat /\ Len(s) > 0
    BY TailType
<1>2. \A i \in DOMAIN s : i = 1 \/ (i - 1 \in DOMAIN Tail(s) /\ s[i] = Tail(s)[i - 1])
    BY <1>1, TailType
<1>3. \A i \in DOMAIN Tail(s) : i + 1 \in DOMAIN s /\ Tail(s)[i] = s[i + 1]
    BY <1>1, TailType
<1>4. Elems(s) \subseteq {Head(s)} \cup Elems(Tail(s))
    BY ZenonT(60), <1>2, TailType DEF Elems
<1>5. Elems(Tail(s)) \subseteq Elems(s)
    BY <1>3 DEF Elems
<1>6. Head(s) \in Elems(s)
    BY <1>1, TailType DEF Elems
<1> QED
    BY <1>4, <1>5, <1>6

LEMMA ElemsSmall ==
    ASSUME NEW e
    PROVE  Elems(<<>>) = {} /\ Elems(<<e>>) = {e}
BY DEF Elems

LEMMA OnlyElems ==
    ASSUME NEW S, NEW s \in Seq(S), NEW T
    PROVE  Elems(Only(s, T)) = Elems(s) \cap T
<1> DEFINE G == {q \in Seq(S) : Elems(Only(q, T)) = Elems(q) \cap T}
<1>1. <<>> \in G
    <2>1. <<>> \in Seq(S) /\ Elems(<<>>) = {}
        BY DEF Elems
    <2> QED
        BY <2>1, OnlyEmpty
<1>2. \A q \in G, e \in S : Append(q, e) \in G
    <2> SUFFICES ASSUME NEW q \in Seq(S), Elems(Only(q, T)) = Elems(q) \cap T,
                        NEW e \in S
                 PROVE  Elems(Only(Append(q, e), T)) = Elems(Append(q, e)) \cap T
        BY AppendType
    <2>1. Elems(Append(q, e)) = Elems(q) \cup {e}
        BY ElemsAppend
    <2>2. Elems(Append(Only(q, T), e)) = Elems(Only(q, T)) \cup {e}
        BY OnlyType, ElemsAppend
    <2>3. Only(Append(q, e), T) = IF e \in T THEN Append(Only(q, T), e) ELSE Only(q, T)
        BY OnlyAppend
    <2>4. CASE e \in T
        BY <2>1, <2>2, <2>3, <2>4
    <2>5. CASE e \notin T
        BY <2>1, <2>3, <2>5
    <2> QED
        BY <2>4, <2>5
<1>3. G \in SUBSET Seq(S)
    OBVIOUS
<1> HIDE DEF G
<1>4. G = Seq(S)
    BY <1>1, <1>2, <1>3, AppendInduction
<1> QED
    BY <1>4 DEF G

LEMMA OnlyConcat ==
    ASSUME NEW S, NEW s \in Seq(S), NEW t \in Seq(S), NEW T
    PROVE  Only(s \o t, T) = Only(s, T) \o Only(t, T)
<1> DEFINE G == {q \in Seq(S) : Only(s \o q, T) = Only(s, T) \o Only(q, T)}
<1>0. Only(s, T) \in Seq(S)
    BY OnlyType
<1>1. <<>> \in G
    BY <1>0, OnlyEmpty, ConcatEmptySeq, EmptySeq
<1>2. \A q \in G, e \in S : Append(q, e) \in G
    <2> SUFFICES ASSUME NEW q \in Seq(S), NEW e \in S,
                        Only(s \o q, T) = Only(s, T) \o Only(q, T)
                 PROVE  Only(s \o Append(q, e), T) = Only(s, T) \o Only(Append(q, e), T)
        BY AppendType
    <2>1. s \o Append(q, e) = Append(s \o q, e) /\ s \o q \in Seq(S)
        BY AppendConcat, ConcatProperties
    <2> DEFINE sq == s \o q
    <2>a. sq \in Seq(S)
        BY <2>1
    <2> HIDE DEF sq
    <2>b. Only(Append(sq, e), T) = IF e \in T THEN Append(Only(sq, T), e) ELSE Only(sq, T)
        BY <2>a, OnlyAppend
    <2> USE DEF sq
    <2>2. Only(Append(s \o q, e), T)
            = IF e \in T THEN Append(Only(s \o q, T), e) ELSE Only(s \o q, T)
        BY <2>b, Zenon
    <2>3. Only(Append(q, e), T) = IF e \in T THEN Append(Only(q, T), e) ELSE Only(q, T)
        BY OnlyAppend
    <2>4. Only(s, T) \o Append(Only(q, T), e) = Append(Only(s, T) \o Only(q, T), e)
        BY <1>0, OnlyType, AppendConcat
    <2> QED
        BY <2>1, <2>2, <2>3, <2>4
<1>3. G \in SUBSET Seq(S)
    OBVIOUS
<1> HIDE DEF G
<1>4. G = Seq(S)
    BY <1>1, <1>2, <1>3, AppendInduction
<1> QED
    BY <1>4 DEF G

(* Only what the set says about entries of the sequence matters.           *)
LEMMA OnlySame ==
    ASSUME NEW S, NEW s \in Seq(S), NEW T, NEW U, Elems(s) \cap T = Elems(s) \cap U
    PROVE  Only(s, T) = Only(s, U)
<1> DEFINE G == {q \in Seq(S) : Elems(q) \cap T = Elems(q) \cap U
                                  => Only(q, T) = Only(q, U)}
<1>1. <<>> \in G
    BY OnlyEmpty
<1>2. \A q \in G, e \in S : Append(q, e) \in G
    <2> SUFFICES ASSUME NEW q \in Seq(S), NEW e \in S,
                        Elems(q) \cap T = Elems(q) \cap U => Only(q, T) = Only(q, U),
                        Elems(Append(q, e)) \cap T = Elems(Append(q, e)) \cap U
                 PROVE  Only(Append(q, e), T) = Only(Append(q, e), U)
        BY AppendType
    <2>1. Elems(Append(q, e)) = Elems(q) \cup {e}
        BY ElemsAppend
    <2>2. (e \in T <=> e \in U) /\ Elems(q) \cap T = Elems(q) \cap U
        BY <2>1
    <2>3. /\ Only(Append(q, e), T) = IF e \in T THEN Append(Only(q, T), e) ELSE Only(q, T)
          /\ Only(Append(q, e), U) = IF e \in U THEN Append(Only(q, U), e) ELSE Only(q, U)
        BY OnlyAppend
    <2> QED
        BY <2>2, <2>3
<1>3. G \in SUBSET Seq(S)
    OBVIOUS
<1> HIDE DEF G
<1>4. G = Seq(S)
    BY <1>1, <1>2, <1>3, AppendInduction
<1> QED
    BY <1>4 DEF G

LEMMA ElemsEmpty ==
    ASSUME NEW S, NEW s \in Seq(S), Elems(s) = {}
    PROVE  s = <<>>
<1> SUFFICES ASSUME s # <<>> PROVE FALSE
    OBVIOUS
<1>1. 1 \in DOMAIN s
    BY TailType
<1> QED
    BY <1>1 DEF Elems

LEMMA OnlyNone ==
    ASSUME NEW S, NEW s \in Seq(S), NEW T, Elems(s) \cap T = {}
    PROVE  Only(s, T) = <<>>
<1>1. Only(s, T) \in Seq(S) /\ Elems(Only(s, T)) = {}
    BY OnlyType, OnlyElems
<1> QED
    BY <1>1, ElemsEmpty

LEMMA OnlyAll ==
    ASSUME NEW S, NEW s \in Seq(S), NEW T, Elems(s) \subseteq T
    PROVE  Only(s, T) = s
<1> DEFINE G == {q \in Seq(S) : Elems(q) \subseteq T => Only(q, T) = q}
<1>1. <<>> \in G
    BY OnlyEmpty
<1>2. \A q \in G, e \in S : Append(q, e) \in G
    <2> SUFFICES ASSUME NEW q \in Seq(S), NEW e \in S,
                        Elems(q) \subseteq T => Only(q, T) = q,
                        Elems(Append(q, e)) \subseteq T
                 PROVE  Only(Append(q, e), T) = Append(q, e)
        BY AppendType
    <2>1. Elems(Append(q, e)) = Elems(q) \cup {e}
        BY ElemsAppend
    <2>2. e \in T /\ Only(q, T) = q
        BY <2>1
    <2> QED
        BY <2>2, OnlyAppend
<1>3. G \in SUBSET Seq(S)
    OBVIOUS
<1> HIDE DEF G
<1>4. G = Seq(S)
    BY <1>1, <1>2, <1>3, AppendInduction
<1> QED
    BY <1>4 DEF G

(* No entry occurs twice.                                                  *)
Distinct(s) == \A i, j \in DOMAIN s : s[i] = s[j] => i = j

LEMMA DistinctAppend ==
    ASSUME NEW S, NEW s \in Seq(S), NEW e \in S
    PROVE  Distinct(Append(s, e)) <=> Distinct(s) /\ e \notin Elems(s)
<1>1. DOMAIN s = 1..Len(s) /\ DOMAIN Append(s, e) = 1..(Len(s) + 1) /\ Len(s) \in Nat
    BY AppendType
<1>2. \A i \in 1..Len(s) : i # Len(s) + 1 /\ i \in 1..(Len(s) + 1)
    BY <1>1
<1>3. \A i \in 1..(Len(s) + 1) : i = Len(s) + 1 \/ i \in 1..Len(s)
    BY <1>1
<1>4. Len(s) + 1 \in 1..(Len(s) + 1)
    BY <1>1
<1>5. ASSUME Distinct(Append(s, e)) PROVE Distinct(s) /\ e \notin Elems(s)
    <2>1. Distinct(s)
        BY <1>1, <1>2, <1>5, AppendType DEF Distinct
    <2>2. \A i \in 1..Len(s) : s[i] # e
        BY <1>1, <1>2, <1>4, <1>5, AppendType DEF Distinct
    <2> QED
        BY <1>1, <2>1, <2>2 DEF Elems
<1>6. ASSUME Distinct(s), e \notin Elems(s) PROVE Distinct(Append(s, e))
    <2>1. \A i \in 1..Len(s) : s[i] # e
        BY <1>1, <1>6 DEF Elems
    <2> QED
        BY <1>1, <1>3, <1>6, <2>1, AppendType DEF Distinct
<1> QED
    BY <1>5, <1>6

LEMMA OnlyDistinct ==
    ASSUME NEW S, NEW s \in Seq(S), NEW T, Distinct(s)
    PROVE  Distinct(Only(s, T))
<1> DEFINE G == {q \in Seq(S) : Distinct(q) => Distinct(Only(q, T))}
<1>1. <<>> \in G
    BY OnlyEmpty
<1>2. \A q \in G, e \in S : Append(q, e) \in G
    <2> SUFFICES ASSUME NEW q \in Seq(S), NEW e \in S,
                        Distinct(q) => Distinct(Only(q, T)), Distinct(Append(q, e))
                 PROVE  Distinct(Only(Append(q, e), T))
        BY AppendType
    <2>1. Distinct(q) /\ e \notin Elems(q)
        BY DistinctAppend
    <2>2. Only(q, T) \in Seq(S) /\ e \notin Elems(Only(q, T))
        BY <2>1, OnlyType, OnlyElems
    <2>3. Distinct(Append(Only(q, T), e))
        BY <2>1, <2>2, DistinctAppend
    <2> QED
        BY <2>1, <2>3, OnlyAppend
<1>3. G \in SUBSET Seq(S)
    OBVIOUS
<1> HIDE DEF G
<1>4. G = Seq(S)
    BY <1>1, <1>2, <1>3, AppendInduction
<1> QED
    BY <1>4 DEF G

LEMMA DistinctConcat ==
    ASSUME NEW S, NEW s \in Seq(S), NEW t \in Seq(S),
           Distinct(s), Distinct(t), Elems(s) \cap Elems(t) = {}
    PROVE  Distinct(s \o t)
<1> DEFINE u == s \o t
           n == Len(s)
<1>1. /\ u \in Seq(S) /\ Len(u) = n + Len(t) /\ n \in Nat /\ Len(t) \in Nat
      /\ \A i \in 1..n : u[i] = s[i]
      /\ \A i \in 1..Len(t) : u[n + i] = t[i]
    BY ConcatType
<1>2. /\ \A i \in 1..n : s[i] \in Elems(s)
      /\ \A i \in 1..Len(t) : t[i] \in Elems(t)
    BY DEF Elems
<1>3. /\ \A i, j \in 1..n : s[i] = s[j] => i = j
      /\ \A i, j \in 1..Len(t) : t[i] = t[j] => i = j
    BY DEF Distinct
<1> HIDE DEF u, n
<1>4. \A i \in 1..Len(u) : i \in 1..n \/ \E l \in 1..Len(t) : i = n + l
    <2> SUFFICES ASSUME NEW i \in 1..Len(u), i \notin 1..n
                 PROVE  \E l \in 1..Len(t) : i = n + l
        OBVIOUS
    <2>1. i - n \in 1..Len(t) /\ i = n + (i - n)
        BY <1>1
    <2> QED
        BY <2>1
<1>5. ASSUME NEW i \in 1..Len(u), NEW j \in 1..Len(u), u[i] = u[j] PROVE i = j
    <2>1. CASE i \in 1..n /\ j \in 1..n
        BY <1>1, <1>3, <1>5, <2>1
    <2>2. CASE i \in 1..n /\ \E l \in 1..Len(t) : j = n + l
        BY <1>1, <1>2, <1>5, <2>2
    <2>3. CASE j \in 1..n /\ \E l \in 1..Len(t) : i = n + l
        BY <1>1, <1>2, <1>5, <2>3
    <2>4. CASE /\ \E l \in 1..Len(t) : i = n + l
               /\ \E l \in 1..Len(t) : j = n + l
        <3>1. PICK a \in 1..Len(t), b \in 1..Len(t) : i = n + a /\ j = n + b
            BY <2>4
        <3>2. t[a] = t[b]
            BY <1>1, <1>5, <3>1
        <3> QED
            BY <1>3, <3>1, <3>2
    <2> QED
        BY <1>4, <2>1, <2>2, <2>3, <2>4
<1>6. DOMAIN u = 1..Len(u)
    BY <1>1
<1> QED
    BY <1>5, <1>6 DEF Distinct, u

LEMMA DistinctParts ==
    ASSUME NEW S, NEW s \in Seq(S), NEW t \in Seq(S), Distinct(s \o t)
    PROVE  Distinct(s) /\ Distinct(t) /\ Elems(s) \cap Elems(t) = {}
<1> DEFINE u == s \o t
           n == Len(s)
<1>1. /\ Len(u) = n + Len(t) /\ n \in Nat /\ Len(t) \in Nat /\ DOMAIN u = 1..(n + Len(t))
      /\ DOMAIN s = 1..n /\ DOMAIN t = 1..Len(t)
      /\ \A i \in 1..n : u[i] = s[i]
      /\ \A i \in 1..Len(t) : u[n + i] = t[i]
    BY ConcatType
<1>2. \A i, j \in DOMAIN u : u[i] = u[j] => i = j
    BY DEF Distinct
<1> HIDE DEF u, n
<1>3. Distinct(s)
    BY <1>1, <1>2 DEF Distinct
<1>4. Distinct(t)
    <2> SUFFICES ASSUME NEW i \in 1..Len(t), NEW j \in 1..Len(t), t[i] = t[j] PROVE i = j
        BY <1>1 DEF Distinct
    <2>1. n + i \in DOMAIN u /\ n + j \in DOMAIN u /\ u[n + i] = u[n + j]
        BY <1>1
    <2>2. n + i = n + j
        BY <1>2, <2>1
    <2> QED
        BY <1>1, <2>2
<1>5. Elems(s) \cap Elems(t) = {}
    <2> SUFFICES ASSUME NEW i \in 1..n, NEW j \in 1..Len(t), s[i] = t[j] PROVE FALSE
        BY <1>1 DEF Elems
    <2>1. i \in DOMAIN u /\ n + j \in DOMAIN u /\ u[i] = u[n + j]
        BY <1>1
    <2>2. i = n + j
        BY <1>2, <2>1
    <2> QED
        BY <1>1, <2>2
<1> QED
    BY <1>3, <1>4, <1>5

(* Any of three parts may be dropped.                                      *)
LEMMA DistinctThree ==
    ASSUME NEW S, NEW a \in Seq(S), NEW b \in Seq(S), NEW c \in Seq(S), Distinct(a \o (b \o c))
    PROVE  /\ Distinct(a \o c) /\ Distinct(b \o c) /\ Distinct(a \o b) /\ Distinct(c)
           /\ Elems(a) \cap Elems(b) = {} /\ Elems(a) \cap Elems(c) = {}
           /\ Elems(b) \cap Elems(c) = {}
<1> DEFINE bc == b \o c
<1>1. bc \in Seq(S) /\ Elems(bc) = Elems(b) \cup Elems(c)
    BY ConcatType, ElemsConcat
<1> HIDE DEF bc
<1>2. Distinct(a) /\ Distinct(bc) /\ Elems(a) \cap Elems(bc) = {}
    BY <1>1, DistinctParts DEF bc
<1>3. Distinct(b) /\ Distinct(c) /\ Elems(b) \cap Elems(c) = {}
    BY <1>2, DistinctParts DEF bc
<1>4. Elems(a) \cap Elems(b) = {} /\ Elems(a) \cap Elems(c) = {}
    BY <1>1, <1>2
<1>5. Distinct(a \o c) /\ Distinct(a \o b)
    BY <1>2, <1>3, <1>4, DistinctConcat
<1> QED
    BY <1>2, <1>3, <1>4, <1>5 DEF bc

(* The head of a sequence is the first entry picked, if it is picked.      *)
LEMMA OnlyHead ==
    ASSUME NEW S, NEW s \in Seq(S), NEW T, s # <<>>
    PROVE  IF Head(s) \in T
           THEN /\ Only(s, T) # <<>> /\ Head(Only(s, T)) = Head(s)
                /\ Only(Tail(s), T) = Tail(Only(s, T))
           ELSE Only(Tail(s), T) = Only(s, T)
<1> DEFINE e == Head(s)
           t == Tail(s)
           q == Only(t, T)
<1>1. e \in S /\ t \in Seq(S) /\ s = <<e>> \o t
    BY TailType, PassHead
<1>2. q \in Seq(S)
    BY <1>1, OnlyType
<1>3. <<e>> \in Seq(S) /\ <<e>> = Append(<<>>, e) /\ <<>> \in Seq(S)
    BY <1>1
<1> HIDE DEF e, t, q
<1>4. Only(<<e>>, T) = IF e \in T THEN <<e>> ELSE <<>>
    <2> DEFINE n == <<>>
               x == Append(n, e)
    <2>1. n \in Seq(S) /\ e \in S
        BY <1>1
    <2>2. Only(n, T) = <<>>
        BY OnlyEmpty
    <2> HIDE DEF n
    <2>3. Only(x, T) = IF e \in T THEN Append(Only(n, T), e) ELSE Only(n, T)
        BY <2>1, OnlyAppend
    <2>4. x = <<e>>
        BY DEF n
    <2> HIDE DEF x
    <2> QED
        BY <2>2, <2>3, <2>4
<1>5. Only(s, T) = Only(<<e>>, T) \o q
    <2> DEFINE x == <<e>>
    <2>1. x \in Seq(S) /\ t \in Seq(S)
        BY <1>1, <1>3
    <2> HIDE DEF x
    <2>2. Only(x \o t, T) = Only(x, T) \o Only(t, T)
        BY <2>1, OnlyConcat
    <2> QED
        BY <1>1, <2>2 DEF q, x
<1>6. CASE e \in T
    <2>1. Only(s, T) = <<e>> \o q
        BY <1>4, <1>5, <1>6
    <2>2. <<e>> \o q # <<>> /\ Head(<<e>> \o q) = e /\ Tail(<<e>> \o q) = q
        BY <1>1, <1>2
    <2> QED
        BY <1>6, <2>1, <2>2 DEF e, t, q
<1>7. CASE e \notin T
    <2>1. Only(s, T) = <<>> \o q
        BY <1>4, <1>5, <1>7
    <2> QED
        BY <1>2, <1>7, <2>1 DEF e, t, q
<1> QED
    BY <1>6, <1>7

=============================================================================
