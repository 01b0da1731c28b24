-------------------------- MODULE DeltaWindowProofs --------------------------
(***************************************************************************)
(* Theorems about DeltaWindow for every limit of the settled history,      *)
(* every system prompt and any number of deltas, streams and controls.     *)
(***************************************************************************)
EXTENDS DeltaWindow, SequenceLemmas

History == [buffer : Seq(Delta), modelStart : Nat, modelCount : Nat,
            toolStart : Nat, toolCount : Nat, toolBatchActive : BOOLEAN,
            settledCompacted : Nat]

(* The response window lies in the buffer, after the compacted prefix, and *)
(* no model delta follows it.                                              *)
WellFormed(g) ==
    /\ g \in History
    /\ g.modelStart + g.modelCount <= Len(g.buffer)
    /\ g.settledCompacted <= g.modelStart
    /\ \A i \in 1..g.settledCompacted : ~g.buffer[i].pcm
    /\ \A i \in (g.modelStart + g.modelCount + 1)..Len(g.buffer) :
          ~IsModelHistoryDelta(g.buffer[i])

(* A batch is open, none of its deltas is settled, and until a response    *)
(* boundary falls inside it, it is one piece, at the end of the buffer and *)
(* behind the response window, with ids below n.                           *)
OpenIn(g, n) ==
    /\ g.toolBatchActive /\ g.toolCount > 0 /\ g.toolStart < Len(g.buffer)
    /\ g.settledCompacted <= g.toolStart
    /\ g.modelStart <= g.toolStart =>
          /\ g.modelStart + g.modelCount <= g.toolStart
          /\ g.toolStart + g.toolCount = Len(g.buffer)
          /\ IsBatch(ToolWindow(g))
          /\ \A i \in 1..g.toolCount : ToolWindow(g)[i].id < n

TypeInv ==
    /\ mode \in {"turn", "duplex"} /\ loop \in {"running", "stopped"}
    /\ h \in History
    /\ modelLive \in BOOLEAN /\ toolOpen \in BOOLEAN
    /\ batches \in 0..2 /\ nextID \in 1..(MaxDeltas + 1)
    /\ controls \in 0..MaxControls
    /\ modelInput \in Seq(Delta) /\ toolInput \in Seq(Delta)
    /\ modelMade \in Seq(Delta) /\ toolMade \in Seq(Delta)

(* What is live: nothing on a stopped loop, one response or one batch in a *)
(* turn-based one, and there no boundary falls inside an open batch.       *)
ControlInv ==
    /\ loop = "stopped" => ~modelLive /\ batches = 0
    /\ toolOpen => batches > 0
    /\ mode = "turn" =>
          /\ modelLive => batches = 0
          /\ batches <= 1
          /\ toolOpen => h.modelStart <= h.toolStart

WindowInv ==
    /\ WellFormed(h)
    /\ toolOpen => OpenIn(h, nextID)
    /\ HistoryBounded

IInv == TypeInv /\ ControlInv /\ WindowInv

-----------------------------------------------------------------------------
(* Slices of the buffer                                                    *)

LEMMA Bounds ==
    /\ SettledHistoryLimit \in Nat /\ SystemDeltas \in Nat /\ MaxDeltas \in Nat
    /\ MaxControls \in Nat /\ MaxStream \in Nat /\ MaxStream > 0
BY WindowAssumption

LEMMA MinType ==
    ASSUME NEW a \in Nat, NEW b \in Nat
    PROVE  /\ Min({a, b}) \in Nat
           /\ a <= b => Min({a, b}) = a
           /\ b <= a => Min({a, b}) = b
<1>1. CASE a <= b
    <2>1. \A x \in {a, b} : (\A y \in {a, b} : x <= y) => x = a
        BY <1>1
    <2>2. a \in {a, b} /\ \A y \in {a, b} : a <= y
        BY <1>1
    <2>3. Min({a, b}) = a
        BY <2>1, <2>2 DEF Min
    <2> QED
        BY <1>1, <2>3
<1>2. CASE b < a
    <2>1. \A x \in {a, b} : (\A y \in {a, b} : x <= y) => x = b
        BY <1>2
    <2>2. b \in {a, b} /\ \A y \in {a, b} : b <= y
        BY <1>2
    <2>3. Min({a, b}) = b
        BY <2>1, <2>2 DEF Min
    <2> QED
        BY <1>2, <2>3
<1> QED
    BY <1>1, <1>2

LEMMA PieceType ==
    ASSUME NEW b \in Seq(Delta), NEW m \in Nat, NEW n \in Nat, n <= Len(b)
    PROVE  /\ SubSeq(b, m + 1, n) \in Seq(Delta)
           /\ Len(SubSeq(b, m + 1, n)) = IF m <= n THEN n - m ELSE 0
           /\ m <= n => \A i \in 1..(n - m) : SubSeq(b, m + 1, n)[i] = b[m + i]
<1>1. \A i \in (m + 1)..n : b[i] \in Delta
    BY ElementOfSeq
<1>2. m + 1 \in Int /\ n \in Int
    OBVIOUS
<1>3. /\ SubSeq(b, m + 1, n) \in Seq(Delta)
      /\ Len(SubSeq(b, m + 1, n)) = IF m + 1 <= n THEN n - (m + 1) + 1 ELSE 0
      /\ \A i \in 1..(n - (m + 1) + 1) : SubSeq(b, m + 1, n)[i] = b[m + 1 + i - 1]
    BY <1>1, <1>2, SubSeqProperties
<1>4. m <= n => \A i \in 1..(n - m) : SubSeq(b, m + 1, n)[i] = b[m + i]
    <2> SUFFICES ASSUME m <= n, NEW i \in 1..(n - m)
                 PROVE  SubSeq(b, m + 1, n)[i] = b[m + i]
        OBVIOUS
    <2>1. n - (m + 1) + 1 = n - m /\ m + 1 + i - 1 = m + i
        OBVIOUS
    <2> QED
        BY <1>3, <2>1
<1> QED
    BY <1>3, <1>4

LEMMA SliceType ==
    ASSUME NEW g \in History, NEW start \in Nat, NEW count \in Nat
    PROVE  /\ Slice(g, start, count) \in Seq(Delta)
           /\ start + count <= Len(g.buffer) =>
                /\ Len(Slice(g, start, count)) = count
                /\ \A i \in 1..count : Slice(g, start, count)[i] = g.buffer[start + i]
<1>1. g.buffer \in Seq(Delta) /\ start + count \in Nat
    BY DEF History
<1>2. CASE start + count <= Len(g.buffer)
    <2>1. Slice(g, start, count) = SubSeq(g.buffer, start + 1, start + count)
        BY <1>2 DEF Slice
    <2>2. start <= start + count /\ (start + count) - start = count
        OBVIOUS
    <2>3. /\ SubSeq(g.buffer, start + 1, start + count) \in Seq(Delta)
          /\ Len(SubSeq(g.buffer, start + 1, start + count)) = (start + count) - start
          /\ \A i \in 1..((start + count) - start) :
                SubSeq(g.buffer, start + 1, start + count)[i] = g.buffer[start + i]
        BY <1>1, <1>2, <2>2, PieceType
    <2> QED
        BY <1>2, <2>1, <2>2, <2>3
<1>3. CASE ~(start + count <= Len(g.buffer))
    BY <1>3, EmptySeq DEF Slice
<1> QED
    BY <1>2, <1>3

(* A window of count deltas from start on lies in the buffer of g.         *)
Inside(g, start, count) ==
    /\ g \in History /\ start \in Nat /\ count \in Nat
    /\ start + count <= Len(g.buffer)

(* The count deltas from a on in g are those from b on in s.               *)
Moved(g, a, s, b, count) ==
    \A i \in 1..count : s.buffer[b + i] = g.buffer[a + i]

LEMMA InsideType ==
    ASSUME NEW g, NEW start, NEW count, Inside(g, start, count)
    PROVE  /\ Slice(g, start, count) \in Seq(Delta)
           /\ Len(Slice(g, start, count)) = count /\ count \in Nat
           /\ \A i \in 1..count : Slice(g, start, count)[i] = g.buffer[start + i]
BY SliceType DEF Inside

(* A window that moves with its deltas holds the same deltas.              *)
LEMMA SliceMoves ==
    ASSUME NEW g, NEW s, NEW a, NEW b, NEW count,
           Inside(g, a, count), Inside(s, b, count), Moved(g, a, s, b, count)
    PROVE  Slice(s, b, count) = Slice(g, a, count)
<1>1. /\ Slice(s, b, count) \in Seq(Delta) /\ Slice(g, a, count) \in Seq(Delta)
      /\ Len(Slice(s, b, count)) = count /\ Len(Slice(g, a, count)) = count
      /\ \A i \in 1..count : Slice(s, b, count)[i] = Slice(g, a, count)[i]
    BY InsideType DEF Moved
<1> QED
    BY <1>1, SeqEqual

(* A window that takes one delta more.                                     *)
LEMMA SliceGrows ==
    ASSUME NEW g, NEW s, NEW a, NEW b, NEW count, NEW d \in Delta,
           Inside(g, a, count), Inside(s, b, count + 1), Moved(g, a, s, b, count),
           s.buffer[b + count + 1] = d
    PROVE  Slice(s, b, count + 1) = Append(Slice(g, a, count), d)
<1>1. /\ Slice(g, a, count) \in Seq(Delta)
      /\ Len(Slice(g, a, count)) = count /\ count \in Nat
      /\ \A i \in 1..count : Slice(g, a, count)[i] = g.buffer[a + i]
    BY InsideType
<1>2. /\ Slice(s, b, count + 1) \in Seq(Delta)
      /\ Len(Slice(s, b, count + 1)) = count + 1
      /\ \A i \in 1..(count + 1) : Slice(s, b, count + 1)[i] = s.buffer[b + i]
    BY InsideType
<1>3. /\ Append(Slice(g, a, count), d) \in Seq(Delta)
      /\ Len(Append(Slice(g, a, count), d)) = count + 1
      /\ \A i \in 1..count : Append(Slice(g, a, count), d)[i] = g.buffer[a + i]
      /\ Append(Slice(g, a, count), d)[count + 1] = d
    BY <1>1, AppendType
<1>4. b \in Nat /\ b + (count + 1) = b + count + 1
    BY <1>1 DEF Inside
<1>5. \A i \in 1..(count + 1) :
          Slice(s, b, count + 1)[i] = Append(Slice(g, a, count), d)[i]
    <2> SUFFICES ASSUME NEW i \in 1..(count + 1)
                 PROVE  Slice(s, b, count + 1)[i] = Append(Slice(g, a, count), d)[i]
        OBVIOUS
    <2>1. CASE i = count + 1
        BY <1>2, <1>3, <1>4, <2>1
    <2>2. CASE i \in 1..count
        BY <1>2, <1>3, <2>2 DEF Moved
    <2> QED
        BY <1>1, <2>1, <2>2
<1> QED
    BY <1>2, <1>3, <1>5, SeqEqual

-----------------------------------------------------------------------------
(* settleHistory                                                           *)

Compacted(g) ==
    [g EXCEPT
       !.buffer = [i \in DOMAIN @ |->
          IF i > g.settledCompacted /\ i <= Settled(g)
          THEN [@[i] EXCEPT !.pcm = FALSE] ELSE @[i]],
       !.settledCompacted = IF @ > Settled(g) THEN @ ELSE Settled(g)]

LEMMA SettleCases ==
    ASSUME NEW g
    PROVE  SettleHistory(g) =
             IF Settled(g) <= SettledHistoryLimit THEN Compacted(g)
             ELSE Drop(Compacted(g), Settled(g) - SettledHistoryLimit \div 2)
BY DEF SettleHistory, Compacted

LEMMA SettledType ==
    ASSUME NEW g, WellFormed(g)
    PROVE  /\ Settled(g) \in Nat /\ Settled(g) <= g.modelStart
           /\ g.toolBatchActive => Settled(g) <= g.toolStart
           /\ ~g.toolBatchActive => Settled(g) = g.modelStart
<1>1. /\ g.modelStart \in Nat /\ g.toolStart \in Nat /\ Len(g.buffer) \in Nat
      /\ g.modelStart <= Len(g.buffer)
    BY DEF WellFormed, History
<1>2. Min({g.modelStart, Len(g.buffer)}) = g.modelStart
    BY <1>1, MinType
<1>3. CASE g.toolBatchActive
    <2>1. Settled(g) = Min({g.modelStart, g.toolStart})
        BY <1>2, <1>3 DEF Settled
    <2>2. /\ Min({g.modelStart, g.toolStart}) \in Nat
          /\ Min({g.modelStart, g.toolStart}) <= g.modelStart
          /\ Min({g.modelStart, g.toolStart}) <= g.toolStart
        <3>1. CASE g.modelStart <= g.toolStart
            BY <1>1, <3>1, MinType
        <3>2. CASE g.toolStart <= g.modelStart
            BY <1>1, <3>2, MinType
        <3> QED
            BY <1>1, <3>1, <3>2
    <2> QED
        BY <1>3, <2>1, <2>2
<1>4. CASE ~g.toolBatchActive
    BY <1>1, <1>2, <1>4 DEF Settled
<1> QED
    BY <1>3, <1>4

LEMMA Muted ==
    ASSUME NEW d \in Delta
    PROVE  /\ [d EXCEPT !.pcm = FALSE] \in Delta
           /\ [d EXCEPT !.pcm = FALSE].actor = d.actor
           /\ [d EXCEPT !.pcm = FALSE].pcm = FALSE
BY DEF Delta

LEMMA CompactedFacts ==
    ASSUME NEW g, WellFormed(g)
    PROVE  /\ Compacted(g) \in History
           /\ Compacted(g).modelStart = g.modelStart
           /\ Compacted(g).modelCount = g.modelCount
           /\ Compacted(g).toolStart = g.toolStart
           /\ Compacted(g).toolCount = g.toolCount
           /\ Compacted(g).toolBatchActive = g.toolBatchActive
           /\ Compacted(g).settledCompacted =
                 IF g.settledCompacted > Settled(g) THEN g.settledCompacted ELSE Settled(g)
           /\ Len(Compacted(g).buffer) = Len(g.buffer)
           /\ \A i \in 1..Len(g.buffer) :
                 /\ Compacted(g).buffer[i].actor = g.buffer[i].actor
                 /\ i > Settled(g) => Compacted(g).buffer[i] = g.buffer[i]
                 /\ i <= Compacted(g).settledCompacted => ~Compacted(g).buffer[i].pcm
<1> DEFINE b == [i \in DOMAIN g.buffer |->
                    IF i > g.settledCompacted /\ i <= Settled(g)
                    THEN [g.buffer[i] EXCEPT !.pcm = FALSE] ELSE g.buffer[i]]
           sc == IF g.settledCompacted > Settled(g) THEN g.settledCompacted ELSE Settled(g)
<1>1. /\ Settled(g) \in Nat /\ g \in History /\ g.buffer \in Seq(Delta)
      /\ g.settledCompacted \in Nat /\ Len(g.buffer) \in Nat
      /\ DOMAIN g.buffer = 1..Len(g.buffer)
    BY SettledType DEF WellFormed, History
<1>2. \A i \in 1..Len(g.buffer) :
         /\ g.buffer[i] \in Delta
         /\ [g.buffer[i] EXCEPT !.pcm = FALSE] \in Delta
         /\ [g.buffer[i] EXCEPT !.pcm = FALSE].actor = g.buffer[i].actor
         /\ [g.buffer[i] EXCEPT !.pcm = FALSE].pcm = FALSE
    BY <1>1, ElementOfSeq, Muted
<1>3. b \in [1..Len(g.buffer) -> Delta]
    BY <1>1, <1>2
<1>4. b \in Seq(Delta) /\ Len(b) = Len(g.buffer)
    BY <1>1, <1>3, IsASeq, LenProperties
<1>5. \A i \in 1..Len(g.buffer) :
         /\ b[i].actor = g.buffer[i].actor
         /\ i > Settled(g) => b[i] = g.buffer[i]
         /\ i <= sc => ~b[i].pcm
    <2> SUFFICES ASSUME NEW i \in 1..Len(g.buffer)
                 PROVE  /\ b[i].actor = g.buffer[i].actor
                        /\ i > Settled(g) => b[i] = g.buffer[i]
                        /\ i <= sc => ~b[i].pcm
        OBVIOUS
    <2>1. b[i] = IF i > g.settledCompacted /\ i <= Settled(g)
                 THEN [g.buffer[i] EXCEPT !.pcm = FALSE] ELSE g.buffer[i]
        BY <1>1
    <2>2. i <= g.settledCompacted => ~g.buffer[i].pcm
        BY <1>1 DEF WellFormed
    <2>3. CASE i > g.settledCompacted /\ i <= Settled(g)
        <3>1. b[i] = [g.buffer[i] EXCEPT !.pcm = FALSE]
            BY <2>1, <2>3
        <3> QED
            BY <1>1, <1>2, <2>3, <3>1
    <2>4. CASE ~(i > g.settledCompacted /\ i <= Settled(g))
        <3>1. b[i] = g.buffer[i]
            BY <2>1, <2>4
        <3>2. i <= sc => i <= g.settledCompacted
            BY <1>1, <2>4
        <3> QED
            BY <2>2, <3>1, <3>2
    <2> QED
        BY <2>3, <2>4
<1>6. Compacted(g) = [g EXCEPT !.buffer = b, !.settledCompacted = sc]
    BY DEF Compacted
<1>7. sc \in Nat
    BY <1>1
<1> HIDE DEF b, sc
<1>8. /\ Compacted(g) \in History
      /\ Compacted(g).buffer = b /\ Compacted(g).settledCompacted = sc
      /\ Compacted(g).modelStart = g.modelStart
      /\ Compacted(g).modelCount = g.modelCount
      /\ Compacted(g).toolStart = g.toolStart
      /\ Compacted(g).toolCount = g.toolCount
      /\ Compacted(g).toolBatchActive = g.toolBatchActive
    BY <1>1, <1>4, <1>6, <1>7 DEF History
<1> QED
    BY <1>4, <1>5, <1>8 DEF sc

LEMMA DropFacts ==
    ASSUME NEW g \in History, NEW n \in Nat, n <= Len(g.buffer), n <= g.modelStart,
           n <= g.settledCompacted, g.toolBatchActive => n <= g.toolStart
    PROVE  /\ Drop(g, n) \in History
           /\ Drop(g, n).modelStart = g.modelStart - n
           /\ Drop(g, n).modelCount = g.modelCount
           /\ Drop(g, n).settledCompacted = g.settledCompacted - n
           /\ Drop(g, n).toolBatchActive = g.toolBatchActive
           /\ g.toolBatchActive => /\ Drop(g, n).toolStart = g.toolStart - n
                                   /\ Drop(g, n).toolCount = g.toolCount
           /\ Len(Drop(g, n).buffer) = Len(g.buffer) - n
           /\ \A i \in 1..(Len(g.buffer) - n) : Drop(g, n).buffer[i] = g.buffer[n + i]
<1> DEFINE b == SubSeq(g.buffer, n + 1, Len(g.buffer))
           ts == IF g.toolStart >= n THEN g.toolStart - n ELSE 0
           tc == IF g.toolStart >= n THEN g.toolCount ELSE 0
<1>1. /\ g.buffer \in Seq(Delta) /\ Len(g.buffer) \in Nat
      /\ g.modelStart \in Nat /\ g.toolStart \in Nat
      /\ g.toolCount \in Nat /\ g.settledCompacted \in Nat
    BY DEF History
<1>2. /\ b \in Seq(Delta) /\ Len(b) = Len(g.buffer) - n
      /\ \A i \in 1..(Len(g.buffer) - n) : b[i] = g.buffer[n + i]
    BY <1>1, PieceType
<1>3. /\ ts \in Nat /\ tc \in Nat
      /\ g.modelStart - n \in Nat /\ g.settledCompacted - n \in Nat
      /\ g.toolBatchActive => ts = g.toolStart - n /\ tc = g.toolCount
    BY <1>1
<1>4. Drop(g, n) = [g EXCEPT !.buffer = b, !.modelStart = @ - n,
                            !.settledCompacted = @ - n,
                            !.toolStart = ts, !.toolCount = tc]
    BY DEF Drop
<1> HIDE DEF b, ts, tc
<1>5. /\ Drop(g, n) \in History
      /\ Drop(g, n).buffer = b
      /\ Drop(g, n).modelStart = g.modelStart - n
      /\ Drop(g, n).modelCount = g.modelCount
      /\ Drop(g, n).settledCompacted = g.settledCompacted - n
      /\ Drop(g, n).toolBatchActive = g.toolBatchActive
      /\ Drop(g, n).toolStart = ts /\ Drop(g, n).toolCount = tc
    BY <1>2, <1>3, <1>4 DEF History
<1> QED
    BY <1>2, <1>3, <1>5

(* What settling keeps: the windows and the shape of the history.          *)
LEMMA SettleFacts ==
    ASSUME NEW g, WellFormed(g)
    PROVE  \E n \in Nat :
             /\ n <= g.modelStart
             /\ SettleHistory(g) \in History
             /\ SettleHistory(g).modelStart = g.modelStart - n
             /\ SettleHistory(g).modelCount = g.modelCount
             /\ SettleHistory(g).toolBatchActive = g.toolBatchActive
             /\ g.toolBatchActive =>
                   /\ n <= g.toolStart
                   /\ SettleHistory(g).toolStart = g.toolStart - n
                   /\ SettleHistory(g).toolCount = g.toolCount
                   /\ g.settledCompacted <= g.toolStart =>
                        SettleHistory(g).settledCompacted <= SettleHistory(g).toolStart
             /\ ~g.toolBatchActive => SettleHistory(g).modelStart <= SettledHistoryLimit
             /\ SettleHistory(g).settledCompacted <= SettleHistory(g).modelStart
             /\ Len(SettleHistory(g).buffer) = Len(g.buffer) - n
             /\ \A i \in 1..SettleHistory(g).settledCompacted :
                   ~SettleHistory(g).buffer[i].pcm
             /\ \A i \in 1..(Len(g.buffer) - n) :
                   /\ SettleHistory(g).buffer[i].actor = g.buffer[n + i].actor
                   /\ \/ n + i > g.modelStart
                      \/ g.toolBatchActive /\ n + i > g.toolStart
                      => SettleHistory(g).buffer[i] = g.buffer[n + i]
<1> DEFINE c == Compacted(g)
           s == Settled(g)
<1>1. /\ g.buffer \in Seq(Delta) /\ Len(g.buffer) \in Nat
      /\ g.modelStart \in Nat /\ g.modelCount \in Nat /\ g.toolStart \in Nat
      /\ g.settledCompacted \in Nat
      /\ g.modelStart + g.modelCount <= Len(g.buffer)
      /\ g.settledCompacted <= g.modelStart
    BY DEF WellFormed, History
<1>2. /\ s \in Nat /\ s <= g.modelStart
      /\ g.toolBatchActive => s <= g.toolStart
      /\ ~g.toolBatchActive => s = g.modelStart
    BY SettledType
<1>3. /\ c \in History
      /\ c.modelStart = g.modelStart /\ c.modelCount = g.modelCount
      /\ c.toolStart = g.toolStart /\ c.toolCount = g.toolCount
      /\ c.toolBatchActive = g.toolBatchActive
      /\ c.settledCompacted = IF g.settledCompacted > s THEN g.settledCompacted ELSE s
      /\ Len(c.buffer) = Len(g.buffer)
      /\ \A i \in 1..Len(g.buffer) :
            /\ c.buffer[i].actor = g.buffer[i].actor
            /\ i > s => c.buffer[i] = g.buffer[i]
            /\ i <= c.settledCompacted => ~c.buffer[i].pcm
    BY CompactedFacts
<1>4. /\ c.settledCompacted \in Nat /\ s <= c.settledCompacted
      /\ c.settledCompacted <= g.modelStart
      /\ g.toolBatchActive /\ g.settledCompacted <= g.toolStart =>
            c.settledCompacted <= g.toolStart
    BY <1>1, <1>2, <1>3
<1>5. SettleHistory(g) = IF s <= SettledHistoryLimit THEN c
                         ELSE Drop(c, s - SettledHistoryLimit \div 2)
    BY SettleCases
<1> HIDE DEF c, s
<1>6. CASE s <= SettledHistoryLimit
    <2>1. SettleHistory(g) = c
        BY <1>5, <1>6
    <2>2. \A i \in 1..c.settledCompacted : i \in 1..Len(g.buffer)
        BY <1>1, <1>4
    <2>3. g.modelStart - 0 = g.modelStart /\ g.toolStart - 0 = g.toolStart
          /\ Len(g.buffer) - 0 = Len(g.buffer)
          /\ \A i \in 1..Len(g.buffer) : 0 + i = i
        BY <1>1
    <2>4. \A i \in 1..Len(g.buffer) :
            i > g.modelStart \/ (g.toolBatchActive /\ i > g.toolStart) => i > s
        BY <1>1, <1>2
    <2>5. ~g.toolBatchActive => c.modelStart <= SettledHistoryLimit
        BY <1>2, <1>3, <1>6
    <2> WITNESS 0 \in Nat
    <2> QED
        BY <1>1, <1>3, <1>4, <2>1, <2>2, <2>3, <2>4, <2>5
<1>7. CASE ~(s <= SettledHistoryLimit)
    <2> DEFINE n == s - SettledHistoryLimit \div 2
               d == Drop(c, n)
    <2>1. /\ n \in Nat /\ n <= s /\ s - n <= SettledHistoryLimit
        BY <1>2, <1>7, Bounds
    <2>2. SettleHistory(g) = d
        BY <1>5, <1>7
    <2> HIDE DEF n
    <2>3. /\ n <= Len(c.buffer) /\ n <= c.modelStart /\ n <= c.settledCompacted
          /\ c.toolBatchActive => n <= c.toolStart
        BY SMTT(60), <1>1, <1>2, <1>3, <1>4, <2>1
    <2>4. /\ d \in History
          /\ d.modelStart = c.modelStart - n /\ d.modelCount = c.modelCount
          /\ d.settledCompacted = c.settledCompacted - n
          /\ d.toolBatchActive = c.toolBatchActive
          /\ c.toolBatchActive => d.toolStart = c.toolStart - n /\ d.toolCount = c.toolCount
          /\ Len(d.buffer) = Len(c.buffer) - n
          /\ \A i \in 1..(Len(c.buffer) - n) : d.buffer[i] = c.buffer[n + i]
        BY <1>3, <2>1, <2>3, DropFacts
    <2> HIDE DEF d
    <2>5. /\ ~g.toolBatchActive => d.modelStart <= SettledHistoryLimit
          /\ d.settledCompacted <= d.modelStart
          /\ g.toolBatchActive /\ g.settledCompacted <= g.toolStart =>
                d.settledCompacted <= d.toolStart
        BY SMTT(60), <1>1, <1>2, <1>3, <1>4, <2>1, <2>4, Bounds
    <2>6. \A i \in 1..d.settledCompacted : ~d.buffer[i].pcm
        <3> SUFFICES ASSUME NEW i \in 1..d.settledCompacted PROVE ~d.buffer[i].pcm
            OBVIOUS
        <3>1. /\ n + i \in 1..Len(g.buffer) /\ n + i <= c.settledCompacted
              /\ i \in 1..(Len(c.buffer) - n)
            <4>1. i \in 1..(c.settledCompacted - n)
                BY <2>4
            <4>2. c.settledCompacted <= Len(g.buffer) /\ Len(c.buffer) = Len(g.buffer)
                BY <1>1, <1>3, <1>4
            <4> QED
                BY <1>1, <1>4, <2>1, <4>1, <4>2
        <3> QED
            BY <1>3, <2>4, <3>1
    <2>7. \A i \in 1..(Len(g.buffer) - n) :
             /\ d.buffer[i].actor = g.buffer[n + i].actor
             /\ \/ n + i > g.modelStart
                \/ g.toolBatchActive /\ n + i > g.toolStart
                => d.buffer[i] = g.buffer[n + i]
        <3> SUFFICES ASSUME NEW i \in 1..(Len(g.buffer) - n)
                     PROVE  /\ d.buffer[i].actor = g.buffer[n + i].actor
                            /\ \/ n + i > g.modelStart
                               \/ g.toolBatchActive /\ n + i > g.toolStart
                               => d.buffer[i] = g.buffer[n + i]
            OBVIOUS
        <3>1. n + i \in 1..Len(g.buffer)
            BY <1>1, <2>1
        <3>2. d.buffer[i] = c.buffer[n + i]
            BY <1>3, <2>4
        <3>3. n + i > g.modelStart \/ (g.toolBatchActive /\ n + i > g.toolStart) => n + i > s
            BY <1>1, <1>2, <2>1
        <3> QED
            BY <1>3, <3>1, <3>2, <3>3
    <2>8. n <= g.modelStart /\ (g.toolBatchActive => n <= g.toolStart)
        BY <1>3, <2>3
    <2> n \in Nat
        BY <2>1
    <2> WITNESS n \in Nat
    <2> QED
        BY <1>3, <2>2, <2>4, <2>5, <2>6, <2>7, <2>8
<1> QED
    BY <1>6, <1>7

LEMMA MovedIndex ==
    ASSUME NEW start \in Nat, NEW count \in Nat, NEW last \in Nat, NEW n \in Nat,
           n <= start, start + count <= last, NEW i \in 1..count
    PROVE  /\ (start - n) + i \in 1..(last - n)
           /\ n + ((start - n) + i) = start + i
           /\ start + i > start
OBVIOUS

(* Settling moves both windows as a whole.                                 *)
LEMMA SettleKeeps ==
    ASSUME NEW g, WellFormed(g)
    PROVE  /\ WellFormed(SettleHistory(g))
           /\ ModelWindow(SettleHistory(g)) = ModelWindow(g)
           /\ SettleHistory(g).modelCount = g.modelCount
           /\ SettleHistory(g).toolBatchActive = g.toolBatchActive
           /\ ~g.toolBatchActive => SettleHistory(g).modelStart <= SettledHistoryLimit
           /\ g.toolBatchActive /\ g.toolStart + g.toolCount <= Len(g.buffer) =>
                 ToolWindow(SettleHistory(g)) = ToolWindow(g)
           /\ g.toolBatchActive /\ g.modelStart <= g.toolStart =>
                 SettleHistory(g).modelStart <= SettleHistory(g).toolStart
<1> DEFINE s == SettleHistory(g)
<1>1. /\ g \in History /\ g.buffer \in Seq(Delta) /\ Len(g.buffer) \in Nat
      /\ g.modelStart \in Nat /\ g.modelCount \in Nat
      /\ g.toolStart \in Nat /\ g.toolCount \in Nat
      /\ g.modelStart + g.modelCount <= Len(g.buffer)
    BY DEF WellFormed, History
<1>2. PICK n \in Nat :
             /\ n <= g.modelStart
             /\ s \in History
             /\ s.modelStart = g.modelStart - n
             /\ s.modelCount = g.modelCount
             /\ s.toolBatchActive = g.toolBatchActive
             /\ g.toolBatchActive =>
                   /\ n <= g.toolStart
                   /\ s.toolStart = g.toolStart - n
                   /\ s.toolCount = g.toolCount
                   /\ g.settledCompacted <= g.toolStart => s.settledCompacted <= s.toolStart
             /\ ~g.toolBatchActive => s.modelStart <= SettledHistoryLimit
             /\ s.settledCompacted <= s.modelStart
             /\ Len(s.buffer) = Len(g.buffer) - n
             /\ \A i \in 1..s.settledCompacted : ~s.buffer[i].pcm
             /\ \A i \in 1..(Len(g.buffer) - n) :
                   /\ s.buffer[i].actor = g.buffer[n + i].actor
                   /\ \/ n + i > g.modelStart
                      \/ g.toolBatchActive /\ n + i > g.toolStart
                      => s.buffer[i] = g.buffer[n + i]
    BY SettleFacts
<1> HIDE DEF s
<1>3. WellFormed(s)
    <2>1. s.modelStart + s.modelCount <= Len(s.buffer)
        BY SMTT(60), <1>1, <1>2
    <2>2. \A i \in (s.modelStart + s.modelCount + 1)..Len(s.buffer) :
             ~IsModelHistoryDelta(s.buffer[i])
        <3> SUFFICES ASSUME NEW i \in (s.modelStart + s.modelCount + 1)..Len(s.buffer)
                     PROVE  ~IsModelHistoryDelta(s.buffer[i])
            OBVIOUS
        <3>1. /\ i \in 1..(Len(g.buffer) - n)
              /\ n + i \in (g.modelStart + g.modelCount + 1)..Len(g.buffer)
            BY SMTT(60), <1>1, <1>2
        <3>2. s.buffer[i].actor = g.buffer[n + i].actor
            BY <1>2, <3>1
        <3> QED
            BY <3>1, <3>2 DEF WellFormed, IsModelHistoryDelta
    <2> QED
        BY <1>2, <2>1, <2>2 DEF WellFormed
<1>4. ModelWindow(s) = ModelWindow(g)
    <2>1. /\ g.modelStart - n \in Nat
          /\ (g.modelStart - n) + g.modelCount <= Len(s.buffer)
        BY SMTT(60), <1>1, <1>2
    <2>2. \A i \in 1..g.modelCount :
             s.buffer[(g.modelStart - n) + i] = g.buffer[g.modelStart + i]
        <3> SUFFICES ASSUME NEW i \in 1..g.modelCount
                     PROVE  s.buffer[(g.modelStart - n) + i] = g.buffer[g.modelStart + i]
            OBVIOUS
        <3>1. /\ (g.modelStart - n) + i \in 1..(Len(g.buffer) - n)
              /\ n + ((g.modelStart - n) + i) = g.modelStart + i
              /\ g.modelStart + i > g.modelStart
            BY <1>1, <1>2, MovedIndex
        <3> QED
            BY <1>2, <3>1
    <2>3. Inside(g, g.modelStart, g.modelCount) /\ Inside(s, g.modelStart - n, g.modelCount)
        BY <1>1, <1>2, <2>1 DEF Inside
    <2>4. Moved(g, g.modelStart, s, g.modelStart - n, g.modelCount)
        BY <2>2 DEF Moved
    <2>5. Slice(s, g.modelStart - n, g.modelCount) = Slice(g, g.modelStart, g.modelCount)
        BY <2>3, <2>4, SliceMoves
    <2> QED
        BY <1>2, <2>5 DEF ModelWindow
<1>5. g.toolBatchActive /\ g.toolStart + g.toolCount <= Len(g.buffer) =>
         ToolWindow(s) = ToolWindow(g)
    <2> SUFFICES ASSUME g.toolBatchActive, g.toolStart + g.toolCount <= Len(g.buffer)
                 PROVE  ToolWindow(s) = ToolWindow(g)
        OBVIOUS
    <2>1. /\ g.toolStart - n \in Nat
          /\ (g.toolStart - n) + g.toolCount <= Len(s.buffer)
        BY SMTT(60), <1>1, <1>2
    <2>2. \A i \in 1..g.toolCount :
             s.buffer[(g.toolStart - n) + i] = g.buffer[g.toolStart + i]
        <3> SUFFICES ASSUME NEW i \in 1..g.toolCount
                     PROVE  s.buffer[(g.toolStart - n) + i] = g.buffer[g.toolStart + i]
            OBVIOUS
        <3>1. /\ (g.toolStart - n) + i \in 1..(Len(g.buffer) - n)
              /\ n + ((g.toolStart - n) + i) = g.toolStart + i
              /\ g.toolStart + i > g.toolStart
            BY <1>1, <1>2, MovedIndex
        <3> QED
            BY <1>2, <3>1
    <2>3. Inside(g, g.toolStart, g.toolCount) /\ Inside(s, g.toolStart - n, g.toolCount)
        BY <1>1, <1>2, <2>1 DEF Inside
    <2>4. Moved(g, g.toolStart, s, g.toolStart - n, g.toolCount)
        BY <2>2 DEF Moved
    <2>5. Slice(s, g.toolStart - n, g.toolCount) = Slice(g, g.toolStart, g.toolCount)
        BY <2>3, <2>4, SliceMoves
    <2> QED
        BY <1>2, <2>5 DEF ToolWindow
<1>6. g.toolBatchActive /\ g.modelStart <= g.toolStart => s.modelStart <= s.toolStart
    BY <1>1, <1>2
<1> QED
    BY <1>2, <1>3, <1>4, <1>5, <1>6 DEF s

(* And keeps an open batch as it is.                                       *)
LEMMA SettleKeepsOpen ==
    ASSUME NEW g, WellFormed(g), NEW k, OpenIn(g, k)
    PROVE  OpenIn(SettleHistory(g), k)
<1> DEFINE s == SettleHistory(g)
<1>1. /\ g \in History /\ Len(g.buffer) \in Nat
      /\ g.modelStart \in Nat /\ g.modelCount \in Nat
      /\ g.toolStart \in Nat /\ g.toolCount \in Nat
    BY DEF WellFormed, History
<1>2. /\ g.toolBatchActive /\ g.toolCount > 0 /\ g.toolStart < Len(g.buffer)
      /\ g.settledCompacted <= g.toolStart
    BY DEF OpenIn
<1>3. PICK n \in Nat :
             /\ n <= g.modelStart
             /\ s.modelStart = g.modelStart - n
             /\ s.modelCount = g.modelCount
             /\ s.toolBatchActive
             /\ n <= g.toolStart
             /\ s.toolStart = g.toolStart - n
             /\ s.toolCount = g.toolCount
             /\ s.settledCompacted <= s.toolStart
             /\ Len(s.buffer) = Len(g.buffer) - n
    BY <1>2, SettleFacts
<1>4. g.toolStart + g.toolCount <= Len(g.buffer) => ToolWindow(s) = ToolWindow(g)
    BY <1>2, SettleKeeps
<1> HIDE DEF s
<1>5. s.modelStart <= s.toolStart =>
         /\ g.modelStart <= g.toolStart
         /\ g.modelStart + g.modelCount <= g.toolStart
         /\ g.toolStart + g.toolCount = Len(g.buffer)
         /\ IsBatch(ToolWindow(g))
         /\ \A i \in 1..g.toolCount : ToolWindow(g)[i].id < k
    BY <1>1, <1>3 DEF OpenIn
<1>6. s.modelStart <= s.toolStart =>
         /\ s.modelStart + s.modelCount <= s.toolStart
         /\ s.toolStart + s.toolCount = Len(s.buffer)
         /\ ToolWindow(s) = ToolWindow(g)
    <2> SUFFICES ASSUME s.modelStart <= s.toolStart
                 PROVE  /\ s.modelStart + s.modelCount <= s.toolStart
                        /\ s.toolStart + s.toolCount = Len(s.buffer)
                        /\ ToolWindow(s) = ToolWindow(g)
        OBVIOUS
    <2>1. /\ g.modelStart + g.modelCount <= g.toolStart
          /\ g.toolStart + g.toolCount = Len(g.buffer)
        BY <1>5
    <2>2. (g.modelStart - n) + g.modelCount <= g.toolStart - n
        BY <1>1, <2>1
    <2>3. (g.toolStart - n) + g.toolCount = Len(g.buffer) - n
        BY <1>1, <2>1
    <2>4. ToolWindow(s) = ToolWindow(g)
        BY <1>1, <1>4, <2>1
    <2> QED
        BY <1>3, <2>2, <2>3, <2>4
<1>7. s.toolStart < Len(s.buffer)
    BY <1>1, <1>2, <1>3
<1> QED
    BY <1>2, <1>3, <1>5, <1>6, <1>7 DEF OpenIn, s

-----------------------------------------------------------------------------
(* UpdateWorldHistory                                                      *)

LEMMA InsertFacts ==
    ASSUME NEW b \in Seq(Delta), NEW k \in Nat, k <= Len(b), NEW d \in Delta
    PROVE  /\ InsertAt(b, k + 1, d) \in Seq(Delta)
           /\ Len(InsertAt(b, k + 1, d)) = Len(b) + 1
           /\ \A i \in 1..k : InsertAt(b, k + 1, d)[i] = b[i]
           /\ InsertAt(b, k + 1, d)[k + 1] = d
           /\ \A i \in (k + 1)..Len(b) : InsertAt(b, k + 1, d)[i + 1] = b[i]
<1> DEFINE p == SubSeq(b, 1, k)
           q == SubSeq(b, k + 1, Len(b))
           u == p \o <<d>>
<1>1. /\ p \in Seq(Delta) /\ Len(p) = k
      /\ \A i \in 1..k : p[i] = b[i]
    <2>1. /\ SubSeq(b, 0 + 1, k) \in Seq(Delta) /\ Len(SubSeq(b, 0 + 1, k)) = k - 0
          /\ \A i \in 1..(k - 0) : SubSeq(b, 0 + 1, k)[i] = b[0 + i]
        BY PieceType
    <2>2. 0 + 1 = 1 /\ k - 0 = k /\ \A i \in 1..k : 0 + i = i
        OBVIOUS
    <2> QED
        BY <2>1, <2>2
<1>2. /\ q \in Seq(Delta) /\ Len(q) = Len(b) - k
      /\ \A i \in 1..(Len(b) - k) : q[i] = b[k + i]
    BY PieceType, LenProperties
<1>3. (k + 1) - 1 = k
    OBVIOUS
<1>4. InsertAt(b, k + 1, d) = u \o q
    <2>1. InsertAt(b, k + 1, d) =
             SubSeq(b, 1, (k + 1) - 1) \o <<d>> \o SubSeq(b, k + 1, Len(b))
        BY DEF InsertAt
    <2>2. SubSeq(b, 1, (k + 1) - 1) = p
        BY <1>3
    <2> QED
        BY <2>1, <2>2
<1> HIDE DEF p, q
<1>5. /\ u \in Seq(Delta) /\ Len(u) = k + 1
      /\ \A i \in 1..k : u[i] = b[i]
      /\ u[k + 1] = d
    <2>1. u = Append(p, d)
        BY <1>1, AppendIsConcat
    <2> HIDE DEF u
    <2> QED
        BY <1>1, <2>1, AppendType
<1> HIDE DEF u
<1>6. Len(b) \in Nat
    BY LenProperties
<1>7. /\ u \o q \in Seq(Delta) /\ Len(u \o q) = (k + 1) + (Len(b) - k)
      /\ \A i \in 1..((k + 1) + (Len(b) - k)) :
            (u \o q)[i] = IF i <= k + 1 THEN u[i] ELSE q[i - (k + 1)]
    <2>1. /\ u \o q \in Seq(Delta) /\ Len(u \o q) = Len(u) + Len(q)
          /\ \A i \in 1..(Len(u) + Len(q)) :
                (u \o q)[i] = IF i <= Len(u) THEN u[i] ELSE q[i - Len(u)]
        BY <1>2, <1>5, ConcatProperties
    <2> QED
        BY <1>2, <1>5, <2>1
<1>8. (k + 1) + (Len(b) - k) = Len(b) + 1
    BY <1>6
<1>9. /\ \A i \in 1..k : (u \o q)[i] = b[i]
      /\ (u \o q)[k + 1] = d
    <2>1. \A i \in 1..(k + 1) : i \in 1..(Len(b) + 1) /\ i <= k + 1
        BY <1>6
    <2>2. \A i \in 1..(k + 1) : (u \o q)[i] = u[i]
        BY <1>7, <1>8, <2>1
    <2> QED
        BY <1>5, <2>2
<1>10. \A i \in (k + 1)..Len(b) : (u \o q)[i + 1] = b[i]
    <2> SUFFICES ASSUME NEW i \in (k + 1)..Len(b) PROVE (u \o q)[i + 1] = b[i]
        OBVIOUS
    <2>1. /\ i + 1 \in 1..(Len(b) + 1) /\ ~(i + 1 <= k + 1)
          /\ i + 1 - (k + 1) = i - k /\ i - k \in 1..(Len(b) - k) /\ k + (i - k) = i
        BY <1>6
    <2>2. (u \o q)[i + 1] = q[i + 1 - (k + 1)]
        BY <1>7, <1>8, <2>1
    <2> QED
        BY <1>2, <2>1, <2>2
<1> QED
    BY <1>4, <1>7, <1>8, <1>9, <1>10

(* No model delta follows a response window, so nothing is ever dropped.   *)
LEMMA NothingDropped ==
    ASSUME NEW g,
           \A i \in (g.modelStart + g.modelCount + 1)..Len(g.buffer) :
              ~IsModelHistoryDelta(g.buffer[i])
    PROVE  DropStaleModelDeltas(g) = g
<1>1. {i \in (g.modelStart + g.modelCount + 1)..Len(g.buffer) :
          IsModelHistoryDelta(g.buffer[i])} = {}
    OBVIOUS
<1> QED
    BY <1>1 DEF DropStaleModelDeltas

(* The delta goes to the end of its window; what follows moves up, a batch *)
(* that starts there too.                                                  *)
LEMMA WriteModelCases ==
    ASSUME NEW g, WellFormed(g), NEW d \in Delta
    PROVE  LET idx == g.modelStart + g.modelCount
               at == idx < Len(g.buffer) /\ (g.toolBatchActive \/ g.toolCount > 0)
                     /\ idx <= g.toolStart
           IN WriteModelDelta(g, d) = DropStaleModelDeltas(
                [g EXCEPT !.buffer = InsertAt(@, idx + 1, d), !.modelCount = @ + 1,
                          !.toolStart = IF at THEN @ + 1 ELSE @])
<1> DEFINE idx == g.modelStart + g.modelCount
           b == InsertAt(g.buffer, idx + 1, d)
           w == [g EXCEPT !.buffer = b]
<1>1. /\ g \in History /\ g.buffer \in Seq(Delta) /\ Len(g.buffer) \in Nat
      /\ idx \in Nat /\ idx <= Len(g.buffer)
    BY DEF WellFormed, History
<1>2. CASE idx >= Len(g.buffer)
    <2>1. idx = Len(g.buffer)
        BY <1>1, <1>2
    <2>2. b = Append(g.buffer, d)
        <3>1. /\ b \in Seq(Delta) /\ Len(b) = Len(g.buffer) + 1
              /\ \A i \in 1..Len(g.buffer) : b[i] = g.buffer[i]
              /\ b[Len(g.buffer) + 1] = d
            BY <1>1, <2>1, InsertFacts
        <3> HIDE DEF b
        <3>2. /\ Append(g.buffer, d) \in Seq(Delta)
              /\ Len(Append(g.buffer, d)) = Len(g.buffer) + 1
              /\ \A i \in 1..Len(g.buffer) : Append(g.buffer, d)[i] = g.buffer[i]
              /\ Append(g.buffer, d)[Len(g.buffer) + 1] = d
            BY <1>1, AppendType
        <3>3. \A i \in 1..(Len(g.buffer) + 1) : b[i] = Append(g.buffer, d)[i]
            BY <1>1, <3>1, <3>2
        <3> QED
            BY <3>1, <3>2, <3>3, SeqEqual
    <2>3. WriteModelDelta(g, d) = DropStaleModelDeltas([w EXCEPT !.modelCount = @ + 1])
        BY <1>2, <2>2 DEF WriteModelDelta
    <2>4. [w EXCEPT !.modelCount = @ + 1] =
             [g EXCEPT !.buffer = b, !.modelCount = @ + 1, !.toolStart = @]
        BY <1>1 DEF History
    <2>5. ~(idx < Len(g.buffer))
        BY <1>1, <1>2
    <2> QED
        BY <2>3, <2>4, <2>5
<1>3. CASE ~(idx >= Len(g.buffer))
    <2>1. idx < Len(g.buffer) /\ idx + 1 \in (idx + 1)..Len(g.buffer)
        BY <1>1, <1>3
    <2>2. ~IsModelHistoryDelta(g.buffer[idx + 1])
        BY <2>1 DEF WellFormed
    <2>3. WriteModelDelta(g, d) =
             DropStaleModelDeltas([ShiftToolDeltaStart(w, idx) EXCEPT !.modelCount = @ + 1])
        BY <1>3, <2>2 DEF WriteModelDelta
    <2>4. /\ w.toolBatchActive = g.toolBatchActive /\ w.toolCount = g.toolCount
          /\ w.toolStart = g.toolStart
        BY <1>1 DEF History
    <2>5. CASE (g.toolBatchActive \/ g.toolCount > 0) /\ idx <= g.toolStart
        <3>1. ShiftToolDeltaStart(w, idx) = [w EXCEPT !.toolStart = @ + 1]
            BY <2>4, <2>5 DEF ShiftToolDeltaStart
        <3>2. [[w EXCEPT !.toolStart = @ + 1] EXCEPT !.modelCount = @ + 1] =
                 [g EXCEPT !.buffer = b, !.modelCount = @ + 1, !.toolStart = @ + 1]
            BY <1>1 DEF History
        <3> QED
            BY <2>1, <2>3, <2>5, <3>1, <3>2
    <2>6. CASE ~((g.toolBatchActive \/ g.toolCount > 0) /\ idx <= g.toolStart)
        <3>1. ShiftToolDeltaStart(w, idx) = w
            BY <2>4, <2>6 DEF ShiftToolDeltaStart
        <3>2. [w EXCEPT !.modelCount = @ + 1] =
                 [g EXCEPT !.buffer = b, !.modelCount = @ + 1, !.toolStart = @]
            BY <1>1 DEF History
        <3> QED
            BY <2>3, <2>6, <3>1, <3>2
    <2> QED
        BY <2>5, <2>6
<1> QED
    BY <1>2, <1>3

LEMMA WriteModelFacts ==
    ASSUME NEW g, WellFormed(g), NEW d \in Delta
    PROVE  LET idx == g.modelStart + g.modelCount
               at == idx < Len(g.buffer) /\ (g.toolBatchActive \/ g.toolCount > 0)
                     /\ idx <= g.toolStart
               s == WriteModelDelta(g, d)
           IN /\ s \in History
              /\ s.modelStart = g.modelStart /\ s.modelCount = g.modelCount + 1
              /\ s.toolStart = IF at THEN g.toolStart + 1 ELSE g.toolStart
              /\ s.toolCount = g.toolCount /\ s.toolBatchActive = g.toolBatchActive
              /\ s.settledCompacted = g.settledCompacted
              /\ Len(s.buffer) = Len(g.buffer) + 1
              /\ \A i \in 1..idx : s.buffer[i] = g.buffer[i]
              /\ s.buffer[idx + 1] = d
              /\ \A i \in (idx + 1)..Len(g.buffer) : s.buffer[i + 1] = g.buffer[i]
              /\ \A i \in (idx + 2)..Len(s.buffer) : ~IsModelHistoryDelta(s.buffer[i])
<1> DEFINE idx == g.modelStart + g.modelCount
           at == idx < Len(g.buffer) /\ (g.toolBatchActive \/ g.toolCount > 0)
                 /\ idx <= g.toolStart
           b == InsertAt(g.buffer, idx + 1, d)
           ts == IF at THEN g.toolStart + 1 ELSE g.toolStart
           mc == g.modelCount + 1
           s == [g EXCEPT !.buffer = b, !.modelCount = mc, !.toolStart = ts]
<1>1. /\ g \in History /\ g.buffer \in Seq(Delta) /\ Len(g.buffer) \in Nat
      /\ g.modelStart \in Nat /\ g.modelCount \in Nat /\ g.toolStart \in Nat
      /\ idx \in Nat /\ idx <= Len(g.buffer)
    BY DEF WellFormed, History
<1>2. /\ b \in Seq(Delta) /\ Len(b) = Len(g.buffer) + 1
      /\ \A i \in 1..idx : b[i] = g.buffer[i]
      /\ b[idx + 1] = d
      /\ \A i \in (idx + 1)..Len(g.buffer) : b[i + 1] = g.buffer[i]
    <2>1. g.buffer \in Seq(Delta) /\ idx \in Nat /\ idx <= Len(g.buffer)
        BY <1>1
    <2> HIDE DEF idx
    <2>2. ASSUME NEW q \in Seq(Delta), NEW k \in Nat, k <= Len(q)
          PROVE  /\ InsertAt(q, k + 1, d) \in Seq(Delta)
                 /\ Len(InsertAt(q, k + 1, d)) = Len(q) + 1
                 /\ \A i \in 1..k : InsertAt(q, k + 1, d)[i] = q[i]
                 /\ InsertAt(q, k + 1, d)[k + 1] = d
                 /\ \A i \in (k + 1)..Len(q) : InsertAt(q, k + 1, d)[i + 1] = q[i]
        BY ZenonT(60), <2>2, InsertFacts
    <2> QED
        BY <2>1, <2>2, Zenon
<1>3. ts \in Nat /\ mc \in Nat
    BY <1>1
<1>4. WriteModelDelta(g, d) = DropStaleModelDeltas(s)
    BY WriteModelCases
<1> HIDE DEF b, ts, mc
<1>5. /\ s \in History /\ s.buffer = b
      /\ s.modelStart = g.modelStart /\ s.modelCount = mc
      /\ s.toolStart = ts /\ s.toolCount = g.toolCount
      /\ s.toolBatchActive = g.toolBatchActive
      /\ s.settledCompacted = g.settledCompacted
    BY <1>1, <1>2, <1>3 DEF History
<1> HIDE DEF s
<1>6. \A i \in (idx + 2)..Len(b) : ~IsModelHistoryDelta(b[i])
    <2> SUFFICES ASSUME NEW i \in (idx + 2)..Len(b) PROVE ~IsModelHistoryDelta(b[i])
        OBVIOUS
    <2>1. i - 1 \in (idx + 1)..Len(g.buffer) /\ (i - 1) + 1 = i
        BY <1>1, <1>2
    <2>2. b[i] = g.buffer[i - 1]
        BY <1>2, <2>1
    <2> QED
        BY <2>1, <2>2 DEF WellFormed
<1>7. (s.modelStart + s.modelCount) + 1 = idx + 2
    BY <1>1, <1>5 DEF mc
<1>8. DropStaleModelDeltas(s) = s
    BY <1>5, <1>6, <1>7, NothingDropped
<1>9. WriteModelDelta(g, d) = s
    BY <1>4, <1>8
<1> QED
    BY <1>2, <1>5, <1>6, <1>9 DEF ts, mc

(* A model delta continues the response window and leaves an open batch    *)
(* as it is.                                                               *)
LEMMA WriteModelKeeps ==
    ASSUME NEW g, WellFormed(g), NEW d \in Delta
    PROVE  /\ WellFormed(WriteModelDelta(g, d))
           /\ ModelWindow(WriteModelDelta(g, d)) = Append(ModelWindow(g), d)
           /\ WriteModelDelta(g, d).toolBatchActive = g.toolBatchActive
           /\ \A k : OpenIn(g, k) => OpenIn(WriteModelDelta(g, d), k)
<1> DEFINE idx == g.modelStart + g.modelCount
           at == idx < Len(g.buffer) /\ (g.toolBatchActive \/ g.toolCount > 0)
                 /\ idx <= g.toolStart
           s == WriteModelDelta(g, d)
<1>1. /\ g \in History /\ g.buffer \in Seq(Delta) /\ Len(g.buffer) \in Nat
      /\ g.modelStart \in Nat /\ g.modelCount \in Nat /\ g.toolStart \in Nat
      /\ g.toolCount \in Nat /\ g.settledCompacted \in Nat
      /\ idx \in Nat /\ idx <= Len(g.buffer) /\ g.settledCompacted <= g.modelStart
    BY DEF WellFormed, History
<1>2. /\ s \in History
      /\ s.modelStart = g.modelStart /\ s.modelCount = g.modelCount + 1
      /\ s.toolStart = IF at THEN g.toolStart + 1 ELSE g.toolStart
      /\ s.toolCount = g.toolCount /\ s.toolBatchActive = g.toolBatchActive
      /\ s.settledCompacted = g.settledCompacted
      /\ Len(s.buffer) = Len(g.buffer) + 1
      /\ \A i \in 1..idx : s.buffer[i] = g.buffer[i]
      /\ s.buffer[idx + 1] = d
      /\ \A i \in (idx + 1)..Len(g.buffer) : s.buffer[i + 1] = g.buffer[i]
      /\ \A i \in (idx + 2)..Len(s.buffer) : ~IsModelHistoryDelta(s.buffer[i])
    BY WriteModelFacts
<1> HIDE DEF s
<1>3. WellFormed(s)
    <2>1. /\ s.modelStart + s.modelCount <= Len(s.buffer)
          /\ s.settledCompacted <= s.modelStart
          /\ s.modelStart + s.modelCount + 1 = idx + 2
        BY SMTT(60), <1>1, <1>2
    <2>2. \A i \in 1..s.settledCompacted : ~s.buffer[i].pcm
        <3> SUFFICES ASSUME NEW i \in 1..g.settledCompacted PROVE ~s.buffer[i].pcm
            BY <1>2
        <3>1. i \in 1..idx
            BY <1>1
        <3>2. ~g.buffer[i].pcm
            BY DEF WellFormed
        <3> QED
            BY <1>2, <3>1, <3>2
    <2> QED
        BY <1>2, <2>1, <2>2 DEF WellFormed
<1>4. ModelWindow(s) = Append(ModelWindow(g), d)
    <2>1. Inside(g, g.modelStart, g.modelCount)
        BY <1>1 DEF Inside
    <2>2. Inside(s, g.modelStart, g.modelCount + 1)
        <3>1. /\ g.modelCount + 1 \in Nat
              /\ g.modelStart + (g.modelCount + 1) <= Len(g.buffer) + 1
            BY SMTT(60), <1>1
        <3> QED
            BY <1>1, <1>2, <3>1 DEF Inside
    <2>3. Moved(g, g.modelStart, s, g.modelStart, g.modelCount)
        <3>1. \A i \in 1..g.modelCount : g.modelStart + i \in 1..idx
            BY <1>1
        <3> QED
            BY <1>2, <3>1 DEF Moved
    <2>4. s.buffer[g.modelStart + g.modelCount + 1] = d
        BY <1>2
    <2>5. Slice(s, g.modelStart, g.modelCount + 1)
             = Append(Slice(g, g.modelStart, g.modelCount), d)
        BY <2>1, <2>2, <2>3, <2>4, SliceGrows
    <2> QED
        BY <1>2, <2>5 DEF ModelWindow
<1>5. ASSUME NEW k, OpenIn(g, k) PROVE OpenIn(s, k)
    <2>1. /\ g.toolBatchActive /\ g.toolCount > 0 /\ g.toolStart < Len(g.buffer)
          /\ g.settledCompacted <= g.toolStart
        BY <1>5 DEF OpenIn
    <2>2. s.toolStart \in {g.toolStart, g.toolStart + 1}
        BY <1>2
    <2>3. /\ s.toolBatchActive /\ s.toolCount > 0 /\ s.toolStart < Len(s.buffer)
          /\ s.settledCompacted <= s.toolStart
        BY SMTT(60), <1>1, <1>2, <2>1, <2>2
    <2>4. ASSUME s.modelStart <= s.toolStart
          PROVE  /\ g.modelStart <= g.toolStart /\ at
        <3>1. CASE g.modelStart <= g.toolStart
            <4>1. idx <= g.toolStart
                BY <1>5, <3>1 DEF OpenIn
            <4> QED
                BY <1>1, <2>1, <3>1, <4>1
        <3>2. CASE ~(g.modelStart <= g.toolStart)
            <4>1. ~at
                BY <1>1, <3>2
            <4> QED
                BY <1>2, <2>4, <3>2, <4>1
        <3> QED
            BY <3>1, <3>2
    <2>5. ASSUME s.modelStart <= s.toolStart
          PROVE  /\ s.modelStart + s.modelCount <= s.toolStart
                 /\ s.toolStart + s.toolCount = Len(s.buffer)
                 /\ IsBatch(ToolWindow(s))
                 /\ \A i \in 1..s.toolCount : ToolWindow(s)[i].id < k
        <3>1. /\ s.toolStart = g.toolStart + 1 /\ idx <= g.toolStart
              /\ g.modelStart <= g.toolStart
            BY <1>2, <2>4, <2>5
        <3>2. /\ g.toolStart + g.toolCount = Len(g.buffer)
              /\ IsBatch(ToolWindow(g))
              /\ \A i \in 1..g.toolCount : ToolWindow(g)[i].id < k
            BY <1>5, <3>1 DEF OpenIn
        <3>3. Inside(g, g.toolStart, g.toolCount)
            BY <1>1, <3>2 DEF Inside
        <3>4. /\ s.modelStart + s.modelCount <= s.toolStart
              /\ s.toolStart + s.toolCount = Len(s.buffer)
            <4>1. /\ g.modelStart + (g.modelCount + 1) <= g.toolStart + 1
                  /\ (g.toolStart + 1) + g.toolCount = Len(g.buffer) + 1
                <5>1. g.modelStart + (g.modelCount + 1) <= g.toolStart + 1
                    BY <1>1, <3>1
                <5>2. (g.toolStart + 1) + g.toolCount = Len(g.buffer) + 1
                    <6>1. /\ g.toolStart \in Nat /\ g.toolCount \in Nat
                          /\ g.toolStart + g.toolCount = Len(g.buffer)
                        BY <1>1, <3>2
                    <6> QED
                        BY <6>1
                <5> QED
                    BY <5>1, <5>2
            <4> QED
                BY <1>2, <3>1, <4>1
        <3>5. Inside(s, g.toolStart + 1, g.toolCount)
            BY SMTT(60), <1>1, <1>2, <3>1, <3>4 DEF Inside
        <3>6. Moved(g, g.toolStart, s, g.toolStart + 1, g.toolCount)
            <4> SUFFICES ASSUME NEW i \in 1..g.toolCount
                         PROVE  s.buffer[(g.toolStart + 1) + i] = g.buffer[g.toolStart + i]
                BY DEF Moved
            <4>1. /\ g.toolStart + i \in (idx + 1)..Len(g.buffer)
                  /\ (g.toolStart + 1) + i = (g.toolStart + i) + 1
                <5>1. g.toolStart + i <= Len(g.buffer)
                    BY <1>1, <3>2
                <5> QED
                    BY SMTT(60), <1>1, <3>1, <5>1
            <4> QED
                BY <1>2, <4>1
        <3>7. Slice(s, g.toolStart + 1, g.toolCount) = Slice(g, g.toolStart, g.toolCount)
            BY <3>3, <3>5, <3>6, SliceMoves
        <3>8. ToolWindow(s) = ToolWindow(g)
            BY <1>2, <3>1, <3>7 DEF ToolWindow
        <3> QED
            BY <1>2, <3>2, <3>4, <3>8
    <2> QED
        BY <2>3, <2>5 DEF OpenIn
<1> QED
    BY <1>2, <1>3, <1>4, <1>5 DEF s

LEMMA WriteToolFacts ==
    ASSUME NEW g \in History, NEW d \in Delta
    PROVE  LET s == WriteToolDelta(g, d)
           IN /\ s \in History
              /\ s.modelStart = g.modelStart /\ s.modelCount = g.modelCount
              /\ s.toolStart = g.toolStart /\ s.toolCount = g.toolCount + 1
              /\ s.toolBatchActive = g.toolBatchActive
              /\ s.settledCompacted = g.settledCompacted
              /\ Len(s.buffer) = Len(g.buffer) + 1
              /\ \A i \in 1..Len(g.buffer) : s.buffer[i] = g.buffer[i]
              /\ s.buffer[Len(g.buffer) + 1] = d
<1> DEFINE b == Append(g.buffer, d)
           tc == g.toolCount + 1
           s == WriteToolDelta(g, d)
<1>1. /\ b \in Seq(Delta) /\ Len(b) = Len(g.buffer) + 1
      /\ \A i \in 1..Len(g.buffer) : b[i] = g.buffer[i]
      /\ b[Len(g.buffer) + 1] = d
    BY AppendType DEF History
<1>2. s = [g EXCEPT !.buffer = b, !.toolCount = tc] /\ tc \in Nat
    BY DEF WriteToolDelta, History
<1> HIDE DEF b, s, tc
<1>3. /\ s \in History /\ s.buffer = b
      /\ s.modelStart = g.modelStart /\ s.modelCount = g.modelCount
      /\ s.toolStart = g.toolStart /\ s.toolCount = tc
      /\ s.toolBatchActive = g.toolBatchActive
      /\ s.settledCompacted = g.settledCompacted
    BY <1>1, <1>2 DEF History
<1> QED
    BY <1>1, <1>3 DEF s, tc

LEMMA BatchGrows ==
    ASSUME NEW w \in Seq(Delta), NEW d \in Delta, NEW k \in Nat, IsBatch(w),
           \A i \in 1..Len(w) : w[i].id < k,
           d.actor = "tool", d.pcm, d.kind \in {"part", "end"}, d.id = k
    PROVE  /\ IsBatch(Append(w, d))
           /\ \A i \in 1..Len(Append(w, d)) : Append(w, d)[i].id < k + 1
<1> DEFINE a == Append(w, d)
<1>1. /\ a \in Seq(Delta) /\ Len(a) = Len(w) + 1 /\ a # <<>>
      /\ \A i \in 1..Len(w) : a[i] = w[i]
      /\ a[Len(w) + 1] = d
    BY AppendType
<1> HIDE DEF a
<1>2. /\ Len(w) \in Nat /\ Len(w) > 0 /\ DOMAIN w = 1..Len(w) /\ DOMAIN a = 1..Len(a)
    BY <1>1, LenProperties, EmptySeq DEF IsBatch
<1>3. /\ w[1].kind = "start"
      /\ \A i \in 1..Len(w) : w[i].actor = "tool" /\ w[i].pcm
      /\ \A i \in 2..Len(w) : w[i].kind \in {"part", "end"} /\ w[i].id > w[i - 1].id
    BY <1>2 DEF IsBatch
<1>4. a[1] = w[1]
    BY <1>1, <1>2
<1>5. \A i \in 1..Len(a) : a[i].actor = "tool" /\ a[i].pcm
    <2> SUFFICES ASSUME NEW i \in 1..Len(a) PROVE a[i].actor = "tool" /\ a[i].pcm
        OBVIOUS
    <2>1. CASE i \in 1..Len(w)
        BY <1>1, <1>3, <2>1
    <2>2. CASE i = Len(w) + 1
        BY <1>1, <2>2
    <2> QED
        BY <1>1, <1>2, <2>1, <2>2
<1>6. \A i \in 2..Len(a) : a[i].kind \in {"part", "end"} /\ a[i].id > a[i - 1].id
    <2> SUFFICES ASSUME NEW i \in 2..Len(a)
                 PROVE  a[i].kind \in {"part", "end"} /\ a[i].id > a[i - 1].id
        OBVIOUS
    <2>1. i - 1 \in 1..Len(w)
        BY <1>1, <1>2
    <2>2. a[i - 1] = w[i - 1]
        BY <1>1, <2>1
    <2>3. CASE i \in 2..Len(w)
        <3>1. a[i] = w[i]
            BY <1>1, <1>2, <2>3
        <3> QED
            BY <1>3, <2>2, <2>3, <3>1
    <2>4. CASE i = Len(w) + 1
        <3>1. a[i] = d /\ w[i - 1].id < k
            BY <1>1, <2>1, <2>4
        <3>2. w[i - 1] \in Delta
            BY <2>1, ElementOfSeq
        <3>3. w[i - 1].id \in Nat
            BY <3>2, Bounds DEF Delta
        <3> QED
            BY <2>2, <3>1, <3>3
    <2> QED
        BY <1>1, <1>2, <2>3, <2>4
<1>7. \A i \in 1..Len(a) : a[i].id < k + 1
    <2> SUFFICES ASSUME NEW i \in 1..Len(a) PROVE a[i].id < k + 1
        OBVIOUS
    <2>1. CASE i \in 1..Len(w)
        <3>1. a[i] = w[i] /\ w[i].id < k /\ w[i] \in Delta
            BY <1>1, <2>1, ElementOfSeq
        <3>2. w[i].id \in Nat
            BY <3>1, Bounds DEF Delta
        <3> QED
            BY <3>1, <3>2
    <2>2. CASE i = Len(w) + 1
        BY <1>1, <2>2
    <2> QED
        BY <1>1, <1>2, <2>1, <2>2
<1>8. IsBatch(a)
    BY <1>1, <1>2, <1>3, <1>4, <1>5, <1>6 DEF IsBatch
<1> QED
    BY <1>7, <1>8 DEF a

(* A tool delta leaves the response window as it is, and continues the     *)
(* batch window at the end of the buffer.                                  *)
LEMMA WriteToolKeeps ==
    ASSUME NEW g, WellFormed(g), NEW d \in Delta, d.actor = "tool"
    PROVE  /\ WellFormed(WriteToolDelta(g, d))
           /\ ModelWindow(WriteToolDelta(g, d)) = ModelWindow(g)
           /\ WriteToolDelta(g, d).toolBatchActive = g.toolBatchActive
           /\ g.toolStart + g.toolCount = Len(g.buffer) =>
                ToolWindow(WriteToolDelta(g, d)) = Append(ToolWindow(g), d)
<1> DEFINE s == WriteToolDelta(g, d)
<1>1. /\ g \in History /\ g.buffer \in Seq(Delta) /\ Len(g.buffer) \in Nat
      /\ g.modelStart \in Nat /\ g.modelCount \in Nat /\ g.toolStart \in Nat
      /\ g.toolCount \in Nat /\ g.settledCompacted \in Nat
      /\ g.modelStart + g.modelCount <= Len(g.buffer)
      /\ g.settledCompacted <= g.modelStart
    BY DEF WellFormed, History
<1>2. /\ s \in History
      /\ s.modelStart = g.modelStart /\ s.modelCount = g.modelCount
      /\ s.toolStart = g.toolStart /\ s.toolCount = g.toolCount + 1
      /\ s.toolBatchActive = g.toolBatchActive
      /\ s.settledCompacted = g.settledCompacted
      /\ Len(s.buffer) = Len(g.buffer) + 1
      /\ \A i \in 1..Len(g.buffer) : s.buffer[i] = g.buffer[i]
      /\ s.buffer[Len(g.buffer) + 1] = d
    BY <1>1, WriteToolFacts
<1> HIDE DEF s
<1>3. WellFormed(s)
    <2>1. s.modelStart + s.modelCount <= Len(s.buffer)
        BY <1>1, <1>2
    <2>2. \A i \in 1..s.settledCompacted : ~s.buffer[i].pcm
        <3>1. \A i \in 1..g.settledCompacted : i \in 1..Len(g.buffer) /\ ~g.buffer[i].pcm
            BY <1>1 DEF WellFormed
        <3> QED
            BY <1>2, <3>1
    <2>3. \A i \in (s.modelStart + s.modelCount + 1)..Len(s.buffer) :
             ~IsModelHistoryDelta(s.buffer[i])
        <3> SUFFICES ASSUME NEW i \in (g.modelStart + g.modelCount + 1)..(Len(g.buffer) + 1)
                     PROVE  ~IsModelHistoryDelta(s.buffer[i])
            BY <1>2
        <3>1. CASE i = Len(g.buffer) + 1
            BY <1>2, <3>1 DEF IsModelHistoryDelta
        <3>2. CASE i # Len(g.buffer) + 1
            <4>1. /\ i \in (g.modelStart + g.modelCount + 1)..Len(g.buffer)
                  /\ i \in 1..Len(g.buffer)
                BY SMTT(60), <1>1, <3>2
            <4>2. ~IsModelHistoryDelta(g.buffer[i])
                BY <4>1 DEF WellFormed
            <4> QED
                BY <1>2, <4>1, <4>2
        <3> QED
            BY <3>1, <3>2
    <2> QED
        BY <1>1, <1>2, <2>1, <2>2, <2>3 DEF WellFormed
<1>4. ModelWindow(s) = ModelWindow(g)
    <2>1. Inside(g, g.modelStart, g.modelCount) /\ Inside(s, g.modelStart, g.modelCount)
        BY <1>1, <1>2 DEF Inside
    <2>2. Moved(g, g.modelStart, s, g.modelStart, g.modelCount)
        <3>1. \A i \in 1..g.modelCount : g.modelStart + i \in 1..Len(g.buffer)
            BY <1>1
        <3> QED
            BY <1>2, <3>1 DEF Moved
    <2> QED
        BY <1>2, <2>1, <2>2, SliceMoves DEF ModelWindow
<1>5. ASSUME g.toolStart + g.toolCount = Len(g.buffer)
      PROVE  ToolWindow(s) = Append(ToolWindow(g), d)
    <2>1. Inside(g, g.toolStart, g.toolCount)
        BY <1>1, <1>5 DEF Inside
    <2>2. Inside(s, g.toolStart, g.toolCount + 1)
        <3>1. g.toolCount + 1 \in Nat /\ g.toolStart + (g.toolCount + 1) = Len(g.buffer) + 1
            BY SMTT(60), <1>1, <1>5
        <3> QED
            BY <1>1, <1>2, <3>1 DEF Inside
    <2>3. Moved(g, g.toolStart, s, g.toolStart, g.toolCount)
        <3>1. \A i \in 1..g.toolCount : g.toolStart + i \in 1..Len(g.buffer)
            BY <1>1, <1>5
        <3> QED
            BY <1>2, <3>1 DEF Moved
    <2>4. s.buffer[g.toolStart + g.toolCount + 1] = d
        BY <1>2, <1>5
    <2>5. Slice(s, g.toolStart, g.toolCount + 1)
             = Append(Slice(g, g.toolStart, g.toolCount), d)
        BY <2>1, <2>2, <2>3, <2>4, SliceGrows
    <2> QED
        BY <1>2, <2>5 DEF ToolWindow
<1> QED
    BY <1>2, <1>3, <1>4, <1>5 DEF s

(* A delta of the open batch joins it.                                     *)
LEMMA WriteToolKeepsOpen ==
    ASSUME NEW g, WellFormed(g), NEW d \in Delta, NEW k \in Nat, OpenIn(g, k),
           d.actor = "tool", d.pcm, d.kind \in {"part", "end"}, d.id = k
    PROVE  OpenIn(WriteToolDelta(g, d), k + 1)
<1> DEFINE s == WriteToolDelta(g, d)
<1>1. /\ g \in History /\ Len(g.buffer) \in Nat
      /\ g.modelStart \in Nat /\ g.modelCount \in Nat /\ g.toolStart \in Nat
      /\ g.toolCount \in Nat
    BY DEF WellFormed, History
<1>2. /\ s.modelStart = g.modelStart /\ s.modelCount = g.modelCount
      /\ s.toolStart = g.toolStart /\ s.toolCount = g.toolCount + 1
      /\ s.toolBatchActive = g.toolBatchActive
      /\ s.settledCompacted = g.settledCompacted
      /\ Len(s.buffer) = Len(g.buffer) + 1
    BY <1>1, WriteToolFacts
<1>3. g.toolStart + g.toolCount = Len(g.buffer) => ToolWindow(s) = Append(ToolWindow(g), d)
    BY WriteToolKeeps
<1> HIDE DEF s
<1>4. /\ g.toolBatchActive /\ g.toolCount > 0 /\ g.toolStart < Len(g.buffer)
      /\ g.settledCompacted <= g.toolStart
    BY DEF OpenIn
<1>5. /\ s.toolBatchActive /\ s.toolCount > 0 /\ s.toolStart < Len(s.buffer)
      /\ s.settledCompacted <= s.toolStart
    BY <1>1, <1>2, <1>4
<1>6. ASSUME s.modelStart <= s.toolStart
      PROVE  /\ s.modelStart + s.modelCount <= s.toolStart
             /\ s.toolStart + s.toolCount = Len(s.buffer)
             /\ IsBatch(ToolWindow(s))
             /\ \A i \in 1..s.toolCount : ToolWindow(s)[i].id < k + 1
    <2>1. /\ g.modelStart + g.modelCount <= g.toolStart
          /\ g.toolStart + g.toolCount = Len(g.buffer)
          /\ IsBatch(ToolWindow(g))
          /\ \A i \in 1..g.toolCount : ToolWindow(g)[i].id < k
        BY <1>2, <1>6 DEF OpenIn
    <2>2. ToolWindow(g) \in Seq(Delta) /\ Len(ToolWindow(g)) = g.toolCount
        <3>1. Inside(g, g.toolStart, g.toolCount)
            BY <1>1, <2>1 DEF Inside
        <3> QED
            BY <3>1, InsideType DEF ToolWindow
    <2>3. /\ IsBatch(Append(ToolWindow(g), d))
          /\ \A i \in 1..Len(Append(ToolWindow(g), d)) :
                Append(ToolWindow(g), d)[i].id < k + 1
        BY <2>1, <2>2, BatchGrows
    <2>4. Len(Append(ToolWindow(g), d)) = g.toolCount + 1
        BY <2>2, AppendType
    <2>5. g.toolStart + (g.toolCount + 1) = Len(g.buffer) + 1
        <3>1. /\ g.toolStart \in Nat /\ g.toolCount \in Nat
              /\ g.toolStart + g.toolCount = Len(g.buffer)
            BY <1>1, <2>1
        <3> QED
            BY <3>1
    <2> QED
        BY <1>2, <1>3, <2>1, <2>3, <2>4, <2>5
<1> QED
    BY <1>5, <1>6 DEF OpenIn, s

(* MESSAGE.END of a batch only marks that it is over.                      *)
LEMMA CloseKeeps ==
    ASSUME NEW g, WellFormed(g)
    PROVE  LET s == [g EXCEPT !.toolBatchActive = FALSE]
           IN WellFormed(s) /\ ModelWindow(s) = ModelWindow(g) /\ ~s.toolBatchActive
<1> DEFINE s == [g EXCEPT !.toolBatchActive = FALSE]
<1>1. /\ s \in History /\ ~s.toolBatchActive
      /\ s.buffer = g.buffer /\ s.modelStart = g.modelStart
      /\ s.modelCount = g.modelCount /\ s.settledCompacted = g.settledCompacted
    BY DEF WellFormed, History
<1> HIDE DEF s
<1>2. WellFormed(s)
    BY <1>1 DEF WellFormed
<1>3. ModelWindow(s) = ModelWindow(g)
    BY <1>1 DEF ModelWindow, Slice
<1> QED
    BY <1>1, <1>2, <1>3 DEF s

(* MESSAGE.START of a batch opens its window at the end of the buffer.     *)
LEMMA OpenBatchKeeps ==
    ASSUME NEW g, WellFormed(g)
    PROVE  /\ WellFormed(OpenBatch(g))
           /\ ModelWindow(OpenBatch(g)) = ModelWindow(g)
           /\ OpenBatch(g).toolBatchActive
           /\ OpenBatch(g).buffer = g.buffer
           /\ OpenBatch(g).toolStart = Len(g.buffer)
           /\ OpenBatch(g).toolCount = 0
           /\ ToolWindow(OpenBatch(g)) = <<>>
<1> DEFINE s == OpenBatch(g)
<1>1. /\ s \in History /\ s.toolBatchActive
      /\ s.toolStart = Len(g.buffer) /\ s.toolCount = 0
      /\ s.buffer = g.buffer /\ s.modelStart = g.modelStart
      /\ s.modelCount = g.modelCount /\ s.settledCompacted = g.settledCompacted
    <2> DEFINE end == Len(g.buffer)
    <2>1. g \in History /\ end \in Nat
        BY DEF WellFormed, History
    <2>2. s = [g EXCEPT !.toolStart = end, !.toolCount = 0, !.toolBatchActive = TRUE]
        BY DEF OpenBatch
    <2> HIDE DEF end, s
    <2>3. /\ s \in History /\ s.toolBatchActive
          /\ s.toolStart = end /\ s.toolCount = 0
          /\ s.buffer = g.buffer /\ s.modelStart = g.modelStart
          /\ s.modelCount = g.modelCount /\ s.settledCompacted = g.settledCompacted
        BY <2>1, <2>2 DEF History
    <2> QED
        BY <2>3 DEF end
<1> HIDE DEF s
<1>2. WellFormed(s)
    BY <1>1 DEF WellFormed
<1>3. ModelWindow(s) = ModelWindow(g)
    BY <1>1 DEF ModelWindow, Slice
<1>4. ToolWindow(s) = <<>>
    <2>1. Inside(s, s.toolStart, 0)
        BY <1>1 DEF Inside, History
    <2>2. /\ Slice(s, s.toolStart, 0) \in Seq(Delta)
          /\ Len(Slice(s, s.toolStart, 0)) = 0
        BY <2>1, InsideType
    <2> QED
        BY <1>1, <2>2, EmptySeq DEF ToolWindow
<1> QED
    BY <1>1, <1>2, <1>3, <1>4 DEF s

(* The first delta of a batch opens it.                                    *)
LEMMA StartOpens ==
    ASSUME NEW g, WellFormed(g), NEW d \in Delta, NEW k \in Nat,
           d.actor = "tool", d.pcm, d.kind = "start", d.id = k
    PROVE  LET s == WriteToolDelta(OpenBatch(g), d)
           IN /\ WellFormed(s) /\ ModelWindow(s) = ModelWindow(g)
              /\ ToolWindow(s) = <<d>>
              /\ OpenIn(s, k + 1) /\ s.modelStart <= s.toolStart
<1> DEFINE o == OpenBatch(g)
           s == WriteToolDelta(o, d)
<1>1. /\ WellFormed(o) /\ ModelWindow(o) = ModelWindow(g) /\ ToolWindow(o) = <<>>
      /\ o.toolBatchActive /\ o.buffer = g.buffer
      /\ o.toolStart = Len(o.buffer) /\ o.toolCount = 0
    BY OpenBatchKeeps
<1> HIDE DEF o
<1>2. /\ o \in History /\ Len(o.buffer) \in Nat
      /\ o.modelStart \in Nat /\ o.modelCount \in Nat /\ o.settledCompacted \in Nat
      /\ o.modelStart + o.modelCount <= Len(o.buffer)
      /\ o.settledCompacted <= o.modelStart
    BY <1>1 DEF WellFormed, History
<1>3. /\ s.modelStart = o.modelStart /\ s.modelCount = o.modelCount
      /\ s.toolStart = o.toolStart /\ s.toolCount = o.toolCount + 1
      /\ s.toolBatchActive = o.toolBatchActive
      /\ s.settledCompacted = o.settledCompacted
      /\ Len(s.buffer) = Len(o.buffer) + 1
    BY <1>2, WriteToolFacts
<1>4. o.toolStart + o.toolCount = Len(o.buffer)
    BY <1>1, <1>2
<1>5. /\ WellFormed(s) /\ ModelWindow(s) = ModelWindow(o)
      /\ ToolWindow(s) = Append(<<>>, d)
    BY <1>1, <1>4, WriteToolKeeps
<1> HIDE DEF s
<1>6. Append(<<>>, d) = <<d>>
    OBVIOUS
<1>7. IsBatch(<<d>>) /\ \A i \in 1..1 : <<d>>[i].id < k + 1
    BY DEF IsBatch
<1>8. /\ s.toolCount = 1 /\ s.toolStart + s.toolCount = Len(s.buffer)
      /\ s.modelStart + s.modelCount <= s.toolStart /\ s.modelStart <= s.toolStart
      /\ s.toolStart < Len(s.buffer) /\ s.settledCompacted <= s.toolStart
    BY <1>1, <1>2, <1>3
<1>9. OpenIn(s, k + 1)
    BY <1>1, <1>3, <1>5, <1>6, <1>7, <1>8 DEF OpenIn
<1> QED
    BY <1>1, <1>5, <1>6, <1>8, <1>9 DEF s, o

(* A boundary starts an empty response window at the end of the buffer.    *)
LEMMA ResetKeeps ==
    ASSUME NEW g, WellFormed(g)
    PROVE  /\ WellFormed(ResetModelDeltaWindow(g))
           /\ ModelWindow(ResetModelDeltaWindow(g)) = <<>>
           /\ ResetModelDeltaWindow(g).modelCount = 0
           /\ \A k : OpenIn(g, k) => OpenIn(ResetModelDeltaWindow(g), k)
<1> DEFINE s == ResetModelDeltaWindow(g)
<1>1. /\ g.buffer \in Seq(Delta) /\ Len(g.buffer) \in Nat /\ g.toolStart \in Nat
      /\ g.modelStart \in Nat /\ g.modelCount \in Nat /\ g.settledCompacted \in Nat
      /\ g.settledCompacted <= Len(g.buffer)
    BY DEF WellFormed, History
<1>2. /\ s \in History /\ s.buffer = g.buffer
      /\ s.modelStart = Len(g.buffer) /\ s.modelCount = 0
      /\ s.toolStart = g.toolStart /\ s.toolCount = g.toolCount
      /\ s.toolBatchActive = g.toolBatchActive
      /\ s.settledCompacted = g.settledCompacted
    BY <1>1 DEF ResetModelDeltaWindow, WellFormed, History
<1> HIDE DEF s
<1>3. WellFormed(s)
    <2>1. /\ s.modelStart + s.modelCount <= Len(s.buffer)
          /\ (s.modelStart + s.modelCount + 1)..Len(s.buffer) = {}
        BY <1>1, <1>2
    <2>2. \A i \in 1..s.settledCompacted : ~s.buffer[i].pcm
        BY <1>2 DEF WellFormed
    <2> QED
        BY <1>1, <1>2, <2>1, <2>2 DEF WellFormed
<1>4. ModelWindow(s) = <<>>
    <2>1. Inside(s, s.modelStart, 0)
        BY <1>1, <1>2 DEF Inside
    <2>2. /\ Slice(s, s.modelStart, 0) \in Seq(Delta)
          /\ Len(Slice(s, s.modelStart, 0)) = 0
        BY <2>1, InsideType
    <2> QED
        BY <1>2, <2>2, EmptySeq DEF ModelWindow
<1>5. ASSUME NEW k, OpenIn(g, k) PROVE OpenIn(s, k)
    <2>1. /\ g.toolBatchActive /\ g.toolCount > 0 /\ g.toolStart < Len(g.buffer)
          /\ g.settledCompacted <= g.toolStart
        BY <1>5 DEF OpenIn
    <2>2. ~(s.modelStart <= s.toolStart)
        BY <1>1, <1>2, <2>1
    <2> QED
        BY <1>2, <2>1, <2>2 DEF OpenIn
<1> QED
    BY <1>2, <1>3, <1>4, <1>5 DEF s

(* A terminal ERROR gives the response up.                                 *)
LEMMA TruncateKeeps ==
    ASSUME NEW g, WellFormed(g)
    PROVE  LET s == [g EXCEPT !.buffer = SubSeq(@, 1, Min({g.modelStart, Len(@)})),
                              !.modelCount = 0]
           IN WellFormed(s) /\ ModelWindow(s) = <<>> /\ s.modelCount = 0
<1> DEFINE b == SubSeq(g.buffer, 1, g.modelStart)
           s == [g EXCEPT !.buffer = b, !.modelCount = 0]
<1>1. /\ g \in History /\ g.buffer \in Seq(Delta) /\ Len(g.buffer) \in Nat
      /\ g.modelStart \in Nat /\ g.modelStart <= Len(g.buffer)
      /\ g.settledCompacted \in Nat /\ g.settledCompacted <= g.modelStart
    BY DEF WellFormed, History
<1>2. Min({g.modelStart, Len(g.buffer)}) = g.modelStart
    BY <1>1, MinType
<1>3. /\ b \in Seq(Delta) /\ Len(b) = g.modelStart
      /\ \A i \in 1..g.modelStart : b[i] = g.buffer[i]
    <2> DEFINE m == g.modelStart
               q == g.buffer
    <2>1. q \in Seq(Delta) /\ m \in Nat /\ m <= Len(q)
        BY <1>1
    <2> HIDE DEF m, q
    <2>2. /\ SubSeq(q, 0 + 1, m) \in Seq(Delta) /\ Len(SubSeq(q, 0 + 1, m)) = m - 0
          /\ \A i \in 1..(m - 0) : SubSeq(q, 0 + 1, m)[i] = q[0 + i]
        BY <2>1, PieceType
    <2>3. 0 + 1 = 1 /\ m - 0 = m /\ \A i \in 1..m : 0 + i = i
        BY <2>1
    <2>4. /\ SubSeq(q, 1, m) \in Seq(Delta) /\ Len(SubSeq(q, 1, m)) = m
          /\ \A i \in 1..m : SubSeq(q, 1, m)[i] = q[i]
        BY <2>2, <2>3
    <2> QED
        BY <2>4 DEF m, q
<1>4. s = [g EXCEPT !.buffer = SubSeq(@, 1, Min({g.modelStart, Len(@)})), !.modelCount = 0]
    BY <1>2
<1> HIDE DEF b
<1>5. /\ s \in History /\ s.buffer = b /\ s.modelStart = g.modelStart
      /\ s.modelCount = 0 /\ s.settledCompacted = g.settledCompacted
    BY <1>1, <1>3 DEF History
<1> HIDE DEF s
<1>6. WellFormed(s)
    <2>1. /\ s.modelStart + s.modelCount <= Len(s.buffer)
          /\ (s.modelStart + s.modelCount + 1)..Len(s.buffer) = {}
        BY <1>1, <1>3, <1>5
    <2>2. \A i \in 1..s.settledCompacted : ~s.buffer[i].pcm
        <3>1. \A i \in 1..g.settledCompacted : i \in 1..g.modelStart /\ ~g.buffer[i].pcm
            BY <1>1 DEF WellFormed
        <3> QED
            BY <1>3, <1>5, <3>1
    <2> QED
        BY <1>1, <1>5, <2>1, <2>2 DEF WellFormed
<1>7. ModelWindow(s) = <<>>
    <2>1. Inside(s, s.modelStart, 0)
        BY <1>1, <1>3, <1>5 DEF Inside
    <2>2. /\ Slice(s, s.modelStart, 0) \in Seq(Delta)
          /\ Len(Slice(s, s.modelStart, 0)) = 0
        BY <2>1, InsideType
    <2> QED
        BY <1>5, <2>2, EmptySeq DEF ModelWindow
<1> QED
    BY <1>4, <1>5, <1>6, <1>7

(* AddMessages appends a delta that is not the model's.                    *)
LEMMA UserDeltaKeeps ==
    ASSUME NEW g, WellFormed(g), NEW d \in Delta, d.actor = "user"
    PROVE  LET s == [g EXCEPT !.buffer = Append(@, d)]
           IN WellFormed(s)
<1> DEFINE b == Append(g.buffer, d)
           s == [g EXCEPT !.buffer = b]
<1>1. /\ g \in History /\ g.buffer \in Seq(Delta) /\ Len(g.buffer) \in Nat
      /\ g.modelStart \in Nat /\ g.modelCount \in Nat /\ g.settledCompacted \in Nat
      /\ g.modelStart + g.modelCount <= Len(g.buffer)
      /\ g.settledCompacted <= g.modelStart
    BY DEF WellFormed, History
<1>2. /\ b \in Seq(Delta) /\ Len(b) = Len(g.buffer) + 1
      /\ \A i \in 1..Len(g.buffer) : b[i] = g.buffer[i]
      /\ b[Len(g.buffer) + 1] = d
    BY <1>1, AppendType
<1> HIDE DEF b
<1>3. /\ s \in History /\ s.buffer = b /\ s.modelStart = g.modelStart
      /\ s.modelCount = g.modelCount /\ s.settledCompacted = g.settledCompacted
    BY <1>1, <1>2 DEF History
<1> HIDE DEF s
<1>4. s.modelStart + s.modelCount <= Len(s.buffer)
    BY <1>1, <1>2, <1>3
<1>5. \A i \in 1..s.settledCompacted : ~s.buffer[i].pcm
    <2>1. \A i \in 1..g.settledCompacted : i \in 1..Len(g.buffer) /\ ~g.buffer[i].pcm
        BY <1>1 DEF WellFormed
    <2> QED
        BY <1>2, <1>3, <2>1
<1>6. \A i \in (s.modelStart + s.modelCount + 1)..Len(s.buffer) :
         ~IsModelHistoryDelta(s.buffer[i])
    <2> SUFFICES ASSUME NEW i \in (g.modelStart + g.modelCount + 1)..(Len(g.buffer) + 1)
                 PROVE  ~IsModelHistoryDelta(b[i])
        BY <1>2, <1>3
    <2>1. CASE i = Len(g.buffer) + 1
        BY <1>2, <2>1 DEF IsModelHistoryDelta
    <2>2. CASE i # Len(g.buffer) + 1
        <3>1. /\ i \in (g.modelStart + g.modelCount + 1)..Len(g.buffer)
              /\ i \in 1..Len(g.buffer)
            BY <1>1, <2>2
        <3>2. ~IsModelHistoryDelta(g.buffer[i])
            BY <3>1 DEF WellFormed
        <3> QED
            BY <1>2, <3>1, <3>2
    <2> QED
        BY <2>1, <2>2
<1>7. WellFormed(s)
    BY <1>1, <1>3, <1>4, <1>5, <1>6 DEF WellFormed
<1> QED
    BY <1>7 DEF s, b

-----------------------------------------------------------------------------
(* What a tick makes of the history                                        *)

LEMMA OpenLater ==
    ASSUME NEW g \in History, NEW k \in Nat, OpenIn(g, k)
    PROVE  OpenIn(g, k + 1)
<1>1. ASSUME g.modelStart <= g.toolStart
      PROVE  \A i \in 1..g.toolCount : ToolWindow(g)[i].id < k + 1
    <2> SUFFICES ASSUME NEW i \in 1..g.toolCount PROVE ToolWindow(g)[i].id < k + 1
        OBVIOUS
    <2>1. /\ g.toolStart + g.toolCount = Len(g.buffer)
          /\ ToolWindow(g)[i].id < k
        BY <1>1 DEF OpenIn
    <2>2. Inside(g, g.toolStart, g.toolCount)
        BY <2>1 DEF Inside, History
    <2>3. /\ ToolWindow(g) \in Seq(Delta) /\ Len(ToolWindow(g)) = g.toolCount
        BY <2>2, InsideType DEF ToolWindow
    <2>4. ToolWindow(g)[i] \in Delta
        BY <2>3, ElementOfSeq
    <2>5. ToolWindow(g)[i].id \in Nat
        BY <2>4, Bounds DEF Delta
    <2> QED
        BY <2>1, <2>5
<1> QED
    BY <1>1 DEF OpenIn

(* A tick settles what it has written: the windows are well formed and,    *)
(* outside a batch, the settled history is within the limit.               *)
Tidy(g) ==
    /\ WellFormed(g)
    /\ ~g.toolBatchActive /\ g.modelCount > 0 => g.modelStart <= SettledHistoryLimit

LEMMA AfterSettle ==
    ASSUME NEW g, WellFormed(g)
    PROVE  /\ Tidy(SettleHistory(g))
           /\ ModelWindow(SettleHistory(g)) = ModelWindow(g)
           /\ \A k : OpenIn(g, k) => OpenIn(SettleHistory(g), k)
<1>1. \A k : OpenIn(g, k) => OpenIn(SettleHistory(g), k)
    BY SettleKeepsOpen
<1> QED
    BY <1>1, SettleKeeps DEF Tidy

LEMMA AfterReset ==
    ASSUME NEW g, WellFormed(g)
    PROVE  /\ Tidy(ResetModelDeltaWindow(g))
           /\ ModelWindow(ResetModelDeltaWindow(g)) = <<>>
           /\ \A k : OpenIn(g, k) => OpenIn(ResetModelDeltaWindow(g), k)
<1>1. ~(0 > 0)
    OBVIOUS
<1> QED
    BY <1>1, ResetKeeps DEF Tidy

LEMMA AfterModel ==
    ASSUME NEW g, WellFormed(g), NEW d \in Delta
    PROVE  LET s == SettleHistory(WriteModelDelta(g, d))
           IN /\ Tidy(s)
              /\ ModelWindow(s) = Append(ModelWindow(g), d)
              /\ \A k : OpenIn(g, k) => OpenIn(s, k)
BY WriteModelKeeps, AfterSettle

(* The next delta of an open batch, or MESSAGE.START of a new one.         *)
LEMMA AfterTool ==
    ASSUME NEW g, WellFormed(g), NEW d \in Delta, d.actor = "tool"
    PROVE  LET s == SettleHistory(WriteToolDelta(g, d))
           IN Tidy(s) /\ ModelWindow(s) = ModelWindow(g)
BY WriteToolKeeps, AfterSettle

LEMMA AfterToolPart ==
    ASSUME NEW g, WellFormed(g), NEW d \in Delta, NEW k \in Nat, OpenIn(g, k),
           d.actor = "tool", d.pcm, d.kind \in {"part", "end"}, d.id = k
    PROVE  LET s == SettleHistory(WriteToolDelta(g, d))
           IN /\ OpenIn(s, k + 1)
              /\ g.modelStart <= g.toolStart =>
                   ToolWindow(s) = Append(ToolWindow(g), d) /\ s.modelStart <= s.toolStart
<1> DEFINE w == WriteToolDelta(g, d)
<1>1. WellFormed(w) /\ OpenIn(w, k + 1)
    BY WriteToolKeeps, WriteToolKeepsOpen
<1>2. /\ w \in History
      /\ w.modelStart = g.modelStart /\ w.toolStart = g.toolStart
      /\ w.toolCount = g.toolCount + 1 /\ Len(w.buffer) = Len(g.buffer) + 1
    BY WriteToolFacts DEF WellFormed
<1>3. g.toolStart + g.toolCount = Len(g.buffer) => ToolWindow(w) = Append(ToolWindow(g), d)
    BY WriteToolKeeps
<1> HIDE DEF w
<1>4. OpenIn(SettleHistory(w), k + 1)
    BY <1>1, SettleKeepsOpen
<1>5. ASSUME g.modelStart <= g.toolStart
      PROVE  /\ ToolWindow(SettleHistory(w)) = Append(ToolWindow(g), d)
             /\ SettleHistory(w).modelStart <= SettleHistory(w).toolStart
    <2>1. g.toolStart + g.toolCount = Len(g.buffer)
        BY <1>5 DEF OpenIn
    <2>2. w.modelStart <= w.toolStart
        BY <1>2, <1>5
    <2>3. w.toolStart + w.toolCount = Len(w.buffer) /\ w.toolBatchActive
        BY <1>1, <2>2 DEF OpenIn
    <2>4. w.toolStart + w.toolCount <= Len(w.buffer)
        BY <1>2, <2>3 DEF History
    <2> QED
        BY <1>1, <1>3, <2>1, <2>2, <2>3, <2>4, SettleKeeps
<1> QED
    BY <1>4, <1>5 DEF w

LEMMA AfterToolStart ==
    ASSUME NEW g, WellFormed(g), NEW d \in Delta, NEW k \in Nat,
           d.actor = "tool", d.pcm, d.kind = "start", d.id = k
    PROVE  LET s == SettleHistory(WriteToolDelta(OpenBatch(g), d))
           IN /\ Tidy(s) /\ ModelWindow(s) = ModelWindow(g)
              /\ OpenIn(s, k + 1) /\ s.modelStart <= s.toolStart
              /\ ToolWindow(s) = <<d>>
<1> DEFINE w == WriteToolDelta(OpenBatch(g), d)
<1>1. /\ WellFormed(w) /\ ModelWindow(w) = ModelWindow(g) /\ ToolWindow(w) = <<d>>
      /\ OpenIn(w, k + 1) /\ w.modelStart <= w.toolStart
    BY StartOpens
<1> HIDE DEF w
<1>2. /\ w.toolBatchActive /\ w.toolStart + w.toolCount = Len(w.buffer)
    BY <1>1 DEF OpenIn
<1>3. w.toolStart + w.toolCount <= Len(w.buffer)
    BY SMTT(60), <1>1, <1>2 DEF WellFormed, History
<1>4. /\ Tidy(SettleHistory(w)) /\ ModelWindow(SettleHistory(w)) = ModelWindow(g)
      /\ OpenIn(SettleHistory(w), k + 1)
    BY <1>1, AfterSettle
<1>5. /\ SettleHistory(w).modelStart <= SettleHistory(w).toolStart
      /\ ToolWindow(SettleHistory(w)) = <<d>>
    BY <1>1, <1>2, <1>3, SettleKeeps
<1> QED
    BY <1>4, <1>5 DEF w

LEMMA AfterToolEnd ==
    ASSUME NEW g, WellFormed(g), NEW d \in Delta, d.actor = "tool"
    PROVE  LET s == SettleHistory(WriteToolDelta([g EXCEPT !.toolBatchActive = FALSE], d))
           IN Tidy(s) /\ ModelWindow(s) = ModelWindow(g)
<1> DEFINE c == [g EXCEPT !.toolBatchActive = FALSE]
<1>1. WellFormed(c) /\ ModelWindow(c) = ModelWindow(g)
    BY CloseKeeps
<1> HIDE DEF c
<1>2. /\ Tidy(SettleHistory(WriteToolDelta(c, d)))
      /\ ModelWindow(SettleHistory(WriteToolDelta(c, d))) = ModelWindow(c)
    BY <1>1, AfterTool
<1> QED
    BY <1>1, <1>2 DEF c

LEMMA WindowTypes ==
    ASSUME NEW g, WellFormed(g)
    PROVE  /\ g \in History
           /\ ModelWindow(g) \in Seq(Delta) /\ ToolWindow(g) \in Seq(Delta)
<1>1. /\ g \in History /\ g.modelStart \in Nat /\ g.modelCount \in Nat
      /\ g.toolStart \in Nat /\ g.toolCount \in Nat
    BY DEF WellFormed, History
<1> QED
    BY <1>1, SliceType DEF ModelWindow, ToolWindow

-----------------------------------------------------------------------------
(* The steps of the two streams                                            *)

LEMMA ModelIdle ==
    ASSUME modelInput' = <<>> \/ \E d \in DeltaOf("model", {"ack"}) : modelInput' = <<d>>,
           ModelWindow(h)' \in {ModelWindow(h), <<>>}, modelMade' = <<>>
    PROVE  ModelStream!Next
BY DEF ModelStream!Next, ModelStream!Idle, ModelStream!Accepts

LEMMA ModelExtend ==
    ASSUME NEW d \in DeltaOf("model", {"part", "end"}), modelInput' = <<d>>,
           ModelWindow(h)' = ModelWindow(h) \o <<d>>, modelMade' = <<>>
    PROVE  ModelStream!Next
BY DEF ModelStream!Next, ModelStream!Extend, ModelStream!Accepts

LEMMA ModelComplete ==
    ASSUME NEW d \in DeltaOf("model", {"part", "end"}), modelInput' = <<d>>,
           ModelWindow(h)' = <<>>, modelMade' = ModelWindow(h) \o <<d>>
    PROVE  ModelStream!Next
BY DEF ModelStream!Next, ModelStream!Complete, ModelStream!Accepts

OpenWindow == IF toolOpen THEN ToolWindow(h) ELSE <<>>

(* A duplex session has no tool stream to implement.                       *)
LEMMA ToolDuplex ==
    ASSUME mode # "turn", mode' = mode
    PROVE  ToolStream!Next
BY DEF ToolStream!Next, ToolStream!Idle, TurnBased

LEMMA ToolIdle ==
    ASSUME mode' = mode,
           toolInput' = <<>> \/ \E d \in DeltaOf("tool", {"err"}) : toolInput' = <<d>>,
           OpenWindow' \in {OpenWindow, <<>>}, toolMade' = <<>>
    PROVE  ToolStream!Next
<1>1. CASE mode = "turn"
    BY <1>1 DEF ToolStream!Next, ToolStream!Idle, ToolStream!Accepts, TurnBased, OpenWindow
<1> QED
    BY <1>1, ToolDuplex

LEMMA ToolBegin ==
    ASSUME mode = "turn", mode' = mode,
           NEW d \in DeltaOf("tool", {"start", "part", "end"}), toolInput' = <<d>>,
           OpenWindow' = <<d>>, toolMade' = <<>>
    PROVE  ToolStream!Next
BY DEF ToolStream!Next, ToolStream!Begin, ToolStream!Accepts, TurnBased, OpenWindow

LEMMA ToolExtend ==
    ASSUME mode = "turn", mode' = mode,
           NEW d \in DeltaOf("tool", {"start", "part", "end"}), toolInput' = <<d>>,
           OpenWindow' = OpenWindow \o <<d>>, toolMade' = <<>>
    PROVE  ToolStream!Next
BY DEF ToolStream!Next, ToolStream!Extend, ToolStream!Accepts, TurnBased, OpenWindow

LEMMA ToolComplete ==
    ASSUME mode = "turn", mode' = mode,
           NEW d \in DeltaOf("tool", {"start", "part", "end"}), toolInput' = <<d>>,
           OpenWindow' = <<>>, toolMade' = OpenWindow \o <<d>>
    PROVE  ToolStream!Next
BY DEF ToolStream!Next, ToolStream!Complete, ToolStream!Accepts, TurnBased, OpenWindow

-----------------------------------------------------------------------------
(* The ticks                                                               *)

LEMMA FreshType ==
    ASSUME nextID \in 1..(MaxDeltas + 1), nextID <= MaxDeltas,
           NEW actor \in {"model", "tool", "user"}, NEW kind \in ModelKind \cup ToolKind
    PROVE  /\ Fresh(actor, kind) \in Delta
           /\ Fresh(actor, kind) \in DeltaOf(actor, {kind})
           /\ Fresh(actor, kind).actor = actor /\ Fresh(actor, kind).kind = kind
           /\ Fresh(actor, kind).pcm /\ Fresh(actor, kind).id = nextID
           /\ nextID + 1 \in 1..(MaxDeltas + 1) /\ nextID \in Nat
<1>1. nextID \in 0..MaxDeltas /\ nextID \in 1..MaxDeltas
    BY Bounds
<1> QED
    BY <1>1, Bounds DEF Fresh, Delta, DeltaOf

LEMMA Kept ==
    ASSUME TypeInv', ControlInv', Tidy(h'), toolOpen' => OpenIn(h', nextID')
    PROVE  IInv'
BY DEF IInv, WindowInv, Tidy, HistoryBounded

LEMMA Holding ==
    ASSUME IInv
    PROVE  /\ TypeInv /\ ControlInv /\ WellFormed(h) /\ Tidy(h)
           /\ toolOpen => OpenIn(h, nextID)
           /\ h \in History /\ nextID \in Nat /\ nextID \in 1..(MaxDeltas + 1)
           /\ ModelWindow(h) \in Seq(Delta) /\ ToolWindow(h) \in Seq(Delta)
BY WindowTypes DEF IInv, WindowInv, Tidy, HistoryBounded, TypeInv

(* The delta a model tick accepts, and what such a tick leaves alone.      *)
LEMMA ModelRead ==
    ASSUME IInv, NEW kind \in ModelKind, ReadModel(kind)
    PROVE  LET d == Fresh("model", kind)
           IN /\ d \in Delta /\ d \in DeltaOf("model", {kind})
              /\ modelInput' = <<d>> /\ modelInput'[1] = d
              /\ modelInput' \in Seq(Delta) /\ toolInput' \in Seq(Delta)
              /\ toolInput' = <<>> /\ toolMade' = <<>> /\ toolMade' \in Seq(Delta)
              /\ mode' = mode /\ loop' = loop /\ toolOpen' = toolOpen
              /\ controls' = controls /\ loop = "running" /\ modelLive
              /\ nextID' = nextID + 1 /\ nextID' \in 1..(MaxDeltas + 1)
              /\ mode = "turn" => ~toolOpen
<1> DEFINE d == Fresh("model", kind)
<1>1. kind \in ModelKind \cup ToolKind /\ nextID \in 1..(MaxDeltas + 1)
    BY Holding
<1>2. nextID <= MaxDeltas
    BY DEF ReadModel
<1>3. /\ d \in Delta /\ d \in DeltaOf("model", {kind})
      /\ nextID + 1 \in 1..(MaxDeltas + 1)
    BY <1>1, <1>2, FreshType
<1>4. /\ modelInput' = <<d>> /\ toolInput' = <<>> /\ toolMade' = <<>>
      /\ mode' = mode /\ loop' = loop /\ toolOpen' = toolOpen
      /\ controls' = controls /\ loop = "running" /\ modelLive
      /\ nextID' = nextID + 1
    BY DEF ReadModel
<1> HIDE DEF d
<1>5. <<d>> \in Seq(Delta) /\ <<d>>[1] = d /\ <<>> \in Seq(Delta)
    BY <1>3, SingletonType, EmptySeq
<1>6. mode = "turn" => ~toolOpen
    BY <1>4, Holding, Bounds DEF TypeInv, ControlInv
<1> QED
    BY <1>3, <1>4, <1>5, <1>6 DEF d

(* What every step that reads a model delta shares: the batch is left      *)
(* alone, and in a turn-based loop none is open.                           *)
LEMMA ModelTick ==
    ASSUME IInv, NEW kind \in ModelKind, ReadModel(kind), Tidy(h'),
           \A k : OpenIn(h, k) => OpenIn(h', k),
           modelMade' \in Seq(Delta), modelLive' \in BOOLEAN, batches' \in 0..2,
           toolOpen => batches' > 0,
           mode = "turn" => batches' <= 1 /\ (modelLive' => batches' = 0)
    PROVE  IInv' /\ ToolStream!Next
<1>1. /\ modelInput' \in Seq(Delta) /\ toolInput' \in Seq(Delta)
      /\ toolInput' = <<>> /\ toolMade' = <<>> /\ toolMade' \in Seq(Delta)
      /\ mode' = mode /\ loop' = loop /\ toolOpen' = toolOpen
      /\ controls' = controls /\ loop = "running"
      /\ nextID' = nextID + 1 /\ nextID' \in 1..(MaxDeltas + 1)
      /\ mode = "turn" => ~toolOpen
    BY ModelRead
<1>2. /\ TypeInv /\ ControlInv /\ nextID \in Nat
      /\ toolOpen => OpenIn(h, nextID)
    BY Holding
<1>3. h' \in History
    BY DEF Tidy, WellFormed
<1>4. TypeInv'
    BY <1>1, <1>2, <1>3 DEF TypeInv
<1>5. ControlInv'
    BY <1>1, <1>2 DEF ControlInv
<1>6. toolOpen' => OpenIn(h', nextID')
    BY <1>1, <1>2, <1>3, OpenLater
<1>7. IInv'
    BY <1>4, <1>5, <1>6, Kept
<1>8. ToolStream!Next
    <2>1. CASE mode = "turn"
        <3>1. OpenWindow' = <<>>
            BY <1>1, <2>1 DEF OpenWindow
        <3> QED
            BY <1>1, <3>1, ToolIdle
    <2> QED
        BY <1>1, <2>1, ToolDuplex
<1> QED
    BY <1>7, <1>8

LEMMA ModelPartStep ==
    ASSUME IInv, TickModelPart
    PROVE  IInv' /\ ModelStream!Next /\ ToolStream!Next
<1> DEFINE d == Fresh("model", "part")
<1>1. "part" \in ModelKind /\ ReadModel("part")
    BY DEF ModelKind, TickModelPart
<1>2. /\ d \in Delta /\ d \in DeltaOf("model", {"part"})
      /\ modelInput' = <<d>> /\ modelInput'[1] = d
    BY <1>1, ModelRead
<1>3. /\ h' = SettleHistory(WriteModelDelta(h, d)) /\ modelMade' = <<>>
      /\ modelLive' = modelLive /\ batches' = batches
    BY <1>2 DEF TickModelPart
<1> HIDE DEF d
<1>4. /\ TypeInv /\ ControlInv /\ WellFormed(h) /\ ModelWindow(h) \in Seq(Delta)
    BY Holding
<1>5. /\ Tidy(h') /\ ModelWindow(h') = Append(ModelWindow(h), d)
      /\ \A k : OpenIn(h, k) => OpenIn(h', k)
    BY <1>2, <1>3, <1>4, AfterModel
<1>6. IInv' /\ ToolStream!Next
    <2>1. modelMade' \in Seq(Delta)
        BY <1>3, EmptySeq
    <2>2. /\ modelLive' \in BOOLEAN /\ batches' \in 0..2 /\ (toolOpen => batches' > 0)
          /\ mode = "turn" => batches' <= 1 /\ (modelLive' => batches' = 0)
        BY <1>3, <1>4 DEF TypeInv, ControlInv
    <2> QED
        BY <1>1, <1>5, <2>1, <2>2, ModelTick
<1>7. ModelStream!Next
    <2>1. d \in DeltaOf("model", {"part", "end"})
        BY <1>2 DEF DeltaOf
    <2>2. ModelWindow(h)' = ModelWindow(h) \o <<d>>
        BY <1>2, <1>4, <1>5, AppendIsConcat
    <2> QED
        BY <1>2, <1>3, <2>1, <2>2, ModelExtend
<1> QED
    BY <1>6, <1>7

LEMMA ModelAckStep ==
    ASSUME IInv, TickModelAck
    PROVE  IInv' /\ ModelStream!Next /\ ToolStream!Next
<1> DEFINE d == Fresh("model", "ack")
<1>1. "ack" \in ModelKind /\ ReadModel("ack")
    BY DEF ModelKind, TickModelAck
<1>2. d \in DeltaOf("model", {"ack"}) /\ modelInput' = <<d>>
    BY <1>1, ModelRead
<1> HIDE DEF d
<1>3. /\ h' = SettleHistory(h) /\ modelMade' = <<>>
      /\ modelLive' = modelLive /\ batches' = batches
    BY DEF TickModelAck
<1>4. TypeInv /\ ControlInv /\ WellFormed(h)
    BY Holding
<1>5. /\ Tidy(h') /\ ModelWindow(h') = ModelWindow(h)
      /\ \A k : OpenIn(h, k) => OpenIn(h', k)
    BY <1>3, <1>4, AfterSettle
<1>6. IInv' /\ ToolStream!Next
    <2>1. modelMade' \in Seq(Delta)
        BY <1>3, EmptySeq
    <2>2. /\ modelLive' \in BOOLEAN /\ batches' \in 0..2 /\ (toolOpen => batches' > 0)
          /\ mode = "turn" => batches' <= 1 /\ (modelLive' => batches' = 0)
        BY <1>3, <1>4 DEF TypeInv, ControlInv
    <2> QED
        BY <1>1, <1>5, <2>1, <2>2, ModelTick
<1>7. ModelStream!Next
    <2>1. ModelWindow(h)' \in {ModelWindow(h), <<>>}
        BY <1>5
    <2> QED
        BY <1>2, <1>3, <2>1, ModelIdle
<1> QED
    BY <1>6, <1>7

(* REASONING.END, MESSAGE.END with calls and MESSAGE.END without.          *)
LEMMA RebuildStep ==
    ASSUME IInv, NEW kind \in {"part", "end"}, ReadModel(kind), Rebuild,
           modelLive' \in BOOLEAN, batches' \in 0..2, batches' >= batches,
           mode = "turn" => batches' <= 1 /\ (modelLive' => batches' = 0)
    PROVE  IInv' /\ ModelStream!Next /\ ToolStream!Next
<1> DEFINE d == Fresh("model", kind)
           w == SettleHistory(WriteModelDelta(h, d))
<1>1. kind \in ModelKind
    BY DEF ModelKind
<1>2. /\ d \in Delta /\ d \in DeltaOf("model", {kind})
      /\ modelInput' = <<d>> /\ modelInput'[1] = d
    BY <1>1, ModelRead
<1>3. h' = ResetModelDeltaWindow(w) /\ modelMade' = Append(ModelWindow(h), d)
    BY <1>2 DEF Rebuild
<1> HIDE DEF d
<1>4. /\ TypeInv /\ ControlInv /\ WellFormed(h) /\ ModelWindow(h) \in Seq(Delta)
    BY Holding
<1>5. WellFormed(w) /\ \A k : OpenIn(h, k) => OpenIn(w, k)
    BY <1>2, <1>4, AfterModel DEF Tidy
<1> HIDE DEF w
<1>6. /\ Tidy(h') /\ ModelWindow(h') = <<>>
      /\ \A k : OpenIn(h, k) => OpenIn(h', k)
    BY <1>3, <1>5, AfterReset
<1>7. IInv' /\ ToolStream!Next
    <2>1. modelMade' \in Seq(Delta)
        BY <1>2, <1>3, <1>4, AppendType
    <2>2. toolOpen => batches' > 0
        BY <1>4 DEF TypeInv, ControlInv
    <2> QED
        BY <1>1, <1>6, <2>1, <2>2, ModelTick
<1>8. ModelStream!Next
    <2>1. d \in DeltaOf("model", {"part", "end"})
        BY <1>2 DEF DeltaOf
    <2>2. modelMade' = ModelWindow(h) \o <<d>>
        BY <1>2, <1>3, <1>4, AppendIsConcat
    <2>3. ModelWindow(h)' = <<>>
        BY <1>6
    <2> QED
        BY <1>2, <2>1, <2>2, <2>3, ModelComplete
<1> QED
    BY <1>7, <1>8

LEMMA ModelEndSteps ==
    ASSUME IInv, TickReasoningEnd \/ TickModelCalls \/ TickModelFinal
    PROVE  IInv' /\ ModelStream!Next /\ ToolStream!Next
<1>1. TypeInv /\ ControlInv
    BY Holding
<1>2. CASE TickReasoningEnd
    <2>1. ReadModel("part") /\ Rebuild /\ modelLive' = modelLive /\ batches' = batches
        BY <1>2 DEF TickReasoningEnd
    <2>2. /\ modelLive' \in BOOLEAN /\ batches' \in 0..2 /\ batches' >= batches
          /\ mode = "turn" => batches' <= 1 /\ (modelLive' => batches' = 0)
        BY <1>1, <2>1 DEF TypeInv, ControlInv
    <2> QED
        BY <2>1, <2>2, RebuildStep
<1>3. CASE TickModelCalls
    <2>1. /\ ReadModel("end") /\ Rebuild /\ modelLive' = (mode = "duplex")
          /\ batches' = batches + 1 /\ batches < 2 /\ modelLive
        BY <1>3 DEF TickModelCalls, ReadModel
    <2>2. mode = "turn" => ~modelLive' /\ batches = 0
        BY <1>1, <2>1 DEF ControlInv
    <2>3. /\ batches' \in 0..2 /\ batches' >= batches
          /\ mode = "turn" => batches' <= 1
        BY <1>1, <2>1, <2>2 DEF TypeInv
    <2>4. modelLive' \in BOOLEAN
        BY <2>1
    <2> QED
        BY <2>1, <2>2, <2>3, <2>4, RebuildStep
<1>4. CASE TickModelFinal
    <2>1. /\ ReadModel("end") /\ Rebuild /\ modelLive' = (mode = "duplex")
          /\ batches' = batches
        BY <1>4 DEF TickModelFinal
    <2>2. mode = "turn" => ~modelLive' /\ batches <= 1
        BY <1>1, <2>1 DEF ControlInv
    <2>3. batches' \in 0..2 /\ batches' >= batches
        BY <1>1, <2>1 DEF TypeInv
    <2>4. modelLive' \in BOOLEAN
        BY <2>1
    <2> QED
        BY <2>1, <2>2, <2>3, <2>4, RebuildStep
<1> QED
    BY <1>2, <1>3, <1>4

(* Steps without a delta: none of them leaves a batch open.                *)
LEMMA QuietStep ==
    ASSUME IInv, NoInput, mode' = mode, nextID' = nextID, Tidy(h'), ~toolOpen',
           toolOpen' \in BOOLEAN,
           ModelWindow(h') \in {ModelWindow(h), <<>>}, loop' \in {"running", "stopped"},
           modelLive' \in BOOLEAN, batches' \in 0..2, controls' \in 0..MaxControls,
           loop' = "stopped" => ~modelLive' /\ batches' = 0,
           mode = "turn" => batches' <= 1 /\ (modelLive' => batches' = 0)
    PROVE  IInv' /\ ModelStream!Next /\ ToolStream!Next
<1>1. TypeInv
    BY Holding
<1>2. h' \in History
    BY DEF Tidy, WellFormed
<1>3. /\ modelInput' = <<>> /\ toolInput' = <<>> /\ modelMade' = <<>> /\ toolMade' = <<>>
      /\ <<>> \in Seq(Delta)
    BY EmptySeq DEF NoInput
<1>4. TypeInv'
    BY <1>1, <1>2, <1>3 DEF TypeInv
<1>5. ControlInv'
    BY DEF ControlInv
<1>6. IInv'
    BY <1>4, <1>5, Kept
<1>7. ModelStream!Next
    <2>1. ModelWindow(h)' \in {ModelWindow(h), <<>>}
        OBVIOUS
    <2> QED
        BY <1>3, <2>1, ModelIdle
<1>8. ToolStream!Next
    <2>1. OpenWindow' = <<>>
        BY DEF OpenWindow
    <2> QED
        BY <1>3, <2>1, ToolIdle
<1> QED
    BY <1>6, <1>7, <1>8

LEMMA ModelErrorStep ==
    ASSUME IInv, TickModelError
    PROVE  IInv' /\ ModelStream!Next /\ ToolStream!Next
<1>1. TypeInv /\ WellFormed(h)
    BY Holding
<1>2. /\ h' = [h EXCEPT !.buffer = SubSeq(@, 1, Min({h.modelStart, Len(@)})),
                        !.modelCount = 0]
      /\ loop' = "stopped" /\ batches' = 0 /\ toolOpen' = FALSE /\ modelLive' = FALSE
      /\ NoInput /\ mode' = mode /\ controls' = controls /\ nextID' = nextID
    BY DEF TickModelError
<1>3. WellFormed(h') /\ ModelWindow(h') = <<>> /\ h'.modelCount = 0
    BY <1>1, <1>2, TruncateKeeps
<1>4. Tidy(h')
    BY <1>3 DEF Tidy
<1>5. batches' \in 0..2 /\ controls' \in 0..MaxControls
    BY <1>1, <1>2 DEF TypeInv
<1>6. mode = "turn" => batches' <= 1 /\ (modelLive' => batches' = 0)
    BY <1>2
<1> QED
    BY <1>2, <1>3, <1>4, <1>5, <1>6, QuietStep

LEMMA UserStep ==
    ASSUME IInv, TickUser \/ TickInterrupt
    PROVE  IInv' /\ ModelStream!Next /\ ToolStream!Next
<1>1. TypeInv /\ ControlInv /\ WellFormed(h)
    BY Holding
<1>2. /\ h' = ResetModelDeltaWindow(SettleHistory(h))
      /\ NoInput /\ mode' = mode /\ loop' = loop /\ nextID' = nextID
      /\ modelLive' = TRUE /\ loop = "running"
    BY DEF TickUser, TickInterrupt
<1>3. WellFormed(SettleHistory(h))
    BY <1>1, AfterSettle DEF Tidy
<1>4. Tidy(h') /\ ModelWindow(h') = <<>>
    BY <1>2, <1>3, AfterReset
<1>5. batches' = 0 /\ ~toolOpen' /\ toolOpen' \in BOOLEAN
    <2>1. CASE TickUser
        <3>1. batches = 0 /\ batches' = batches /\ toolOpen' = toolOpen
            BY <2>1 DEF TickUser
        <3> QED
            BY <1>1, <3>1 DEF TypeInv, ControlInv
    <2>2. CASE TickInterrupt
        BY <2>2 DEF TickInterrupt
    <2> QED
        BY <2>1, <2>2
<1>6. batches' \in 0..2 /\ (mode = "turn" => batches' <= 1 /\ (modelLive' => batches' = 0))
    BY <1>5
<1>7. controls' \in 0..MaxControls
    <2>1. CASE TickUser
        BY <1>1, <2>1 DEF TickUser, TypeInv
    <2>2. CASE TickInterrupt
        BY <1>1, <2>2, Bounds DEF TickInterrupt, TypeInv
    <2> QED
        BY <2>1, <2>2
<1>8. loop' \in {"running", "stopped"} /\ loop' # "stopped" /\ modelLive' \in BOOLEAN
    BY <1>2
<1> QED
    BY <1>2, <1>4, <1>5, <1>6, <1>7, <1>8, QuietStep

LEMMA HeldStep ==
    ASSUME IInv, TickUserHeldDuplex
    PROVE  IInv' /\ ModelStream!Next /\ ToolStream!Next
<1>1. TypeInv /\ WellFormed(h)
    BY Holding
<1>2. /\ h' = SettleHistory(h) /\ NoInput /\ mode' = mode /\ loop' = loop
      /\ nextID' = nextID /\ controls' = controls /\ modelLive' = modelLive
      /\ batches' = 0 /\ toolOpen' = FALSE /\ loop = "running" /\ mode = "duplex"
    BY DEF TickUserHeldDuplex
<1>3. Tidy(h') /\ ModelWindow(h') = ModelWindow(h)
    BY <1>1, <1>2, AfterSettle
<1>4. /\ batches' \in 0..2 /\ controls' \in 0..MaxControls /\ modelLive' \in BOOLEAN
      /\ loop' \in {"running", "stopped"} /\ loop' # "stopped" /\ mode # "turn"
    BY <1>1, <1>2 DEF TypeInv
<1> QED
    BY <1>2, <1>3, <1>4, QuietStep

LEMMA ExecuteStep ==
    ASSUME IInv, Execute
    PROVE  IInv' /\ ModelStream!Next /\ ToolStream!Next
<1> DEFINE d == [Fresh("user", "part") EXCEPT !.id = 0]
           g == [h EXCEPT !.buffer = Append(@, d)]
<1>1. TypeInv /\ ControlInv /\ WellFormed(h)
    BY Holding
<1>2. d \in Delta /\ d.actor = "user"
    <2> DEFINE R == [actor : {"user"}, kind : {"part"}, id : {0, nextID}, pcm : BOOLEAN]
    <2>1. Fresh("user", "part") \in R
        BY DEF Fresh
    <2>2. d \in R /\ d.id = 0
        BY <2>1
    <2> HIDE DEF d
    <2>3. "part" \in ModelKind \cup ToolKind /\ 0 \in 0..MaxDeltas
        BY Bounds DEF ModelKind
    <2> QED
        BY <2>2, <2>3 DEF Delta
<1>3. /\ h' = ResetModelDeltaWindow(g)
      /\ NoInput /\ mode' = mode /\ loop' = "running" /\ nextID' = nextID
      /\ controls' = controls + 1 /\ controls < MaxControls
      /\ modelLive' = TRUE /\ batches' = batches /\ toolOpen' = toolOpen
      /\ loop = "stopped"
    BY DEF Execute
<1> HIDE DEF d
<1>4. WellFormed(g)
    BY <1>1, <1>2, UserDeltaKeeps
<1> HIDE DEF g
<1>5. Tidy(h') /\ ModelWindow(h') = <<>>
    BY <1>3, <1>4, AfterReset
<1>6. batches' = 0 /\ ~toolOpen' /\ toolOpen' \in BOOLEAN
    BY <1>1, <1>3 DEF TypeInv, ControlInv
<1>7. batches' \in 0..2 /\ (mode = "turn" => batches' <= 1 /\ (modelLive' => batches' = 0))
    BY <1>6
<1>8. controls' \in 0..MaxControls
    BY <1>1, <1>3, Bounds DEF TypeInv
<1>9. loop' \in {"running", "stopped"} /\ loop' # "stopped" /\ modelLive' \in BOOLEAN
    BY <1>3
<1> QED
    BY <1>3, <1>5, <1>6, <1>7, <1>8, <1>9, QuietStep

LEMMA StopStep ==
    ASSUME IInv, Stop
    PROVE  IInv' /\ ModelStream!Next /\ ToolStream!Next
<1>1. TypeInv /\ Tidy(h)
    BY Holding
<1>2. /\ h' = h /\ NoInput /\ mode' = mode /\ loop' = "stopped"
      /\ nextID' = nextID /\ controls' = controls /\ modelLive' = FALSE
      /\ batches' = 0 /\ toolOpen' = FALSE
    BY DEF Stop
<1>3. Tidy(h') /\ ModelWindow(h') = ModelWindow(h)
    BY <1>1, <1>2
<1>4. /\ batches' \in 0..2 /\ controls' \in 0..MaxControls
      /\ mode = "turn" => batches' <= 1 /\ (modelLive' => batches' = 0)
    BY <1>1, <1>2 DEF TypeInv
<1> QED
    BY <1>2, <1>3, <1>4, QuietStep

(* The delta a tool tick accepts, and what such a tick leaves alone.       *)
LEMMA ToolRead ==
    ASSUME IInv, NEW kind \in ToolKind, ReadTool(kind)
    PROVE  LET d == Fresh("tool", kind)
           IN /\ d \in Delta /\ d \in DeltaOf("tool", {kind})
              /\ d.actor = "tool" /\ d.kind = kind /\ d.pcm /\ d.id = nextID
              /\ toolInput' = <<d>> /\ toolInput'[1] = d
              /\ modelInput' = <<>> /\ modelMade' = <<>>
              /\ mode' = mode /\ loop' = loop /\ controls' = controls
              /\ loop = "running" /\ batches > 0 /\ nextID' = nextID + 1
<1> DEFINE d == Fresh("tool", kind)
<1>1. kind \in ModelKind \cup ToolKind /\ nextID \in 1..(MaxDeltas + 1)
    BY Holding
<1>2. nextID <= MaxDeltas
    BY DEF ReadTool
<1>3. /\ d \in Delta /\ d \in DeltaOf("tool", {kind})
      /\ d.actor = "tool" /\ d.kind = kind /\ d.pcm /\ d.id = nextID
    BY <1>1, <1>2, FreshType
<1>4. /\ toolInput' = <<d>> /\ modelInput' = <<>> /\ modelMade' = <<>>
      /\ mode' = mode /\ loop' = loop /\ controls' = controls
      /\ loop = "running" /\ batches > 0 /\ nextID' = nextID + 1
    BY DEF ReadTool
<1> HIDE DEF d
<1>5. <<d>>[1] = d
    BY <1>3, SingletonType
<1> QED
    BY <1>3, <1>4, <1>5 DEF d

(* What every tick that reads a tool delta shares.                         *)
LEMMA ToolTick ==
    ASSUME IInv, NEW kind \in ToolKind, ReadTool(kind), Tidy(h'),
           ModelWindow(h') \in {ModelWindow(h), <<>>},
           toolOpen' \in BOOLEAN, toolMade' \in Seq(Delta), modelLive' \in BOOLEAN,
           batches' \in {batches, batches - 1}, toolOpen' => batches' = batches,
           toolOpen' => OpenIn(h', nextID + 1),
           mode = "turn" => /\ modelLive' => batches' = 0
                            /\ toolOpen' => h'.modelStart <= h'.toolStart
    PROVE  IInv' /\ ModelStream!Next
<1> DEFINE d == Fresh("tool", kind)
<1>1. /\ d \in Delta /\ toolInput' = <<d>>
      /\ modelInput' = <<>> /\ modelMade' = <<>>
      /\ mode' = mode /\ loop' = loop /\ controls' = controls
      /\ loop = "running" /\ batches > 0 /\ nextID' = nextID + 1
    BY ToolRead
<1> HIDE DEF d
<1>2. TypeInv /\ ControlInv /\ nextID \in Nat
    BY Holding
<1>3. h' \in History
    BY DEF Tidy, WellFormed
<1>4. nextID' \in 1..(MaxDeltas + 1) /\ batches' \in 0..2
    <2>1. nextID <= MaxDeltas
        BY DEF ReadTool
    <2>2. nextID' \in 1..(MaxDeltas + 1)
        BY <1>1, <1>2, <2>1, Bounds
    <2>3. batches' \in 0..2
        BY <1>1, <1>2 DEF TypeInv
    <2> QED
        BY <2>2, <2>3
<1>5. /\ toolInput' \in Seq(Delta) /\ modelInput' \in Seq(Delta)
      /\ modelMade' \in Seq(Delta)
    BY <1>1, SingletonType, EmptySeq
<1>6. TypeInv'
    BY <1>1, <1>2, <1>3, <1>4, <1>5 DEF TypeInv
<1>7. ControlInv'
    <2>1. batches' <= batches
        BY <1>1, <1>2 DEF TypeInv
    <2>2. batches \in Nat /\ batches' \in Nat
        BY <1>2, <1>4 DEF TypeInv
    <2> QED
        BY <1>1, <1>2, <2>1, <2>2 DEF ControlInv
<1>8. toolOpen' => OpenIn(h', nextID')
    BY <1>1
<1>9. IInv'
    BY <1>6, <1>7, <1>8, Kept
<1>10. ModelStream!Next
    <2>1. ModelWindow(h)' \in {ModelWindow(h), <<>>}
        OBVIOUS
    <2> QED
        BY <1>1, <2>1, ModelIdle
<1> QED
    BY <1>9, <1>10

LEMMA ToolStartStep ==
    ASSUME IInv, TickToolStart
    PROVE  IInv' /\ ModelStream!Next /\ ToolStream!Next
<1> DEFINE d == Fresh("tool", "start")
<1>1. "start" \in ToolKind /\ ReadTool("start")
    BY DEF ToolKind, TickToolStart
<1>2. /\ d \in Delta /\ d \in DeltaOf("tool", {"start"})
      /\ d.actor = "tool" /\ d.kind = "start" /\ d.pcm /\ d.id = nextID
      /\ toolInput' = <<d>> /\ toolInput'[1] = d /\ mode' = mode /\ batches > 0
    BY <1>1, ToolRead
<1>3. /\ h' = SettleHistory(WriteToolDelta(OpenBatch(h), d))
      /\ toolOpen' = TRUE /\ toolMade' = <<>>
      /\ modelLive' = modelLive /\ batches' = batches
    BY <1>2 DEF TickToolStart
<1> HIDE DEF d
<1>4. TypeInv /\ ControlInv /\ WellFormed(h) /\ nextID \in Nat
    BY Holding
<1>5. /\ Tidy(h') /\ ModelWindow(h') = ModelWindow(h)
      /\ OpenIn(h', nextID + 1) /\ h'.modelStart <= h'.toolStart
      /\ ToolWindow(h') = <<d>>
    BY <1>2, <1>3, <1>4, AfterToolStart
<1>6. IInv' /\ ModelStream!Next
    <2>1. /\ toolMade' \in Seq(Delta) /\ toolOpen' \in BOOLEAN
          /\ ModelWindow(h') \in {ModelWindow(h), <<>>}
        BY <1>3, <1>5, EmptySeq
    <2>2. /\ modelLive' \in BOOLEAN /\ batches' \in {batches, batches - 1}
          /\ mode = "turn" => (modelLive' => batches' = 0)
        BY <1>3, <1>4 DEF TypeInv, ControlInv
    <2> QED
        BY <1>1, <1>3, <1>5, <2>1, <2>2, ToolTick
<1>7. ToolStream!Next
    <2>1. d \in DeltaOf("tool", {"start", "part", "end"})
        BY <1>2 DEF DeltaOf
    <2>2. OpenWindow' = <<d>>
        BY <1>3, <1>5 DEF OpenWindow
    <2>3. CASE mode = "turn"
        BY <1>2, <1>3, <2>1, <2>2, <2>3, ToolBegin
    <2> QED
        BY <1>2, <2>3, ToolDuplex
<1> QED
    BY <1>6, <1>7

LEMMA ToolPartStep ==
    ASSUME IInv, TickToolPart
    PROVE  IInv' /\ ModelStream!Next /\ ToolStream!Next
<1> DEFINE d == Fresh("tool", "part")
<1>1. "part" \in ToolKind /\ ReadTool("part")
    BY DEF ToolKind, TickToolPart
<1>2. /\ d \in Delta /\ d \in DeltaOf("tool", {"part"})
      /\ d.actor = "tool" /\ d.kind = "part" /\ d.pcm /\ d.id = nextID
      /\ toolInput' = <<d>> /\ toolInput'[1] = d /\ mode' = mode /\ batches > 0
    BY <1>1, ToolRead
<1>3. /\ h' = SettleHistory(WriteToolDelta(h, d))
      /\ toolOpen /\ toolOpen' = toolOpen /\ toolMade' = <<>>
      /\ modelLive' = modelLive /\ batches' = batches
    BY <1>2 DEF TickToolPart
<1> HIDE DEF d
<1>4. /\ TypeInv /\ ControlInv /\ WellFormed(h) /\ nextID \in Nat
      /\ OpenIn(h, nextID) /\ ToolWindow(h) \in Seq(Delta)
    BY <1>3, Holding
<1>5. Tidy(h') /\ ModelWindow(h') = ModelWindow(h)
    BY <1>2, <1>3, <1>4, AfterTool
<1>6. /\ OpenIn(h', nextID + 1)
      /\ h.modelStart <= h.toolStart =>
            ToolWindow(h') = Append(ToolWindow(h), d) /\ h'.modelStart <= h'.toolStart
    BY <1>2, <1>3, <1>4, AfterToolPart
<1>7. mode = "turn" => h.modelStart <= h.toolStart
    BY <1>3, <1>4 DEF ControlInv
<1>8. IInv' /\ ModelStream!Next
    <2>1. /\ toolMade' \in Seq(Delta) /\ ModelWindow(h') \in {ModelWindow(h), <<>>}
        BY <1>3, <1>5, EmptySeq
    <2>2. toolOpen' \in BOOLEAN
        BY <1>3, <1>4 DEF TypeInv
    <2>3. /\ modelLive' \in BOOLEAN /\ batches' \in {batches, batches - 1}
          /\ mode = "turn" => (modelLive' => batches' = 0)
        BY <1>3, <1>4 DEF TypeInv, ControlInv
    <2> QED
        BY <1>1, <1>3, <1>5, <1>6, <1>7, <2>1, <2>2, <2>3, ToolTick
<1>9. ToolStream!Next
    <2>1. d \in DeltaOf("tool", {"start", "part", "end"})
        BY <1>2 DEF DeltaOf
    <2>2. CASE mode = "turn"
        <3>1. ToolWindow(h') = ToolWindow(h) \o <<d>>
            BY <1>2, <1>4, <1>6, <1>7, <2>2, AppendIsConcat
        <3>2. OpenWindow' = OpenWindow \o <<d>>
            BY <1>3, <3>1 DEF OpenWindow
        <3> QED
            BY <1>2, <1>3, <2>1, <2>2, <3>2, ToolExtend
    <2> QED
        BY <1>2, <2>2, ToolDuplex
<1> QED
    BY <1>8, <1>9

LEMMA ToolEndStep ==
    ASSUME IInv, TickToolEnd
    PROVE  IInv' /\ ModelStream!Next /\ ToolStream!Next
<1> DEFINE d == Fresh("tool", "end")
           ended == SettleHistory(WriteToolDelta([h EXCEPT !.toolBatchActive = FALSE], d))
<1>1. "end" \in ToolKind /\ ReadTool("end")
    BY DEF ToolKind, TickToolEnd
<1>2. /\ d \in Delta /\ d \in DeltaOf("tool", {"end"}) /\ d.actor = "tool"
      /\ toolInput' = <<d>> /\ toolInput'[1] = d /\ mode' = mode /\ batches > 0
    BY <1>1, ToolRead
<1>3. /\ h' \in {ResetModelDeltaWindow(ended), ended}
      /\ toolOpen /\ toolOpen' = FALSE /\ toolMade' = Append(ToolWindow(h), d)
      /\ modelLive' = TRUE /\ batches' = batches - 1
    BY <1>2 DEF TickToolEnd
<1> HIDE DEF d
<1>4. TypeInv /\ ControlInv /\ WellFormed(h) /\ ToolWindow(h) \in Seq(Delta)
    BY Holding
<1>5. Tidy(ended) /\ ModelWindow(ended) = ModelWindow(h)
    BY <1>2, <1>4, AfterToolEnd
<1> HIDE DEF ended
<1>6. Tidy(h') /\ ModelWindow(h') \in {ModelWindow(h), <<>>}
    BY <1>3, <1>5, AfterReset DEF Tidy
<1>7. IInv' /\ ModelStream!Next
    <2>1. toolMade' \in Seq(Delta)
        BY <1>2, <1>3, <1>4, AppendType
    <2>2. /\ batches' \in {batches, batches - 1}
          /\ mode = "turn" => batches' = 0
        BY <1>2, <1>3, <1>4 DEF TypeInv, ControlInv
    <2>3. toolOpen' \in BOOLEAN /\ modelLive' \in BOOLEAN /\ ~toolOpen'
        BY <1>3
    <2> QED
        BY <1>1, <1>6, <2>1, <2>2, <2>3, ToolTick
<1>8. ToolStream!Next
    <2>1. d \in DeltaOf("tool", {"start", "part", "end"})
        BY <1>2 DEF DeltaOf
    <2>2. toolMade' = ToolWindow(h) \o <<d>>
        BY <1>2, <1>3, <1>4, AppendIsConcat
    <2>3. OpenWindow' = <<>> /\ toolMade' = OpenWindow \o <<d>>
        BY <1>3, <2>2 DEF OpenWindow
    <2>4. CASE mode = "turn"
        BY <1>2, <2>1, <2>3, <2>4, ToolComplete
    <2> QED
        BY <1>2, <2>4, ToolDuplex
<1> QED
    BY <1>7, <1>8

LEMMA ToolErrorStep ==
    ASSUME IInv, TickToolError
    PROVE  IInv' /\ ModelStream!Next /\ ToolStream!Next
<1> DEFINE d == Fresh("tool", "err")
<1>1. "err" \in ToolKind /\ ReadTool("err")
    BY DEF ToolKind, TickToolError
<1>2. /\ d \in Delta /\ d \in DeltaOf("tool", {"err"}) /\ d.actor = "tool"
      /\ toolInput' = <<d>> /\ toolInput'[1] = d /\ mode' = mode /\ batches > 0
    BY <1>1, ToolRead
<1>3. /\ h' = SettleHistory(WriteToolDelta(h, d))
      /\ ~toolOpen /\ toolOpen' = toolOpen /\ toolMade' = <<>>
      /\ modelLive' = modelLive /\ batches' = batches - 1
    BY <1>2 DEF TickToolError
<1> HIDE DEF d
<1>4. TypeInv /\ ControlInv /\ WellFormed(h)
    BY Holding
<1>5. Tidy(h') /\ ModelWindow(h') = ModelWindow(h)
    BY <1>2, <1>3, <1>4, AfterTool
<1>6. IInv' /\ ModelStream!Next
    <2>1. /\ toolMade' \in Seq(Delta) /\ ModelWindow(h') \in {ModelWindow(h), <<>>}
        BY <1>3, <1>5, EmptySeq
    <2>2. toolOpen' \in BOOLEAN /\ ~toolOpen'
        BY <1>3, <1>4 DEF TypeInv
    <2>3. /\ modelLive' \in BOOLEAN /\ batches' \in {batches, batches - 1}
        BY <1>3, <1>4 DEF TypeInv
    <2>4. mode = "turn" => (modelLive' => batches' = 0)
        BY <1>2, <1>3, <1>4 DEF TypeInv, ControlInv
    <2> QED
        BY <1>1, <1>5, <2>1, <2>2, <2>3, <2>4, ToolTick
<1>7. ToolStream!Next
    <2>1. OpenWindow' = <<>>
        BY <1>3 DEF OpenWindow
    <2> QED
        BY <1>2, <1>3, <2>1, ToolIdle
<1> QED
    BY <1>6, <1>7

-----------------------------------------------------------------------------
(* The specification                                                       *)

LEMMA InitHolds ==
    ASSUME Init
    PROVE  IInv /\ ModelStream!Init /\ ToolStream!Init
<1> DEFINE d == [actor |-> "user", kind |-> "part", id |-> 0, pcm |-> TRUE]
           b == [i \in 1..SystemDeltas |-> d]
<1>1. d \in Delta
    BY Bounds DEF Delta, ModelKind
<1>2. b \in [1..SystemDeltas -> Delta]
    BY <1>1
<1>3. b \in Seq(Delta) /\ Len(b) = SystemDeltas
    BY <1>2, Bounds, IsASeq, LenProperties
<1>4. \A i \in 1..SystemDeltas : b[i].actor = "user"
    OBVIOUS
<1>5. h = [buffer |-> b, modelStart |-> 0, modelCount |-> 0,
           toolStart |-> 0, toolCount |-> 0, toolBatchActive |-> FALSE,
           settledCompacted |-> 0]
    BY DEF Init
<1> HIDE DEF b, d
<1>6. /\ h \in History /\ h.buffer = b /\ h.modelStart = 0 /\ h.modelCount = 0
      /\ h.settledCompacted = 0
    BY <1>3, <1>5 DEF History
<1>7. WellFormed(h)
    <2>1. /\ h.modelStart + h.modelCount <= Len(h.buffer)
          /\ h.modelStart + h.modelCount + 1 = 1
          /\ 1..h.settledCompacted = {} /\ h.settledCompacted <= h.modelStart
        BY <1>3, <1>6, Bounds
    <2>2. \A i \in 1..Len(h.buffer) : ~IsModelHistoryDelta(h.buffer[i])
        BY <1>3, <1>4, <1>6 DEF IsModelHistoryDelta
    <2> QED
        BY <1>6, <2>1, <2>2 DEF WellFormed
<1>8. Tidy(h)
    BY <1>6, <1>7 DEF Tidy
<1>9. /\ mode \in {"turn", "duplex"}
      /\ loop = (IF mode = "turn" THEN "stopped" ELSE "running")
      /\ modelLive = (mode = "duplex") /\ batches = 0 /\ toolOpen = FALSE
      /\ nextID = 1 /\ controls = 0 /\ modelInput = <<>> /\ toolInput = <<>>
      /\ modelMade = <<>> /\ toolMade = <<>> /\ <<>> \in Seq(Delta)
    BY EmptySeq DEF Init
<1>10. modelLive \in BOOLEAN /\ toolOpen \in BOOLEAN
    BY <1>9
<1>11. batches \in 0..2 /\ nextID \in 1..(MaxDeltas + 1) /\ controls \in 0..MaxControls
    BY <1>9, Bounds
<1>12. TypeInv
    BY <1>6, <1>9, <1>10, <1>11 DEF TypeInv
<1>13. ControlInv
    <2>1. mode = "turn" => ~modelLive
        BY <1>9
    <2>2. mode # "turn" => loop = "running"
        BY <1>9
    <2> QED
        BY <1>9, <2>1, <2>2 DEF ControlInv
<1>14. IInv
    BY <1>8, <1>9, <1>12, <1>13 DEF IInv, WindowInv, Tidy, HistoryBounded
<1>15. ModelWindow(h) = <<>>
    <2>1. Inside(h, 0, 0)
        BY <1>3, <1>6, Bounds DEF Inside
    <2>2. Slice(h, 0, 0) \in Seq(Delta) /\ Len(Slice(h, 0, 0)) = 0
        BY <2>1, InsideType
    <2> QED
        BY <1>6, <2>2, EmptySeq DEF ModelWindow
<1>16. ModelStream!Init
    BY <1>9, <1>15 DEF ModelStream!Init
<1>17. ToolStream!Init
    BY <1>9 DEF ToolStream!Init, TurnBased
<1> QED
    BY <1>14, <1>16, <1>17

LEMMA StepHolds ==
    ASSUME IInv, [Next]_vars
    PROVE  /\ IInv'
           /\ [ModelStream!Next]_<<ModelWindow(h), modelInput, modelMade>>
           /\ [ToolStream!Next]_<<TurnBased(OpenWindow), TurnBased(toolInput),
                                  TurnBased(toolMade)>>
<1>1. CASE Next
    <2>1. IInv' /\ ModelStream!Next /\ ToolStream!Next
        BY <1>1, ModelPartStep, ModelAckStep, ModelEndSteps, ModelErrorStep,
           ToolStartStep, ToolPartStep, ToolEndStep, ToolErrorStep,
           UserStep, HeldStep, ExecuteStep, StopStep DEF Next
    <2> QED
        BY <2>1
<1>2. CASE UNCHANGED vars
    <2>1. /\ mode' = mode /\ loop' = loop /\ h' = h /\ modelLive' = modelLive
          /\ batches' = batches /\ toolOpen' = toolOpen /\ controls' = controls
          /\ nextID' = nextID /\ modelInput' = modelInput /\ toolInput' = toolInput
          /\ modelMade' = modelMade /\ toolMade' = toolMade
        BY <1>2 DEF vars, envVars, tickVars
    <2>2. /\ TypeInv' /\ ControlInv' /\ Tidy(h')
          /\ toolOpen' => OpenIn(h', nextID')
        BY <2>1, Holding DEF TypeInv, ControlInv
    <2>3. IInv'
        BY <2>2, Kept
    <2> QED
        BY <2>1, <2>3 DEF TurnBased, OpenWindow
<1> QED
    BY <1>1, <1>2

(* The inductive invariant of the delta history holds in every state.      *)
THEOREM Invariance == Spec => []IInv
<1>1. Init => IInv
    BY InitHolds
<1>2. IInv /\ [Next]_vars => IInv'
    BY StepHolds
<1> QED
    BY <1>1, <1>2, PTL DEF Spec

(* The code's types and ranges: whatever settleHistory trims, no index of  *)
(* the history is negative, the response window ends within the buffer and *)
(* an open batch starts within it.                                         *)
THEOREM TypeCorrect == Spec => []TypeOK
<1>1. IInv => TypeOK
    BY DEF IInv, TypeInv, TypeOK, History, WindowInv, WellFormed, OpenIn
<1> QED
    BY <1>1, Invariance, PTL

(* UpdateWorldHistory and settleHistory keep an open tool batch in one     *)
(* piece until a response boundary falls inside it.                        *)
THEOREM OpenBatchWhole == Spec => []OpenBatchInOnePiece
<1>1. IInv => OpenBatchInOnePiece
    <2> SUFFICES ASSUME IInv, toolOpen, h.modelStart <= h.toolStart
                 PROVE  IsBatch(ToolWindow(h)) /\ Len(ToolWindow(h)) = h.toolCount
        BY DEF OpenBatchInOnePiece
    <2>1. OpenIn(h, nextID) /\ h \in History
        BY Holding
    <2>2. IsBatch(ToolWindow(h)) /\ h.toolStart + h.toolCount = Len(h.buffer)
        BY <2>1 DEF OpenIn
    <2>3. Inside(h, h.toolStart, h.toolCount)
        BY <2>1, <2>2 DEF Inside, History
    <2> QED
        BY <2>2, <2>3, InsideType DEF ToolWindow
<1> QED
    BY <1>1, Invariance, PTL

(* settleHistory bounds the settled history, strips the audio of all of it *)
(* and reaches into neither live window.                                   *)
THEOREM Compaction == Spec => []HistorySettled
<1>1. IInv => HistorySettled
    <2> SUFFICES ASSUME IInv PROVE HistorySettled
        OBVIOUS
    <2>1. WellFormed(h) /\ HistoryBounded /\ (toolOpen => h.settledCompacted <= h.toolStart)
        BY DEF IInv, WindowInv, OpenIn
    <2>2. /\ h.settledCompacted <= h.modelStart
          /\ \A i \in 1..h.settledCompacted : ~h.buffer[i].pcm
        BY <2>1 DEF WellFormed
    <2>3. h.settledCompacted <= Len(h.buffer)
        BY <2>1 DEF WellFormed, History
    <2> QED
        BY <2>1, <2>2, <2>3 DEF HistorySettled, CompactedPrefix
<1> QED
    BY <1>1, Invariance, PTL

(* The response window of the shared buffer implements a stream of its     *)
(* own: every response is rebuilt from exactly its deltas.                 *)
THEOREM ResponsesWhole == Spec => ResponsesRebuiltWhole
<1>1. Init => ModelStream!Init
    BY InitHolds
<1>2. IInv /\ [Next]_vars => [ModelStream!Next]_(ModelStream!streamVars)
    BY StepHolds DEF ModelStream!streamVars
<1> QED
    BY <1>1, <1>2, Invariance, PTL DEF Spec, ResponsesRebuiltWhole, ModelStream!Spec

(* So does the batch window of a turn-based loop, after interrupts, failed *)
(* runs and reuse of the loop.                                             *)
THEOREM BatchesWhole == Spec => BatchesRebuiltWhole
<1>1. Init => ToolStream!Init
    BY InitHolds
<1>2. IInv /\ [Next]_vars => [ToolStream!Next]_(ToolStream!streamVars)
    BY StepHolds DEF ToolStream!streamVars, OpenWindow
<1> QED
    BY <1>1, <1>2, Invariance, PTL DEF Spec, BatchesRebuiltWhole, ToolStream!Spec
=============================================================================
