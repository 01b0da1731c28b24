---------------------------- MODULE LoopRunProofs ----------------------------
(***************************************************************************)
(* Theorems about LoopRun for every capacity of the three channels, every  *)
(* number of calls and whatever the ticks produce.                         *)
(***************************************************************************)
EXTENDS LoopRun, SequenceLemmas

Queue(cap) == {s \in Seq(Item) : Len(s) <= cap}
Scripts == RunScripts \cup TurnScripts \cup {<<>>}
EngineStates == [pc : {"tick", "write", "settle", "stop", "stopuser", "done"},
                 item : Item, failed : BOOLEAN]
KernelStates == [pc : {"idle", "send", "done"}, item : Item, stop : BOOLEAN]
WorkerStates == [pc : {"recv", "write", "done"}, item : Item]

TypeInv ==
    /\ api \in {"run", "execute"} /\ call \in 0..MaxCalls
    /\ main \in {"select", "join", "barrier", "collect", "wait", "returned"}
    /\ ctxDone \in BOOLEAN /\ script \in Scripts /\ produced \in 0..Len(script)
    /\ engine \in EngineStates /\ kernel \in KernelStates /\ fwd \in WorkerStates
    /\ user \in {"idle", "publish", "done"}
    /\ inbox \in Queue(KernelCap) /\ events \in Queue(EventCap)
    /\ public \in Queue(PublicCap)
    /\ eventsOpen \in BOOLEAN /\ eventsRef \in BOOLEAN
    /\ sent \in Seq(Item) /\ seen \in Seq(Item)

(* Where each goroutine may be while the others are where they are: the    *)
(* engine joins the kernel and the user participant before it ends, Run    *)
(* and Execute join the engine, Run joins the forwarding worker.           *)
ControlInv ==
    /\ api = "run" => call = 1 /\ main \in {"select", "join", "barrier", "returned"}
    /\ api = "execute" => /\ main \in {"collect", "wait", "returned"}
                          /\ fwd.pc = "done" /\ public = <<>>
    /\ call = 0 => engine.pc = "done"
    /\ main \in {"barrier", "returned"} => engine.pc = "done"
    /\ main = "returned" => fwd.pc = "done"
    /\ engine.pc \in {"stopuser", "done"} => kernel.pc = "done"
    /\ engine.pc = "done" => user = "done"

CoreInv == TypeInv /\ ControlInv

(* The worker has not yet given up on a delta.                             *)
Intact == api = "execute" \/ fwd.pc # "done" \/ ~ctxDone

(* What the kernel sent is on its way, whole and in order, as long as the  *)
(* worker drops nothing, and the caller's part is a prefix for ever; the   *)
(* worker of an uncancelled Run ends on an empty, closed channel, which    *)
(* the kernel does not write again.                                        *)
FlowInv ==
    /\ eventsOpen = eventsRef
    /\ kernel.pc = "send" => eventsRef
    /\ Intact => seen \o public \o Held \o events = sent
    /\ IsPrefix(seen \o public, sent)
    /\ api = "run" /\ fwd.pc = "done" /\ ~ctxDone => events = <<>> /\ ~eventsOpen

-----------------------------------------------------------------------------
(* Types and control                                                       *)

LEMMA Bounds ==
    /\ KernelCap \in Nat /\ EventCap \in Nat /\ PublicCap \in Nat
    /\ MaxItems \in Nat /\ MaxItems > 0 /\ MaxCalls \in Nat /\ MaxCalls > 0
BY RunAssumption

LEMMA ScriptType ==
    ASSUME NEW s \in Scripts
    PROVE  s \in Seq(Kind) /\ Len(s) \in Nat /\ Len(s) <= MaxItems
<1>1. s \in Seq(Kind) /\ Len(s) <= MaxItems
    <2>1. CASE s = <<>>
        BY <2>1, Bounds
    <2>2. CASE s \in RunScripts \cup TurnScripts
        BY <2>2, RunAssumption
    <2> QED
        BY <2>1, <2>2 DEF Scripts
<1> QED
    BY <1>1

LEMMA ItemType ==
    /\ NoItem \in Item
    /\ \A c \in 1..MaxCalls, n \in 1..MaxItems, k \in Kind :
          [call |-> c, n |-> n, kind |-> k] \in Item
    /\ \A c \in 1..MaxCalls : [NoItem EXCEPT !.call = c, !.kind = "full"] \in Item
<1>1. \A c \in 1..MaxCalls, n \in 1..MaxItems, k \in Kind :
          [call |-> c, n |-> n, kind |-> k] \in Item
    BY DEF Item
<1>2. 1 \in 1..MaxCalls /\ 1 \in 1..MaxItems /\ "delta" \in Kind /\ "full" \in Kind
    BY Bounds DEF Kind
<1>3. NoItem \in Item
    BY <1>1, <1>2 DEF NoItem
<1>4. ASSUME NEW c \in 1..MaxCalls
      PROVE  [NoItem EXCEPT !.call = c, !.kind = "full"] \in Item
    BY <1>2, <1>3 DEF Item
<1> QED
    BY <1>1, <1>3, <1>4

(* The record a tick writes is numbered within the script.                 *)
LEMMA TickItem ==
    ASSUME CoreInv, engine.pc = "tick", produced < Len(script)
    PROVE  /\ [call |-> call, n |-> produced + 1, kind |-> script[produced + 1]] \in Item
           /\ produced + 1 \in 0..Len(script)
<1>1. call \in 1..MaxCalls
    BY Bounds DEF CoreInv, TypeInv, ControlInv
<1>2. produced + 1 \in 1..Len(script) /\ Len(script) <= MaxItems /\ Len(script) \in Nat
    BY ScriptType DEF CoreInv, TypeInv
<1>3. script[produced + 1] \in Kind
    BY <1>2, ScriptType, ElementOfSeq DEF CoreInv, TypeInv
<1>4. produced + 1 \in 1..MaxItems
    BY <1>2, Bounds
<1>5. [call |-> call, n |-> produced + 1, kind |-> script[produced + 1]] \in Item
    BY <1>1, <1>3, <1>4, ItemType
<1>6. produced + 1 \in 0..Len(script)
    BY <1>2
<1> QED
    BY <1>5, <1>6

LEMMA QueueTail ==
    ASSUME NEW cap \in Nat, NEW q \in Queue(cap), q # <<>>
    PROVE  Head(q) \in Item /\ Tail(q) \in Queue(cap)
<1>1. q \in Seq(Item) /\ Len(q) <= cap
    BY DEF Queue
<1> QED
    BY <1>1, TailType DEF Queue

LEMMA QueueAppend ==
    ASSUME NEW cap \in Nat, NEW q \in Queue(cap), Len(q) < cap, NEW e \in Item
    PROVE  Append(q, e) \in Queue(cap)
<1>1. q \in Seq(Item) /\ Len(q) <= cap
    BY DEF Queue
<1> QED
    BY <1>1, AppendType DEF Queue

LEMMA QueueSeq ==
    ASSUME NEW cap \in Nat
    PROVE  /\ <<>> \in Queue(cap)
           /\ \A q \in Queue(cap) : q \in Seq(Item)
BY DEF Queue

LEMMA InitCore == Init => CoreInv
<1> SUFFICES ASSUME Init PROVE CoreInv
    OBVIOUS
<1>1. /\ <<>> \in Queue(KernelCap) /\ <<>> \in Queue(EventCap) /\ <<>> \in Queue(PublicCap)
      /\ <<>> \in Seq(Item)
    BY Bounds, QueueSeq
<1>2. script \in Scripts
    BY DEF Init, Scripts
<1>3. produced \in 0..Len(script) /\ 0 \in 0..MaxCalls /\ 1 \in 0..MaxCalls
    BY <1>2, ScriptType, Bounds DEF Init
<1>4. /\ engine.pc = IF api = "run" THEN "tick" ELSE "done"
      /\ kernel.pc = IF api = "run" THEN "idle" ELSE "done"
      /\ fwd.pc = IF api = "run" THEN "recv" ELSE "done"
      /\ engine \in EngineStates /\ kernel \in KernelStates /\ fwd \in WorkerStates
    BY ItemType DEF Init, Idle, EngineStates, KernelStates, WorkerStates
<1>5. eventsOpen \in BOOLEAN /\ eventsRef \in BOOLEAN
    BY DEF Init
<1>6. TypeInv
    BY <1>1, <1>2, <1>3, <1>4, <1>5 DEF Init, TypeInv
<1>7. ControlInv
    BY <1>4 DEF Init, ControlInv
<1> QED
    BY <1>6, <1>7 DEF CoreInv

LEMMA NextCore ==
    ASSUME CoreInv, [Next]_vars
    PROVE  CoreInv'
<1> USE DEF CoreInv, TypeInv, ControlInv, ctxVars, userVars, eventVars, callerVars
<1>1. CASE UNCHANGED vars
    BY <1>1 DEF vars
<1>2. CASE Cancel
    BY <1>2 DEF Cancel
<1>3. CASE StopReading
    BY <1>3 DEF StopReading
<1>4. CASE ReadDeltas
    <2>1. Tail(public) \in Queue(PublicCap) /\ Append(seen, Head(public)) \in Seq(Item)
        BY <1>4, QueueTail, AppendType, Bounds DEF ReadDeltas
    <2> QED
        BY <1>4, <2>1 DEF ReadDeltas
<1>5. CASE RunCancelled \/ RunEngineEnded \/ RunOutput \/ RunJoin
    BY <1>5 DEF RunCancelled, RunEngineEnded, RunOutput, RunJoin
<1>6. CASE RunReturn
    BY <1>6 DEF RunReturn, Barrier
<1>7. CASE ForwardTake
    <2>1. Head(events) \in Item /\ Tail(events) \in Queue(EventCap)
        BY <1>7, QueueTail, Bounds DEF ForwardTake
    <2>2. fwd' \in WorkerStates /\ fwd'.pc = "write"
        BY <1>7, <2>1 DEF ForwardTake, WorkerStates
    <2> QED
        BY <1>7, <2>1, <2>2 DEF ForwardTake
<1>8. CASE ForwardWrite
    <2>1. fwd.item \in Item /\ fwd' \in WorkerStates /\ fwd'.pc = "recv"
        BY <1>8, ItemType DEF ForwardWrite, Idle, WorkerStates
    <2>2. Append(public, fwd.item) \in Queue(PublicCap)
        BY <1>8, <2>1, QueueAppend, Bounds DEF ForwardWrite
    <2> QED
        BY <1>8, <2>1, <2>2 DEF ForwardWrite
<1>9. CASE ForwardEnd
    <2>1. fwd' \in WorkerStates /\ fwd'.pc = "done"
        BY <1>9, ItemType DEF ForwardEnd, Idle, WorkerStates
    <2> QED
        BY <1>9, <2>1 DEF ForwardEnd
<1>10. CASE ExecuteCall
    <2>1. call' \in 1..MaxCalls /\ call' \in 0..MaxCalls
        BY <1>10, Bounds DEF ExecuteCall
    <2>2. script' \in Scripts /\ produced' \in 0..Len(script')
        BY <1>10, ScriptType DEF ExecuteCall, Scripts
    <2>3. <<>> \in Queue(EventCap) /\ <<>> \in Seq(Item)
        BY Bounds, QueueSeq
    <2>4. /\ engine' \in EngineStates /\ engine'.pc = "tick"
          /\ kernel' \in KernelStates /\ kernel'.pc = "idle"
        BY <1>10, ItemType DEF ExecuteCall, EngineStates, KernelStates
    <2>5. TypeInv'
        BY <1>10, <2>1, <2>2, <2>3, <2>4 DEF ExecuteCall
    <2>6. ControlInv'
        BY <1>10, <2>1, <2>4 DEF ExecuteCall
    <2> QED
        BY <2>5, <2>6
<1>11. CASE ExecuteCollect
    <2>1. Tail(events) \in Queue(EventCap) /\ Append(seen, Head(events)) \in Seq(Item)
        BY <1>11, QueueTail, AppendType, Bounds DEF ExecuteCollect
    <2> QED
        BY <1>11, <2>1 DEF ExecuteCollect
<1>12. CASE ExecuteClosed \/ ExecuteReturn
    BY <1>12 DEF ExecuteClosed, ExecuteReturn, HotLoopDone
<1>13. CASE Tick
    <2> DEFINE item == [call |-> call, n |-> produced + 1, kind |-> script[produced + 1]]
    <2>1. item \in Item /\ produced + 1 \in 0..Len(script)
        BY <1>13, TickItem DEF Tick
    <2>2. engine' = [engine EXCEPT !.pc = "write", !.item = item]
        BY <1>13 DEF Tick
    <2> HIDE DEF item
    <2>3. engine' \in EngineStates /\ engine'.pc = "write"
        BY <2>1, <2>2 DEF EngineStates
    <2> QED
        BY <1>13, <2>1, <2>3 DEF Tick
<1>14. CASE KernelWrite
    <2>1. engine.item \in Item /\ engine' \in EngineStates /\ engine'.pc = "tick"
        BY <1>14, ItemType DEF KernelWrite, EngineStates
    <2>2. Append(inbox, engine.item) \in Queue(KernelCap)
        BY <1>14, <2>1, QueueAppend, Bounds DEF KernelWrite
    <2> QED
        BY <1>14, <2>1, <2>2 DEF KernelWrite
<1>15. CASE KernelWriteDropped
    <2>1. engine' \in EngineStates /\ engine'.pc = "tick"
        BY <1>15, ItemType DEF KernelWriteDropped, EngineStates
    <2> QED
        BY <1>15, <2>1 DEF KernelWriteDropped
<1>16. CASE EngineExit
    <2>1. engine' \in EngineStates /\ engine'.pc = "settle"
        BY <1>16 DEF EngineExit, EngineStates
    <2> QED
        BY <1>16, <2>1 DEF EngineExit
<1>17. CASE EngineSettle
    <2>1. call \in 1..MaxCalls
        BY <1>17, Bounds DEF EngineSettle
    <2>2. inbox' \in Queue(KernelCap)
        <3> DEFINE held == [NoItem EXCEPT !.call = call, !.kind = "full"]
        <3>1. held \in Item
            BY <2>1, ItemType
        <3>2. inbox' = inbox \/ (Len(inbox) < KernelCap /\ inbox' = Append(inbox, held))
            BY <1>17 DEF EngineSettle
        <3> HIDE DEF held
        <3> QED
            BY <3>1, <3>2, QueueAppend, Bounds
    <2>3. /\ engine' \in EngineStates /\ engine'.pc = "stop"
          /\ kernel' \in KernelStates /\ kernel'.pc = kernel.pc
        BY <1>17 DEF EngineSettle, EngineStates, KernelStates
    <2> QED
        BY <1>17, <2>2, <2>3 DEF EngineSettle
<1>18. CASE EngineStopUser
    <2>1. engine' \in EngineStates /\ engine'.pc = "stopuser"
        BY <1>18 DEF EngineStopUser, EngineStates
    <2> QED
        BY <1>18, <2>1 DEF EngineStopUser
<1>19. CASE EngineDone
    <2>1. engine' \in EngineStates /\ engine'.pc = "done"
        BY <1>19 DEF EngineDone, EngineStates
    <2> QED
        BY <1>19, <2>1 DEF EngineDone
<1>20. CASE KernelTake
    <2>1. Head(inbox) \in Item /\ Tail(inbox) \in Queue(KernelCap)
        BY <1>20, QueueTail, Bounds DEF KernelTake
    <2>2. kernel' \in KernelStates
        BY <1>20, <2>1 DEF KernelTake, KernelStates
    <2>3. kernel.pc # "done"
        BY <1>20 DEF KernelTake
    <2> QED
        BY <1>20, <2>1, <2>2, <2>3 DEF KernelTake
<1>21. CASE KernelSend
    <2>1. kernel.item \in Item /\ kernel' \in KernelStates /\ kernel.pc # "done"
        BY <1>21, ItemType DEF KernelSend, KernelStates
    <2>2. Append(events, kernel.item) \in Queue(EventCap) /\ Append(sent, kernel.item) \in Seq(Item)
        BY <1>21, <2>1, QueueAppend, AppendType, Bounds DEF KernelSend
    <2>3. eventsOpen' \in BOOLEAN /\ eventsRef' \in BOOLEAN
        BY <1>21 DEF KernelSend
    <2> QED
        BY <1>21, <2>1, <2>2, <2>3 DEF KernelSend
<1>22. CASE KernelStop
    <2>1. kernel' \in KernelStates /\ kernel'.pc = "done"
        BY <1>22 DEF KernelStop, KernelStates
    <2>2. eventsOpen' \in BOOLEAN /\ eventsRef' \in BOOLEAN /\ inbox' \in Queue(KernelCap)
        BY <1>22, QueueSeq, Bounds DEF KernelStop, KernelClose
    <2> QED
        BY <1>22, <2>1, <2>2 DEF KernelStop
<1>23. CASE UserTake
    BY <1>23 DEF UserTake
<1>24. CASE UserStop
    BY <1>24 DEF UserStop, UserMayStop
<1> QED
    BY <1>1, <1>2, <1>3, <1>4, <1>5, <1>6, <1>7, <1>8, <1>9, <1>10, <1>11, <1>12,
       <1>13, <1>14, <1>15, <1>16, <1>17, <1>18, <1>19, <1>20, <1>21, <1>22, <1>23, <1>24
       DEF Next, MainStep, EngineStop, WriteStep, KernelStep, ForwardStep, UserStep
-----------------------------------------------------------------------------
(* What is on its way to the caller                                        *)

LEMMA FlowTypes ==
    ASSUME CoreInv
    PROVE  /\ seen \in Seq(Item) /\ public \in Seq(Item) /\ events \in Seq(Item)
           /\ sent \in Seq(Item) /\ Held \in Seq(Item) /\ fwd.item \in Item
           /\ seen \o public \in Seq(Item)
           /\ (seen \o public) \o Held \in Seq(Item)
<1>1. /\ seen \in Seq(Item) /\ public \in Seq(Item) /\ events \in Seq(Item)
      /\ sent \in Seq(Item)
    BY QueueSeq, Bounds DEF CoreInv, TypeInv
<1>2. fwd.item \in Item
    BY DEF CoreInv, TypeInv, WorkerStates
<1>3. Held \in Seq(Item)
    BY <1>2, SingletonType, EmptySeq DEF Held
<1>4. seen \o public \in Seq(Item) /\ (seen \o public) \o Held \in Seq(Item)
    BY <1>1, <1>3, ConcatProperties
<1> QED
    BY <1>1, <1>2, <1>3, <1>4

LEMMA InitFlow == Init => FlowInv
<1> SUFFICES ASSUME Init PROVE FlowInv
    OBVIOUS
<1>1. Held = <<>> /\ seen = <<>> /\ public = <<>> /\ events = <<>> /\ sent = <<>>
    BY DEF Init, Idle, Held
<1>2. <<>> \o <<>> = <<>> /\ IsPrefix(<<>>, <<>>)
    BY EmptyPath
<1>3. /\ eventsOpen = eventsRef /\ kernel.pc # "send"
      /\ fwd.pc = IF api = "run" THEN "recv" ELSE "done"
    BY DEF Init, Idle
<1> QED
    BY <1>1, <1>2, <1>3 DEF FlowInv

LEMMA NextFlow ==
    ASSUME CoreInv, FlowInv, [Next]_vars
    PROVE  FlowInv'
<1> USE DEF ctxVars, userVars, eventVars, callerVars
<1>0. /\ seen \in Seq(Item) /\ public \in Seq(Item) /\ events \in Seq(Item)
      /\ sent \in Seq(Item) /\ Held \in Seq(Item) /\ fwd.item \in Item
      /\ seen \o public \in Seq(Item)
      /\ (seen \o public) \o Held \in Seq(Item)
    BY FlowTypes
<1>1. CASE /\ UNCHANGED <<seen, public, events, sent, eventsOpen, eventsRef, fwd, api>>
           /\ ctxDone => ctxDone'
           /\ kernel'.pc = "send" => kernel.pc = "send" \/ eventsRef
    <2>1. Held' = Held /\ (Intact' => Intact)
        BY <1>1 DEF Held, Intact
    <2> QED
        BY <1>1, <2>1 DEF FlowInv
<1>2. CASE UNCHANGED vars
    BY <1>1, <1>2 DEF vars
<1>3. CASE Cancel \/ StopReading
    BY <1>1, <1>3 DEF Cancel, StopReading
<1>4. CASE ReadDeltas
    <2>1. seen' \o public' = seen \o public
        BY <1>0, <1>4, PassHead DEF ReadDeltas
    <2>2. Held' = Held /\ Intact' = Intact
        BY <1>4 DEF ReadDeltas, Held, Intact
    <2> QED
        BY <1>4, <2>1, <2>2 DEF ReadDeltas, FlowInv
<1>5. CASE RunCancelled \/ RunEngineEnded \/ RunOutput \/ RunJoin \/ RunReturn
           \/ ExecuteClosed \/ ExecuteReturn
    BY <1>1, <1>5 DEF RunCancelled, RunEngineEnded, RunOutput, RunJoin, RunReturn,
                      ExecuteClosed, ExecuteReturn
<1>6. CASE Tick \/ KernelWrite \/ KernelWriteDropped \/ EngineExit \/ EngineStopUser
           \/ EngineDone \/ UserTake \/ UserStop
    BY <1>1, <1>6 DEF Tick, KernelWrite, KernelWriteDropped, EngineExit, EngineStopUser,
                      EngineDone, UserTake, UserStop
<1>7. CASE EngineSettle
    <2>1. kernel'.pc = kernel.pc
        BY <1>7 DEF EngineSettle, CoreInv, TypeInv, KernelStates
    <2> QED
        BY <1>1, <1>7, <2>1 DEF EngineSettle
<1>8. CASE ForwardTake
    <2>1. Held = <<>> /\ Held' = <<Head(events)>> /\ fwd.pc # "done" /\ fwd'.pc # "done"
        BY <1>8 DEF ForwardTake, Held
    <2>2. Head(events) \in Item /\ Tail(events) \in Seq(Item)
          /\ events = <<Head(events)>> \o Tail(events)
        BY <1>0, <1>8, TailType, PassHead DEF ForwardTake
    <2>3. (seen \o public) \o Held = seen \o public
        BY <1>0, <2>1, ConcatEmptySeq
    <2>4. ((seen \o public) \o Held') \o events' = (seen \o public) \o events
        <3>1. Held' \in Seq(Item) /\ events' = Tail(events)
            BY <1>8, <2>1, <2>2, SingletonType DEF ForwardTake
        <3>2. ((seen \o public) \o Held') \o Tail(events)
                 = (seen \o public) \o (Held' \o Tail(events))
            <4> DEFINE P == seen \o public
                       t == Tail(events)
            <4>1. P \in Seq(Item) /\ Held' \in Seq(Item) /\ t \in Seq(Item)
                BY <1>0, <2>2, <3>1
            <4> HIDE DEF P, t
            <4>2. (P \o Held') \o t = P \o (Held' \o t)
                BY <4>1, ConcatAssociative
            <4> QED
                BY <4>2 DEF P, t
        <3> QED
            BY <2>1, <2>2, <3>1, <3>2
    <2> QED
        BY <1>8, <2>1, <2>3, <2>4 DEF ForwardTake, FlowInv, Intact
<1>9. CASE ForwardWrite
    <2>1. Held = <<fwd.item>> /\ Held' = <<>> /\ fwd.pc # "done" /\ fwd'.pc # "done"
        BY <1>9 DEF ForwardWrite, Held, Idle
    <2>2. seen' \o public' = (seen \o public) \o Held
        BY <1>0, <1>9, <2>1, AppendConcat, AppendIsConcat DEF ForwardWrite
    <2>3. (seen' \o public') \o Held' = seen' \o public'
        BY <1>0, <2>1, <2>2, ConcatEmptySeq
    <2>4. sent = ((seen \o public) \o Held) \o events
        BY <2>1 DEF FlowInv, Intact
    <2>5. IsPrefix(seen' \o public', sent)
        BY <1>0, <2>2, <2>4, PrefixOfConcat
    <2> QED
        BY <1>9, <2>1, <2>2, <2>3, <2>4, <2>5 DEF ForwardWrite, FlowInv
<1>10. CASE ForwardEnd
    <2>1. Held' = <<>> /\ fwd'.pc = "done" /\ api = "run"
        BY <1>10 DEF ForwardEnd, Held, Idle, CoreInv, TypeInv, ControlInv
    <2>2. CASE ctxDone
        BY <1>10, <2>1, <2>2 DEF ForwardEnd, FlowInv, Intact
    <2>3. CASE ~ctxDone
        <3>1. fwd.pc = "recv" /\ events = <<>> /\ ~eventsOpen /\ Held = <<>>
            BY <1>10, <2>3 DEF ForwardEnd, Held
        <3> QED
            BY <1>10, <2>1, <2>3, <3>1 DEF ForwardEnd, FlowInv, Intact
    <2> QED
        BY <2>2, <2>3
<1>11. CASE ExecuteCall
    <2>1. seen' = <<>> /\ public' = <<>> /\ events' = <<>> /\ sent' = <<>> /\ Held' = <<>>
        BY <1>11 DEF ExecuteCall, Held, CoreInv, ControlInv
    <2>2. <<>> \o <<>> = <<>> /\ IsPrefix(<<>>, <<>>)
        BY EmptyPath
    <2>3. /\ eventsOpen' = eventsRef' /\ kernel'.pc # "send" /\ api' # "run"
        BY <1>11 DEF ExecuteCall
    <2> QED
        BY <2>1, <2>2, <2>3 DEF FlowInv
<1>12. CASE ExecuteCollect
    <2>1. api = "execute" /\ public = <<>> /\ Held = <<>> /\ Held' = <<>> /\ public' = <<>>
        BY <1>12 DEF ExecuteCollect, Held, CoreInv, TypeInv, ControlInv
    <2>2. Head(events) \in Item /\ Tail(events) \in Seq(Item)
          /\ seen' = Append(seen, Head(events)) /\ events' = Tail(events)
          /\ seen' \o events' = seen \o events
        BY <1>0, <1>12, TailType, PassHead DEF ExecuteCollect
    <2>3. seen' \in Seq(Item)
        BY <1>0, <2>2, AppendType
    <2>4. seen \o events = sent
        BY <1>0, <2>1, ConcatEmptySeq DEF FlowInv, Intact
    <2>5. seen' \o public' = seen' /\ (seen' \o public') \o Held' = seen'
        BY <2>1, <2>3, ConcatEmptySeq
    <2>6. IsPrefix(seen', sent)
        BY <2>2, <2>3, <2>4, PrefixOfConcat
    <2> QED
        BY <1>12, <2>1, <2>2, <2>4, <2>5, <2>6 DEF ExecuteCollect, FlowInv
<1>13. CASE KernelTake
    <2>1. kernel'.pc = "send" => kernel.pc = "send" \/ eventsRef
        BY <1>13 DEF KernelTake
    <2> QED
        BY <1>1, <1>13, <2>1 DEF KernelTake
<1>14. CASE KernelSend
    <2>1. kernel.item \in Item /\ kernel'.pc = "idle"
        BY <1>14 DEF KernelSend, CoreInv, TypeInv, KernelStates
    <2>2. eventsRef /\ eventsOpen /\ eventsOpen' = eventsRef' /\ Held' = Held
        BY <1>14 DEF KernelSend, FlowInv, Held
    <2>3. ((seen \o public) \o Held) \o events'
             = Append(((seen \o public) \o Held) \o events, kernel.item)
        BY SMTT(60), <1>0, <1>14, <2>1, AppendConcat DEF KernelSend
    <2>4. IsPrefix(seen \o public, sent')
        BY <1>0, <1>14, <2>1, PrefixOfAppend DEF KernelSend, FlowInv
    <2> QED
        BY <1>14, <2>1, <2>2, <2>3, <2>4 DEF KernelSend, FlowInv, Intact
<1>15. CASE KernelStop
    <2>1. kernel'.pc = "done" /\ ~eventsOpen' /\ ~eventsRef' /\ Held' = Held
        BY <1>15 DEF KernelStop, KernelClose, Held, FlowInv, CoreInv, TypeInv, KernelStates
    <2> QED
        BY <1>15, <2>1 DEF KernelStop, KernelClose, FlowInv, Intact
<1> QED
    BY <1>2, <1>3, <1>4, <1>5, <1>6, <1>7, <1>8, <1>9, <1>10, <1>11, <1>12, <1>13,
       <1>14, <1>15
       DEF Next, MainStep, EngineStop, WriteStep, KernelStep, ForwardStep, UserStep
-----------------------------------------------------------------------------
(* Whole turns                                                             *)

(* Records carry the call that wrote them, and the engine goroutine writes *)
(* what its last tick produced.                                            *)
StampInv ==
    /\ accepted \in Seq(Item)
    /\ \A i \in Elems(inbox) : i.call <= call
    /\ api = "execute" /\ call > 0 => script \in TurnScripts
    /\ engine.pc = "write" => /\ produced > 0 /\ engine.item.call = call
                              /\ engine.item.kind = script[produced]
    /\ engine.pc \in {"tick", "write"} => ~engine.failed /\ ~kernel.stop

LEMMA InitStamp == Init => StampInv
<1> SUFFICES ASSUME Init PROVE StampInv
    OBVIOUS
<1>1. /\ accepted = <<>> /\ inbox = <<>> /\ (api = "execute" => call = 0)
      /\ engine.pc \in {"tick", "done"} /\ ~engine.failed /\ ~kernel.stop
    BY DEF Init
<1>2. <<>> \in Seq(Item)
    OBVIOUS
<1>3. Elems(<<>>) = {}
    BY ElemsSmall
<1> QED
    BY <1>1, <1>2, <1>3 DEF StampInv

LEMMA NextStamp ==
    ASSUME CoreInv, CoreInv', StampInv, [Next]_vars
    PROVE  StampInv'
<1> USE DEF ctxVars, userVars, eventVars, callerVars
<1>0. /\ accepted \in Seq(Item) /\ inbox \in Seq(Item) /\ engine \in EngineStates
      /\ kernel \in KernelStates /\ call \in Nat /\ produced \in Nat
    <2>1. inbox \in Seq(Item)
        BY QueueSeq, Bounds DEF CoreInv, TypeInv
    <2>2. call \in Nat /\ produced \in Nat
        BY ScriptType, Bounds DEF CoreInv, TypeInv
    <2> QED
        BY <2>1, <2>2 DEF StampInv, CoreInv, TypeInv
<1>1. CASE UNCHANGED <<accepted, inbox, call, api, script, produced, engine>>
           /\ kernel'.stop = kernel.stop
    BY <1>1 DEF StampInv
<1>2. CASE Cancel \/ ReadDeltas \/ StopReading \/ MainStep \/ ForwardStep \/ UserStep
           \/ UNCHANGED vars
    BY <1>1, <1>2 DEF Cancel, ReadDeltas, StopReading, MainStep, RunCancelled, RunEngineEnded,
       RunOutput, RunJoin, RunReturn, ExecuteCollect, ExecuteClosed, ExecuteReturn, ForwardStep,
       ForwardTake, ForwardWrite, ForwardEnd, UserStep, UserTake, UserStop, vars
<1>3. CASE KernelSend
    <2>1. kernel'.stop = kernel.stop
        BY <1>0, <1>3 DEF KernelSend, KernelStates
    <2> QED
        BY <1>1, <1>3, <2>1 DEF KernelSend
<1>4. CASE KernelTake
    <2>1. kernel'.stop = kernel.stop
        BY <1>0, <1>4 DEF KernelTake, KernelStates
    <2>2. inbox # <<>> /\ inbox' = Tail(inbox)
        BY <1>4 DEF KernelTake
    <2>3. Elems(inbox') \subseteq Elems(inbox)
        BY <1>0, <2>2, ElemsTail
    <2> QED
        BY <1>4, <2>1, <2>3 DEF KernelTake, StampInv
<1>5. CASE KernelStop
    <2>1. kernel'.stop = kernel.stop /\ inbox' = <<>>
        BY <1>0, <1>5 DEF KernelStop, KernelClose, KernelStates
    <2>2. Elems(<<>>) = {}
        BY ElemsSmall
    <2> QED
        BY <1>5, <2>1, <2>2 DEF KernelStop, StampInv
<1>6. CASE Tick
    <2>1. /\ engine' = [engine EXCEPT !.pc = "write",
                            !.item = [call |-> call, n |-> produced + 1,
                                      kind |-> script[produced + 1]]]
          /\ produced' = produced + 1 /\ engine.pc = "tick"
          /\ UNCHANGED <<api, call, script, kernel, inbox, accepted>>
        BY <1>6 DEF Tick
    <2>2. /\ engine'.pc = "write" /\ engine'.item.call = call
          /\ engine'.item.kind = script[produced + 1] /\ engine'.failed = engine.failed
        BY <1>0, <2>1 DEF EngineStates
    <2>3. produced' > 0
        BY <1>0, <2>1
    <2> QED
        BY <2>1, <2>2, <2>3 DEF StampInv
<1>7. CASE KernelWrite
    <2> DEFINE e == engine.item
    <2>1. /\ e \in Item /\ e.call = call /\ engine.pc = "write"
          /\ inbox' = Append(inbox, e)
          /\ accepted' = IF Forwarded(e) THEN Append(accepted, e) ELSE accepted
        BY <1>0, <1>7 DEF KernelWrite, EngineStates, StampInv
    <2>2. engine'.pc = "tick" /\ engine'.failed = engine.failed
        BY <1>0, <1>7 DEF KernelWrite, EngineStates
    <2> HIDE DEF e
    <2>3. Elems(inbox') = Elems(inbox) \cup {e}
        BY <1>0, <2>1, ElemsAppend
    <2>4. accepted' \in Seq(Item)
        BY <1>0, <2>1, AppendType
    <2>5. \A i \in Elems(inbox') : i.call <= call
        BY <1>0, <2>1, <2>3 DEF StampInv
    <2>6. UNCHANGED <<api, call, script, kernel>>
        BY <1>7 DEF KernelWrite
    <2> QED
        BY <2>1, <2>2, <2>4, <2>5, <2>6 DEF StampInv
<1>8. CASE KernelWriteDropped
    <2>1. engine'.pc = "tick" /\ engine'.failed = engine.failed /\ engine.pc = "write"
        BY <1>0, <1>8 DEF KernelWriteDropped, EngineStates
    <2> QED
        BY <1>8, <2>1 DEF KernelWriteDropped, StampInv
<1>9. CASE EngineExit \/ EngineStopUser \/ EngineDone
    <2>1. engine'.pc \in {"settle", "stopuser", "done"}
        BY <1>0, <1>9 DEF EngineExit, EngineStopUser, EngineDone, EngineStates
    <2> QED
        BY <1>9, <2>1 DEF EngineExit, EngineStopUser, EngineDone, StampInv
<1>10. CASE EngineSettle
    <2> DEFINE e == [NoItem EXCEPT !.call = call, !.kind = "full"]
    <2>1. engine'.pc = "stop"
        BY <1>0, <1>10 DEF EngineSettle, EngineStates
    <2>2. inbox' = inbox \/ inbox' = Append(inbox, e)
        BY <1>10 DEF EngineSettle
    <2>3. e \in Item /\ e.call = call
        <3>1. engine.pc = "settle"
            BY <1>10 DEF EngineSettle
        <3>2. call \in 1..MaxCalls
            BY <3>1, Bounds DEF CoreInv, TypeInv, ControlInv
        <3>3. e \in Item
            BY <3>2, ItemType
        <3> QED
            BY <3>3 DEF NoItem
    <2> HIDE DEF e
    <2>4. Elems(Append(inbox, e)) = Elems(inbox) \cup {e}
        BY <1>0, <2>3, ElemsAppend
    <2>5. \A i \in Elems(inbox') : i.call <= call
        <3>1. call <= call
            BY <1>0
        <3>2. Elems(inbox') \subseteq Elems(inbox) \cup {e}
            BY <2>2, <2>4
        <3>3. \A i \in Elems(inbox) : i.call <= call
            BY DEF StampInv
        <3> QED
            BY <2>3, <3>1, <3>2, <3>3
    <2> QED
        BY <1>10, <2>1, <2>5 DEF EngineSettle, StampInv
<1>11. CASE ExecuteCall
    <2>1. /\ accepted' = <<>> /\ inbox' = inbox /\ call' = call + 1 /\ script' \in TurnScripts
          /\ engine'.pc = "tick" /\ ~engine'.failed /\ ~kernel'.stop
        BY <1>11 DEF ExecuteCall
    <2>2. <<>> \in Seq(Item)
        OBVIOUS
    <2>3. \A i \in Elems(inbox) : i \in Item /\ i.call \in Nat
        <3>1. \A i \in Item : i.call \in Nat
            BY DEF Item
        <3> QED
            BY <1>0, <3>1, ElemsType
    <2>4. \A i \in Elems(inbox) : i.call <= call'
        <3> SUFFICES ASSUME NEW i \in Elems(inbox) PROVE i.call <= call'
            OBVIOUS
        <3>1. i.call <= call /\ i.call \in Nat
            BY <2>3 DEF StampInv
        <3> QED
            BY <1>0, <2>1, <3>1
    <2> QED
        BY <2>1, <2>2, <2>4 DEF StampInv
<1> QED
    BY <1>2, <1>3, <1>4, <1>5, <1>6, <1>7, <1>8, <1>9, <1>10, <1>11
    DEF Next, EngineStop, WriteStep, KernelStep

(* What the kernel sent, has in hand and will send of DeltaInbox.          *)
Passing == {i \in Item : Forwarded(i)}
Carried == IF kernel.pc = "send" THEN <<kernel.item>> ELSE <<>>
Path == (sent \o Carried) \o Only(inbox, Passing)

(* The records that wait for DeltaInbox, and those of them with a reader.  *)
Must == Kind \ {"delta"}
Ordered == Kind \ {"delta", "full"}
Pending == IF engine.pc = "write" THEN <<engine.item.kind>> ELSE <<>>

Undisturbed == api = "execute" /\ call > 0 /\ ~ctxDone /\ ~engine.failed
Complete == produced = Len(script) /\ Last(script) = "loopend" /\ engine.pc # "write"

(* An earlier call's leftovers come first, then what this call accepted.   *)
Past == {i \in Item : i.call # call}
PathInv == \E z \in Seq(Item) : Elems(z) \subseteq Past /\ Path = z \o accepted

LoopEndLast ==
    \A i \in 1..Len(accepted) :
        /\ accepted[i].call = call
        /\ accepted[i].kind = "loopend" => i = Len(accepted) /\ Complete

MustInv ==
    Only(KindsOf(accepted), Must) \o Only(Pending, Ordered)
        = Only(SubSeq(script, 1, produced), Ordered)

(* While the stream is open the hot loop runs and nothing is lost on the   *)
(* way.  It closes with LOOP.END, this call's or an earlier one's.         *)
OpenInv ==
    /\ engine.pc \in {"tick", "write"} /\ ~loopCancel /\ main = "collect"
    /\ PathInv /\ LoopEndLast /\ MustInv
ClosedInv ==
    \/ \E i \in 1..Len(sent) : sent[i].call # call
    \/ sent = accepted /\ Complete /\ MustInv

TurnInv ==
    Undisturbed =>
        /\ main # "collect" => ~eventsRef /\ events = <<>>
        /\ IF eventsRef THEN OpenInv ELSE ClosedInv

LEMMA KindsAppend ==
    ASSUME NEW s \in Seq(Item), NEW e \in Item
    PROVE  /\ KindsOf(s) \in Seq(Kind) /\ e.kind \in Kind
           /\ KindsOf(Append(s, e)) = Append(KindsOf(s), e.kind)
<1>1. \A i \in Item : i.kind \in Kind
    BY DEF Item
<1>2. KindsOf(s) = [i \in 1..Len(s) |-> s[i].kind]
    BY DEF KindsOf
<1>3. KindsOf(s) \in Seq(Kind) /\ Len(KindsOf(s)) = Len(s)
    BY <1>1, <1>2
<1>4. KindsOf(Append(s, e)) = Append(KindsOf(s), e.kind)
    <2> DEFINE t == Append(s, e)
               l == KindsOf(t)
               r == Append(KindsOf(s), e.kind)
    <2>1. /\ t \in Seq(Item) /\ Len(t) = Len(s) + 1 /\ t[Len(s) + 1] = e
          /\ \A i \in 1..Len(s) : t[i] = s[i]
        BY AppendType
    <2>2. l = [i \in 1..(Len(s) + 1) |-> t[i].kind]
        BY <2>1 DEF KindsOf
    <2>3. l \in Seq(Kind) /\ Len(l) = Len(s) + 1
        BY <1>1, <2>1, <2>2
    <2>4. /\ r \in Seq(Kind) /\ Len(r) = Len(s) + 1 /\ r[Len(s) + 1] = e.kind
          /\ \A i \in 1..Len(s) : r[i] = s[i].kind
        BY <1>1, <1>2, <1>3, AppendType
    <2>5. \A i \in 1..(Len(s) + 1) : l[i] = r[i]
        <3> HIDE DEF l, r, t
        <3>1. \A i \in 1..(Len(s) + 1) : i \in 1..Len(s) \/ i = Len(s) + 1
            OBVIOUS
        <3> QED
            BY <2>1, <2>2, <2>4, <3>1
    <2> HIDE DEF l, r, t
    <2>6. l = r
        BY <2>3, <2>4, <2>5, SeqEqual
    <2> QED
        BY <2>6 DEF l, r, t
<1> QED
    BY <1>1, <1>3, <1>4

LEMMA OnlySmall ==
    ASSUME NEW e, NEW T
    PROVE  Only(<<e>>, T) = IF e \in T THEN <<e>> ELSE <<>>
<1>1. <<>> \in Seq({e}) /\ e \in {e} /\ Append(<<>>, e) = <<e>>
    OBVIOUS
<1>2. Only(<<>>, T) = <<>>
    BY OnlyEmpty
<1>3. Only(Append(<<>>, e), T) = IF e \in T THEN Append(Only(<<>>, T), e) ELSE Only(<<>>, T)
    BY <1>1, OnlyAppend
<1> QED
    BY <1>1, <1>2, <1>3

(* Writing a record keeps the account, and so does dropping an ordinary    *)
(* delta.                                                                  *)
LEMMA MustWrite ==
    ASSUME NEW a \in Seq(Item), NEW e \in Item
    PROVE  LET b == IF Forwarded(e) THEN Append(a, e) ELSE a
           IN  Only(KindsOf(b), Must) \o Only(<<>>, Ordered)
                 = Only(KindsOf(a), Must) \o Only(<<e.kind>>, Ordered)
<1> DEFINE b == IF Forwarded(e) THEN Append(a, e) ELSE a
           k == e.kind
           L == Only(KindsOf(a), Must)
<1>1. KindsOf(a) \in Seq(Kind) /\ k \in Kind /\ KindsOf(Append(a, e)) = Append(KindsOf(a), k)
    BY KindsAppend
<1>2. L \in Seq(Kind)
    BY <1>1, OnlyType
<1>3. Only(KindsOf(b), Must) = IF k \in Ordered THEN Append(L, k) ELSE L
    <2>1. Only(Append(KindsOf(a), k), Must) = IF k \in Must THEN Append(L, k) ELSE L
        <3> DEFINE q == KindsOf(a)
        <3>1. q \in Seq(Kind) /\ k \in Kind
            BY <1>1
        <3> HIDE DEF q, k
        <3>2. Only(Append(q, k), Must) = IF k \in Must THEN Append(Only(q, Must), k)
                                         ELSE Only(q, Must)
            BY <3>1, OnlyAppend
        <3> QED
            BY <3>2 DEF q, L
    <2>2. Forwarded(e) <=> k # "full"
        BY DEF Forwarded
    <2> HIDE DEF L, k
    <2>3. k \in Ordered <=> k \in Must /\ k # "full"
        BY DEF Ordered, Must
    <2> QED
        BY <1>1, <2>1, <2>2, <2>3 DEF L
<1>4. Only(<<k>>, Ordered) = (IF k \in Ordered THEN <<k>> ELSE <<>>) /\ Only(<<>>, Ordered) = <<>>
    BY OnlySmall, OnlyEmpty
<1> HIDE DEF b, k, L
<1>5. Append(L, k) \in Seq(Kind) /\ L \o <<>> = L /\ Append(L, k) \o <<>> = Append(L, k)
      /\ L \o <<k>> = Append(L, k)
    BY <1>1, <1>2, AppendType, ConcatEmptySeq, AppendIsConcat
<1>6. Only(KindsOf(b), Must) \o Only(<<>>, Ordered) = L \o Only(<<k>>, Ordered)
    BY <1>3, <1>4, <1>5
<1> QED
    BY <1>6 DEF b, k, L

(* A tick adds its record to what the script owes and to what waits.       *)
LEMMA MustTick ==
    ASSUME NEW l \in Seq(Kind), NEW s \in Seq(Kind), NEW p \in Nat, p < Len(s),
           l \o Only(<<>>, Ordered) = Only(SubSeq(s, 1, p), Ordered)
    PROVE  l \o Only(<<s[p + 1]>>, Ordered) = Only(SubSeq(s, 1, p + 1), Ordered)
<1> DEFINE q == SubSeq(s, 1, p)
           k == s[p + 1]
<1>1. q \in Seq(Kind) /\ k \in Kind
    OBVIOUS
<1>2. SubSeq(s, 1, p + 1) = Append(q, k)
    <2>1. /\ q \in Seq(Kind) /\ Len(q) = p /\ \A i \in 1..p : q[i] = s[i]
          /\ SubSeq(s, 1, p + 1) \in Seq(Kind) /\ Len(SubSeq(s, 1, p + 1)) = p + 1
          /\ \A i \in 1..(p + 1) : SubSeq(s, 1, p + 1)[i] = s[i]
        BY SubSeqProperties
    <2> HIDE DEF q, k
    <2>2. /\ Append(q, k) \in Seq(Kind) /\ Len(Append(q, k)) = p + 1
          /\ Append(q, k)[p + 1] = k /\ \A i \in 1..p : Append(q, k)[i] = q[i]
        BY <1>1, <2>1, AppendType
    <2>3. \A i \in 1..(p + 1) : SubSeq(s, 1, p + 1)[i] = Append(q, k)[i]
        <3>1. \A i \in 1..(p + 1) : i \in 1..p \/ i = p + 1
            OBVIOUS
        <3>2. k = s[p + 1]
            BY DEF k
        <3> QED
            BY <2>1, <2>2, <3>1, <3>2
    <2> QED
        BY <2>1, <2>2, <2>3, SeqEqual
<1> HIDE DEF q, k
<1>3. Only(Append(q, k), Ordered) = IF k \in Ordered THEN Append(Only(q, Ordered), k)
                                    ELSE Only(q, Ordered)
    BY <1>1, OnlyAppend
<1>4. Only(<<k>>, Ordered) = IF k \in Ordered THEN <<k>> ELSE <<>>
    BY OnlySmall
<1>5. l \o <<>> = l /\ Only(<<>>, Ordered) = <<>> /\ Append(l, k) = l \o <<k>>
    BY <1>1, OnlyEmpty, ConcatEmptySeq, AppendIsConcat
<1>6. l = Only(q, Ordered)
    BY <1>5 DEF q
<1>7. l \o Only(<<k>>, Ordered) = Only(Append(q, k), Ordered)
    BY <1>3, <1>4, <1>5, <1>6
<1> QED
    BY <1>2, <1>7 DEF k

-----------------------------------------------------------------------------
(* Every step keeps the account of a turn                                  *)

LEMMA WayTypes ==
    ASSUME CoreInv, StampInv
    PROVE  /\ sent \in Seq(Item) /\ accepted \in Seq(Item) /\ inbox \in Seq(Item)
           /\ Carried \in Seq(Item) /\ Only(inbox, Passing) \in Seq(Item)
           /\ sent \o Carried \in Seq(Item) /\ Path \in Seq(Item)
           /\ kernel.item \in Item /\ engine.item \in Item
           /\ script \in Seq(Kind) /\ produced \in 0..Len(script) /\ call \in Nat
<1>1. /\ sent \in Seq(Item) /\ accepted \in Seq(Item) /\ inbox \in Seq(Item)
    BY QueueSeq, Bounds DEF CoreInv, TypeInv, StampInv
<1>2. kernel.item \in Item /\ engine.item \in Item
    BY DEF CoreInv, TypeInv, EngineStates, KernelStates
<1>3. script \in Seq(Kind) /\ produced \in 0..Len(script) /\ call \in Nat
    BY ScriptType, Bounds DEF CoreInv, TypeInv
<1>4. Carried \in Seq(Item)
    BY <1>2, SingletonType, EmptySeq DEF Carried
<1>5. Only(inbox, Passing) \in Seq(Item)
    BY <1>1, OnlyType
<1>6. sent \o Carried \in Seq(Item)
    BY <1>1, <1>4, ConcatType
<1>7. Path \in Seq(Item)
    <2> DEFINE u == sent \o Carried
               o == Only(inbox, Passing)
    <2>1. u \in Seq(Item) /\ o \in Seq(Item)
        BY <1>5, <1>6
    <2> HIDE DEF u, o
    <2>2. u \o o \in Seq(Item)
        BY <2>1, ConcatType
    <2> QED
        BY <2>2 DEF Path, u, o
<1> QED
    BY <1>1, <1>2, <1>3, <1>4, <1>5, <1>6, <1>7

(* A step that moves nothing on the way.                                   *)
LEMMA WayStays ==
    ASSUME UNCHANGED <<call, sent, accepted, inbox, kernel>>
    PROVE  PathInv' = PathInv
<1>1. Path' = Path /\ Past' = Past
    BY DEF Path, Past, Carried
<1> QED
    BY <1>1 DEF PathInv

LEMMA AccountStays ==
    ASSUME UNCHANGED <<call, script, accepted, produced>>,
           engine.pc # "write", engine'.pc # "write"
    PROVE  /\ LoopEndLast' = LoopEndLast /\ MustInv' = MustInv /\ Complete' = Complete
<1>1. Complete' = Complete /\ Pending' = Pending
    BY DEF Complete, Pending
<1> QED
    BY <1>1 DEF LoopEndLast, MustInv

LEMMA TurnStays ==
    ASSUME TurnInv, UNCHANGED <<api, call, script, sent, accepted, produced, inbox, eventsRef,
                                kernel, engine>>,
           ctxDone => ctxDone',
           eventsRef => main' = main /\ loopCancel' = loopCancel,
           main' # "collect" => ~eventsRef /\ events' = <<>>
    PROVE  TurnInv'
<1>1. PathInv' = PathInv
    BY WayStays
<1>2. Complete' = Complete /\ Pending' = Pending
    BY DEF Complete, Pending
<1>3. LoopEndLast' = LoopEndLast /\ MustInv' = MustInv
    BY <1>2 DEF LoopEndLast, MustInv
<1>4. Undisturbed' => Undisturbed
    BY DEF Undisturbed
<1>5. ClosedInv' = ClosedInv
    BY <1>2, <1>3 DEF ClosedInv
<1>6. eventsRef => OpenInv' = OpenInv
    BY <1>1, <1>3 DEF OpenInv
<1> QED
    BY <1>4, <1>5, <1>6 DEF TurnInv

LEMMA TurnTick ==
    ASSUME CoreInv, StampInv, TurnInv, Tick
    PROVE  TurnInv'
<1> USE DEF ctxVars, userVars, eventVars, callerVars
<1> SUFFICES ASSUME Undisturbed' PROVE TurnInv'
    BY DEF TurnInv
<1>1. /\ engine.pc = "tick" /\ produced < Len(script) /\ produced' = produced + 1
      /\ UNCHANGED <<api, main, call, script, ctxDone, loopCancel, kernel, inbox, events,
                     eventsRef, accepted, sent>>
    BY DEF Tick
<1>2. /\ engine'.pc = "write" /\ engine'.failed = engine.failed
      /\ engine'.item.kind = script[produced + 1]
    BY DEF Tick, CoreInv, TypeInv, EngineStates
<1>3. Undisturbed
    BY <1>1, <1>2 DEF Undisturbed
<1>4. ~Complete
    BY <1>1, WayTypes DEF Complete
<1>5. CASE eventsRef
    <2>1. OpenInv
        BY <1>3, <1>5 DEF TurnInv
    <2>2. PathInv'
        BY <1>1, <2>1, WayStays DEF OpenInv
    <2>3. LoopEndLast'
        BY <1>1, <1>4, <2>1 DEF OpenInv, LoopEndLast
    <2>4. MustInv'
        <3> DEFINE l == Only(KindsOf(accepted), Must)
        <3>1. l \in Seq(Kind) /\ script \in Seq(Kind) /\ produced \in Nat
            <4>1. KindsOf(accepted) \in Seq(Kind)
                BY ItemType, WayTypes, KindsAppend
            <4> QED
                BY <4>1, OnlyType, WayTypes
        <3>2. l \o Only(<<>>, Ordered) = Only(SubSeq(script, 1, produced), Ordered)
            BY <1>1, <2>1 DEF OpenInv, MustInv, Pending
        <3> HIDE DEF l
        <3>3. l \o Only(<<script[produced + 1]>>, Ordered)
                = Only(SubSeq(script, 1, produced + 1), Ordered)
            BY <1>1, <3>1, <3>2, MustTick
        <3> QED
            BY <1>1, <1>2, <3>3 DEF MustInv, Pending, l
    <2> QED
        BY <1>1, <1>2, <1>5, <2>1, <2>2, <2>3, <2>4 DEF OpenInv, TurnInv
<1>6. CASE ~eventsRef
    <2>1. \E i \in 1..Len(sent) : sent[i].call # call
        BY <1>3, <1>4, <1>6 DEF TurnInv, ClosedInv
    <2>2. (main # "collect" => events = <<>>)
        BY <1>3 DEF TurnInv
    <2> QED
        BY <1>1, <1>6, <2>1, <2>2 DEF TurnInv, ClosedInv
<1> QED
    BY <1>5, <1>6

(* LOOP.END is the last record of the script of a turn.                    *)
LEMMA LoopEndEnds ==
    ASSUME CoreInv, StampInv, engine.pc = "write", api = "execute", call > 0
    PROVE  /\ engine.item.call = call
           /\ engine.item.kind = "loopend" => produced = Len(script) /\ Last(script) = "loopend"
<1>1. /\ script \in TurnScripts /\ produced > 0 /\ engine.item.call = call
      /\ engine.item.kind = script[produced]
    BY DEF StampInv
<1>2. script \in Seq(Kind) /\ produced \in 0..Len(script)
    BY WayTypes
<1>3. produced \in DOMAIN script
    BY <1>1, <1>2
<1>4. script[produced] = "loopend" => produced = Len(script)
    BY <1>1, <1>3, RunAssumption
<1> QED
    BY <1>1, <1>4 DEF Last

LEMMA TurnWrite ==
    ASSUME CoreInv, StampInv, TurnInv, KernelWrite
    PROVE  TurnInv'
<1> USE DEF ctxVars, userVars, eventVars, callerVars
<1> SUFFICES ASSUME Undisturbed' PROVE TurnInv'
    BY DEF TurnInv
<1> DEFINE e == engine.item
           o == Only(inbox, Passing)
<1>1. /\ engine.pc = "write" /\ inbox' = Append(inbox, e)
      /\ accepted' = IF Forwarded(e) THEN Append(accepted, e) ELSE accepted
      /\ UNCHANGED <<api, main, call, script, ctxDone, loopCancel, kernel, produced, events,
                     eventsRef, sent>>
    BY DEF KernelWrite
<1>2. engine'.pc = "tick" /\ engine'.failed = engine.failed
    BY DEF KernelWrite, CoreInv, TypeInv, EngineStates
<1>3. Undisturbed
    BY <1>1, <1>2 DEF Undisturbed
<1>4. ~Complete
    BY <1>1 DEF Complete
<1>5. /\ e \in Item /\ e.call = call /\ accepted \in Seq(Item) /\ inbox \in Seq(Item)
      /\ e.kind = "loopend" => produced = Len(script) /\ Last(script) = "loopend"
    BY <1>1, <1>3, WayTypes, LoopEndEnds DEF Undisturbed
<1> HIDE DEF e
<1>6. CASE eventsRef
    <2>1. OpenInv
        BY <1>3, <1>6 DEF TurnInv
    <2>2. PathInv'
        <3>1. Only(inbox', Passing) = IF e \in Passing THEN Append(o, e) ELSE o
            BY <1>1, <1>5, OnlyAppend
        <3>2. e \in Passing <=> Forwarded(e)
            BY <1>5 DEF Passing
        <3> DEFINE u == sent \o Carried
        <3>3. u \in Seq(Item) /\ o \in Seq(Item) /\ Carried' = Carried /\ Past' = Past
            BY <1>1, WayTypes DEF Carried, Past
        <3>4. PICK z \in Seq(Item) : Elems(z) \subseteq Past /\ u \o o = z \o accepted
            BY <2>1 DEF OpenInv, PathInv, Path
        <3>5. Path' = u \o Only(inbox', Passing)
            BY <1>1, <3>3 DEF Path
        <3> HIDE DEF u, o
        <3>6. Path' = z \o accepted'
            <4>1. CASE Forwarded(e)
                <5>1. u \o Append(o, e) = Append(u \o o, e)
                    BY <1>5, <3>3, AppendConcat
                <5>2. z \o Append(accepted, e) = Append(z \o accepted, e)
                    BY <1>5, AppendConcat
                <5> QED
                    BY <1>1, <3>1, <3>2, <3>4, <3>5, <4>1, <5>1, <5>2
            <4>2. CASE ~Forwarded(e)
                BY <1>1, <3>1, <3>2, <3>4, <3>5, <4>2
            <4> QED
                BY <4>1, <4>2
        <3> QED
            BY <3>3, <3>4, <3>6 DEF PathInv
    <2>3. LoopEndLast'
        <3>1. Complete' <=> produced = Len(script) /\ Last(script) = "loopend"
            BY <1>1, <1>2 DEF Complete
        <3>2. \A i \in 1..Len(accepted) : accepted[i].call = call /\ accepted[i].kind # "loopend"
            BY <1>4, <2>1 DEF OpenInv, LoopEndLast
        <3>3. CASE Forwarded(e)
            <4>1. /\ Len(accepted') = Len(accepted) + 1 /\ accepted'[Len(accepted) + 1] = e
                  /\ \A i \in 1..Len(accepted) : accepted'[i] = accepted[i]
                  /\ Len(accepted) \in Nat
                BY <1>1, <1>5, <3>3, AppendType
            <4>2. \A i \in 1..Len(accepted') : i \in 1..Len(accepted) \/ i = Len(accepted')
                BY <4>1
            <4> QED
                BY <1>1, <1>5, <3>1, <3>2, <4>1, <4>2 DEF LoopEndLast
        <3>4. CASE ~Forwarded(e)
            BY <1>1, <3>2, <3>4 DEF LoopEndLast
        <3> QED
            BY <3>3, <3>4
    <2>4. MustInv'
        <3>1. Only(KindsOf(accepted'), Must) \o Only(<<>>, Ordered)
                = Only(KindsOf(accepted), Must) \o Only(<<e.kind>>, Ordered)
            BY <1>1, <1>5, MustWrite
        <3>2. Pending = <<e.kind>> /\ Pending' = <<>>
            BY <1>1, <1>2 DEF Pending, e
        <3> QED
            BY <1>1, <2>1, <3>1, <3>2 DEF OpenInv, MustInv
    <2> QED
        BY <1>1, <1>2, <1>6, <2>1, <2>2, <2>3, <2>4 DEF OpenInv, TurnInv
<1>7. CASE ~eventsRef
    <2>1. \E i \in 1..Len(sent) : sent[i].call # call
        BY <1>3, <1>4, <1>7 DEF TurnInv, ClosedInv
    <2>2. (main # "collect" => events = <<>>)
        BY <1>3 DEF TurnInv
    <2> QED
        BY <1>1, <1>7, <2>1, <2>2 DEF TurnInv, ClosedInv
<1> QED
    BY <1>6, <1>7

(* The open stream's hot loop drops ordinary deltas only.                  *)
LEMMA TurnWriteDropped ==
    ASSUME CoreInv, StampInv, TurnInv, KernelWriteDropped
    PROVE  TurnInv'
<1> USE DEF ctxVars, userVars, eventVars, callerVars
<1> SUFFICES ASSUME Undisturbed' PROVE TurnInv'
    BY DEF TurnInv
<1>1. /\ engine.pc = "write" /\ (LoopDone \/ ~Waits(engine.item))
      /\ UNCHANGED <<api, main, call, script, ctxDone, loopCancel, kernel, produced, inbox,
                     events, eventsRef, accepted, sent>>
    BY DEF KernelWriteDropped
<1>2. engine'.pc = "tick" /\ engine'.failed = engine.failed
    BY DEF KernelWriteDropped, CoreInv, TypeInv, EngineStates
<1>3. Undisturbed
    BY <1>1, <1>2 DEF Undisturbed
<1>4. ~Complete
    BY <1>1 DEF Complete
<1>5. CASE eventsRef
    <2>1. OpenInv
        BY <1>3, <1>5 DEF TurnInv
    <2>2. PathInv'
        BY <1>1, <2>1, WayStays DEF OpenInv
    <2>3. LoopEndLast'
        BY <1>1, <1>4, <2>1 DEF OpenInv, LoopEndLast
    <2>4. MustInv'
        <3>1. engine.item.kind = "delta"
            BY <1>1, <1>3, <2>1 DEF OpenInv, Undisturbed, LoopDone, Waits
        <3>2. Pending = <<"delta">> /\ Pending' = <<>>
            BY <1>1, <1>2, <3>1 DEF Pending
        <3>3. Only(<<"delta">>, Ordered) = <<>> /\ Only(<<>>, Ordered) = <<>>
            <4>1. "delta" \notin Ordered
                BY DEF Ordered
            <4> QED
                BY <4>1, OnlySmall, OnlyEmpty
        <3> QED
            BY <1>1, <2>1, <3>2, <3>3 DEF OpenInv, MustInv
    <2> QED
        BY <1>1, <1>2, <1>5, <2>1, <2>2, <2>3, <2>4 DEF OpenInv, TurnInv
<1>6. CASE ~eventsRef
    <2>1. \E i \in 1..Len(sent) : sent[i].call # call
        BY <1>3, <1>4, <1>6 DEF TurnInv, ClosedInv
    <2>2. (main # "collect" => events = <<>>)
        BY <1>3 DEF TurnInv
    <2> QED
        BY <1>1, <1>6, <2>1, <2>2 DEF TurnInv, ClosedInv
<1> QED
    BY <1>5, <1>6

(* The hot loop of an open stream does not end unless it fails, and what   *)
(* happens after its end changes nothing that was sent or accepted.        *)
LEMMA TurnEngineEnds ==
    ASSUME CoreInv, StampInv, TurnInv, EngineExit \/ EngineSettle \/ EngineStopUser \/ EngineDone
    PROVE  TurnInv'
<1> USE DEF ctxVars, userVars, eventVars, callerVars
<1> SUFFICES ASSUME Undisturbed' PROVE TurnInv'
    BY DEF TurnInv
<1>1. /\ engine.pc # "write" /\ engine'.pc # "write"
      /\ engine.pc \notin {"tick", "write"} \/ engine'.failed = ~LoopDone
    BY DEF EngineExit, EngineSettle, EngineStopUser, EngineDone, CoreInv, TypeInv, EngineStates
<1>2. engine.pc = "tick" \/ engine'.failed = engine.failed
    BY DEF EngineExit, EngineSettle, EngineStopUser, EngineDone, CoreInv, TypeInv, EngineStates
<1>3. UNCHANGED <<api, main, call, script, ctxDone, loopCancel, produced, events, eventsRef,
                  accepted, sent>>
    BY DEF EngineExit, EngineSettle, EngineStopUser, EngineDone
<1>4. Undisturbed
    BY <1>2, <1>3 DEF Undisturbed, StampInv
<1>5. ~eventsRef
    <2> SUFFICES ASSUME eventsRef PROVE FALSE
        OBVIOUS
    <2>1. engine.pc \in {"tick", "write"} /\ ~loopCancel
        BY <1>4 DEF TurnInv, OpenInv
    <2> QED
        BY <1>1, <1>3, <1>4, <2>1 DEF Undisturbed, LoopDone
<1>6. ClosedInv' = ClosedInv
    <2>1. MustInv' = MustInv /\ Complete' = Complete
        BY <1>1, <1>3, AccountStays
    <2> QED
        BY <1>3, <2>1 DEF ClosedInv
<1> QED
    BY <1>3, <1>4, <1>5, <1>6 DEF TurnInv

LEMMA TurnTake ==
    ASSUME CoreInv, StampInv, TurnInv, KernelTake
    PROVE  TurnInv'
<1> USE DEF ctxVars, userVars, eventVars, callerVars
<1> SUFFICES ASSUME Undisturbed' PROVE TurnInv'
    BY DEF TurnInv
<1> DEFINE h == Head(inbox)
           o == Only(inbox, Passing)
<1>1. /\ kernel.pc = "idle" /\ inbox # <<>> /\ inbox' = Tail(inbox)
      /\ kernel' = IF Forwarded(h) /\ eventsRef
                   THEN [kernel EXCEPT !.pc = "send", !.item = h] ELSE kernel
      /\ UNCHANGED <<api, main, call, script, ctxDone, loopCancel, engine, produced, events,
                     eventsRef, accepted, sent>>
    BY DEF KernelTake
<1>2. Undisturbed
    BY <1>1 DEF Undisturbed
<1>3. /\ Complete' = Complete /\ MustInv' = MustInv /\ LoopEndLast' = LoopEndLast
    <2>1. Complete' = Complete /\ Pending' = Pending
        BY <1>1 DEF Complete, Pending
    <2> QED
        BY <1>1, <2>1 DEF LoopEndLast, MustInv
<1>4. CASE eventsRef
    <2>1. OpenInv
        BY <1>2, <1>4 DEF TurnInv
    <2>2. Path' = Path
        <3>1. /\ sent \in Seq(Item) /\ inbox \in Seq(Item) /\ o \in Seq(Item) /\ h \in Item
              /\ h \in Passing <=> Forwarded(h)
            BY <1>1, WayTypes, TailType DEF Passing
        <3>2. IF h \in Passing
              THEN o # <<>> /\ Head(o) = h /\ Only(inbox', Passing) = Tail(o)
              ELSE Only(inbox', Passing) = o
            BY <1>1, <3>1, OnlyHead
        <3>3. Carried = <<>> /\ sent \o <<>> = sent
            BY <1>1, <3>1, ConcatEmptySeq DEF Carried
        <3>4. Path = sent \o o /\ Path' = (sent \o Carried') \o Only(inbox', Passing)
            BY <1>1, <3>3 DEF Path
        <3>5. CASE Forwarded(h)
            <4>1. Carried' = <<h>>
                <5>1. kernel' = [kernel EXCEPT !.pc = "send", !.item = h]
                    BY <1>1, <1>4, <3>5
                <5>2. kernel'.pc = "send" /\ kernel'.item = h
                    BY <5>1 DEF CoreInv, TypeInv, KernelStates
                <5> QED
                    BY <5>2 DEF Carried
            <4> HIDE DEF h, o
            <4>2. sent \o <<h>> = Append(sent, h)
                BY <3>1, AppendIsConcat
            <4>3. Append(sent, Head(o)) \o Tail(o) = sent \o o
                BY <3>1, <3>2, <3>5, PassHead
            <4> QED
                BY <3>1, <3>2, <3>4, <3>5, <4>1, <4>2, <4>3
        <3>6. CASE ~Forwarded(h)
            <4>1. Carried' = <<>>
                BY <1>1, <3>6 DEF Carried
            <4> QED
                BY <3>1, <3>2, <3>3, <3>4, <3>6, <4>1
        <3> QED
            BY <3>5, <3>6
    <2>3. PathInv'
        BY <1>1, <2>1, <2>2 DEF OpenInv, PathInv, Past
    <2> QED
        BY <1>1, <1>3, <1>4, <2>1, <2>3 DEF OpenInv, TurnInv
<1>5. CASE ~eventsRef
    BY <1>1, <1>2, <1>3, <1>5 DEF TurnInv, ClosedInv
<1> QED
    BY <1>4, <1>5

(* A record of this call in the kernel's hand is one it accepted, and      *)
(* nothing is behind the last of them.                                     *)
LEMMA OwnRecord ==
    ASSUME CoreInv, StampInv, kernel.pc = "send", kernel.item.call = call,
           NEW z \in Seq(Item), Elems(z) \subseteq Past, Path = z \o accepted
    PROVE  \E i \in 1..Len(accepted) :
              /\ accepted[i] = kernel.item
              /\ i = Len(accepted) => Only(inbox, Passing) = <<>>
<1> DEFINE x == sent
           e == kernel.item
           r == Only(inbox, Passing)
           a == accepted
<1>1. /\ x \in Seq(Item) /\ e \in Item /\ r \in Seq(Item) /\ a \in Seq(Item)
      /\ e.call = call
    BY WayTypes
<1>2. Append(x, e) \o r = z \o a
    <2>1. Carried = <<e>>
        BY DEF Carried
    <2>2. x \o <<e>> = Append(x, e)
        <3> HIDE DEF x, e
        <3> QED
            BY <1>1, AppendIsConcat
    <2> QED
        BY <2>1, <2>2 DEF Path
<1> HIDE DEF x, e, r, a
<1> DEFINE y == Append(x, e)
           n == Len(x)
           p == n + 1 - Len(z)
<1>3. y \in Seq(Item) /\ Len(y) = n + 1 /\ y[n + 1] = e /\ n \in Nat
    BY <1>1, AppendType
<1>4. Len(z) \in Nat /\ Len(a) \in Nat /\ Len(r) \in Nat
    BY <1>1
<1> HIDE DEF y, n
<1> DEFINE w == y \o r
<1>5. Len(w) = n + 1 + Len(r) /\ w[n + 1] = e
    <2>1. Len(w) = Len(y) + Len(r) /\ \A i \in 1..Len(y) : w[i] = y[i]
        BY <1>1, <1>3, ConcatType
    <2> HIDE DEF w
    <2>2. n + 1 \in 1..Len(y)
        BY <1>3
    <2> QED
        BY <1>3, <2>1, <2>2
<1>6. /\ w = z \o a
      /\ Len(w) = Len(z) + Len(a)
      /\ \A i \in 1..Len(z) : w[i] = z[i]
      /\ \A i \in 1..Len(a) : w[Len(z) + i] = a[i]
    BY <1>1, <1>2, ConcatType DEF y
<1> HIDE DEF w
<1>7. n + 1 \notin 1..Len(z)
    <2> SUFFICES ASSUME n + 1 \in 1..Len(z) PROVE FALSE
        OBVIOUS
    <2>1. w[n + 1] \in Past
        BY <1>6, ElemsType
    <2> QED
        BY <1>1, <1>5, <2>1 DEF Past
<1>8. p \in 1..Len(a) /\ Len(z) + p = n + 1
    BY <1>3, <1>4, <1>5, <1>6, <1>7
<1>9. a[p] = e
    BY <1>5, <1>6, <1>8
<1>10. p = Len(a) => Len(r) = 0
    BY <1>3, <1>4, <1>5, <1>6, <1>8
<1> QED
    BY <1>1, <1>8, <1>9, <1>10, EmptySeq DEF a, e, r

LEMMA TurnSend ==
    ASSUME CoreInv, FlowInv, StampInv, TurnInv, KernelSend
    PROVE  TurnInv'
<1> USE DEF ctxVars, userVars, eventVars, callerVars
<1> SUFFICES ASSUME Undisturbed' PROVE TurnInv'
    BY DEF TurnInv
<1> DEFINE k == kernel.item
           o == Only(inbox, Passing)
<1>1. /\ kernel.pc = "send" /\ sent' = Append(sent, k)
      /\ eventsRef' = (eventsRef /\ k.kind # "loopend")
      /\ UNCHANGED <<api, main, call, script, ctxDone, loopCancel, engine, produced, inbox,
                     accepted>>
    BY DEF KernelSend
<1>2. kernel'.pc = "idle"
    BY DEF KernelSend, CoreInv, TypeInv, KernelStates
<1>3. Undisturbed
    BY <1>1 DEF Undisturbed
<1>4. eventsRef /\ OpenInv
    BY <1>1, <1>3 DEF FlowInv, TurnInv
<1>5. /\ Complete' = Complete /\ MustInv' = MustInv /\ LoopEndLast' = LoopEndLast /\ Past' = Past
    <2>1. Complete' = Complete /\ Pending' = Pending
        BY <1>1 DEF Complete, Pending
    <2> QED
        BY <1>1, <2>1 DEF LoopEndLast, MustInv, Past
<1>6. /\ sent \in Seq(Item) /\ o \in Seq(Item) /\ k \in Item /\ accepted \in Seq(Item)
    BY WayTypes
<1>7. Path = Append(sent, k) \o o /\ Path' = Append(sent, k) \o o
    <2>1. Carried = <<k>> /\ Carried' = <<>>
        BY <1>1, <1>2 DEF Carried
    <2>2. sent \o <<k>> = Append(sent, k) /\ Append(sent, k) \o <<>> = Append(sent, k)
        <3> HIDE DEF k
        <3>1. Append(sent, k) \in Seq(Item)
            BY <1>6, AppendType
        <3> QED
            BY <1>6, <3>1, AppendIsConcat, ConcatEmptySeq
    <2> QED
        BY <1>1, <2>1, <2>2 DEF Path
<1>8. PICK z \in Seq(Item) : Elems(z) \subseteq Past /\ Path = z \o accepted
    BY <1>4 DEF OpenInv, PathInv
<1>9. main' = "collect"
    BY <1>1, <1>4 DEF OpenInv
<1>10. CASE k.kind # "loopend"
    <2>1. PathInv'
        BY <1>1, <1>5, <1>7, <1>8 DEF PathInv
    <2> QED
        BY <1>1, <1>4, <1>5, <1>10, <2>1 DEF OpenInv, TurnInv
<1>11. CASE k.kind = "loopend"
    <2>1. ~eventsRef'
        BY <1>1, <1>11
    <2>2. ClosedInv'
        <3> HIDE DEF k, o
        <3>1. /\ Len(sent') = Len(sent) + 1 /\ sent'[Len(sent) + 1] = k /\ sent' \in Seq(Item)
              /\ Len(sent) \in Nat
            BY <1>1, <1>6, AppendType
        <3>2. CASE k.call # call
            <4>1. Len(sent) + 1 \in 1..Len(sent')
                BY <3>1
            <4> QED
                BY <1>1, <3>1, <3>2, <4>1 DEF ClosedInv
        <3>3. CASE k.call = call
            <4>1. \A i \in 1..Len(accepted) : accepted[i].kind = "loopend" => i = Len(accepted)
                BY <1>4 DEF OpenInv, LoopEndLast
            <4>2. o = <<>> /\ \E i \in 1..Len(accepted) : accepted[i] = k
                <5>1. k.call = call
                    BY <3>3
                <5>2. \E i \in 1..Len(accepted) : accepted[i] = k /\ (i = Len(accepted) => o = <<>>)
                    BY <1>1, <1>8, <5>1, OwnRecord DEF k, o
                <5> QED
                    BY <1>11, <4>1, <5>2
            <4>3. Complete
                BY <1>4, <1>11, <4>2 DEF OpenInv, LoopEndLast
            <4>4. sent' = z \o accepted
                BY <1>1, <1>7, <1>8, <3>1, <4>2, ConcatEmptySeq
            <4>5. CASE z = <<>>
                <5>1. sent' = accepted
                    BY <1>6, <4>4, <4>5, ConcatEmptySeq
                <5> QED
                    BY <1>1, <1>4, <1>5, <4>3, <5>1 DEF ClosedInv, OpenInv
            <4>6. CASE z # <<>>
                <5>1. /\ Len(z) \in Nat /\ Len(accepted) \in Nat /\ 1 \in 1..Len(z)
                      /\ Len(sent') = Len(z) + Len(accepted)
                      /\ \A i \in 1..Len(z) : sent'[i] = z[i]
                    BY <1>6, <1>8, <4>4, <4>6, ConcatType, TailType
                <5>2. 1 \in 1..Len(sent') /\ sent'[1] = z[1]
                    BY <5>1
                <5>3. z[1] \in Past
                    BY <1>8, <5>1, ElemsType
                <5> QED
                    BY <1>1, <5>2, <5>3 DEF ClosedInv, Past
            <4> QED
                BY <4>5, <4>6
        <3> QED
            BY <3>2, <3>3
    <2> QED
        BY <1>9, <2>1, <2>2 DEF TurnInv
<1> QED
    BY <1>10, <1>11

(* The kernel of an open stream is neither cancelled nor stopped.          *)
LEMMA TurnStop ==
    ASSUME CoreInv, StampInv, TurnInv, KernelStop
    PROVE  TurnInv'
<1> USE DEF ctxVars, userVars, eventVars, callerVars
<1> SUFFICES ASSUME Undisturbed' PROVE TurnInv'
    BY DEF TurnInv
<1>1. /\ LoopDone \/ kernel.stop
      /\ eventsRef' = FALSE
      /\ UNCHANGED <<api, main, call, script, ctxDone, loopCancel, engine, produced, events,
                     accepted, sent>>
    BY DEF KernelStop, KernelClose
<1>2. Undisturbed
    BY <1>1 DEF Undisturbed
<1>3. ~eventsRef
    BY <1>1, <1>2 DEF TurnInv, OpenInv, StampInv, LoopDone, Undisturbed
<1>4. ClosedInv' = ClosedInv
    <2>1. Complete' = Complete /\ Pending' = Pending
        BY <1>1 DEF Complete, Pending
    <2>2. MustInv' = MustInv
        BY <1>1, <2>1 DEF MustInv
    <2> QED
        BY <1>1, <2>1, <2>2 DEF ClosedInv
<1> QED
    BY <1>1, <1>2, <1>3, <1>4 DEF TurnInv

(* A call starts behind what earlier calls left in DeltaInbox.             *)
LEMMA TurnStarts ==
    ASSUME CoreInv, StampInv, ExecuteCall
    PROVE  TurnInv'
<1> USE DEF ctxVars, userVars, eventVars, callerVars
<1> DEFINE o == Only(inbox, Passing)
<1>1. /\ main' = "collect" /\ call' = call + 1 /\ script' \in TurnScripts /\ loopCancel' = FALSE
      /\ engine'.pc = "tick" /\ kernel'.pc = "idle" /\ eventsRef' = TRUE
      /\ produced' = 0 /\ accepted' = <<>> /\ sent' = <<>> /\ inbox' = inbox
    BY DEF ExecuteCall
<1>2. /\ o \in Seq(Item) /\ inbox \in Seq(Item) /\ call \in Nat /\ <<>> \in Seq(Item)
    BY WayTypes
<1>3. PathInv'
    <2>1. Carried' = <<>> /\ <<>> \o <<>> = <<>>
        BY <1>1, EmptyPath DEF Carried
    <2>2. Path' = <<>> \o o
        BY <1>1, <2>1 DEF Path
    <2>3. Elems(o) = Elems(inbox) \cap Passing
        BY <1>2, OnlyElems
    <2>4. \A i \in Elems(inbox) : i \in Item /\ i.call \in Nat
        <3>1. \A i \in Item : i.call \in Nat
            BY DEF Item
        <3> QED
            BY <1>2, <3>1, ElemsType
    <2>5. \A i \in Elems(inbox) : i.call # call'
        <3> SUFFICES ASSUME NEW i \in Elems(inbox) PROVE i.call # call'
            OBVIOUS
        <3>1. i.call <= call /\ i.call \in Nat
            BY <2>4 DEF StampInv
        <3> QED
            BY <1>1, <1>2, <3>1
    <2>6. Elems(o) \subseteq Past'
        BY <2>3, <2>4, <2>5 DEF Past
    <2> HIDE DEF o
    <2>7. <<>> \o o = o /\ o \o <<>> = o
        BY <1>2, ConcatEmptySeq
    <2>8. Path' = o \o accepted'
        BY <1>1, <2>2, <2>7
    <2> QED
        BY <1>2, <2>6, <2>8 DEF PathInv
<1>4. LoopEndLast'
    BY <1>1 DEF LoopEndLast
<1>5. MustInv'
    <2>1. KindsOf(<<>>) = <<>>
        BY DEF KindsOf
    <2>2. Pending' = <<>>
        BY <1>1 DEF Pending
    <2>3. SubSeq(script', 1, 0) = <<>>
        OBVIOUS
    <2>4. \A T : Only(<<>>, T) = <<>>
        BY OnlyEmpty
    <2>5. <<>> \o <<>> = <<>>
        BY EmptyPath
    <2> QED
        BY <1>1, <2>1, <2>2, <2>3, <2>4, <2>5 DEF MustInv
<1> QED
    BY <1>1, <1>3, <1>4, <1>5 DEF OpenInv, TurnInv

LEMMA NextTurn ==
    ASSUME CoreInv, FlowInv, StampInv, TurnInv, [Next]_vars
    PROVE  TurnInv'
<1> USE DEF ctxVars, userVars, eventVars, callerVars
<1>1. CASE ReadDeltas \/ StopReading \/ RunOutput \/ UserStep \/ UNCHANGED vars
    BY <1>1, TurnStays DEF ReadDeltas, StopReading, RunOutput, UserStep, UserTake, UserStop, vars,
       TurnInv, Undisturbed
<1>2. CASE Cancel \/ RunCancelled \/ RunEngineEnded \/ RunJoin \/ RunReturn \/ ForwardStep
    <2>1. ~Undisturbed'
        BY <1>2 DEF Cancel, RunCancelled, RunEngineEnded, RunJoin, RunReturn, ForwardStep,
           ForwardTake, ForwardWrite, ForwardEnd, CoreInv, ControlInv, Undisturbed
    <2> QED
        BY <2>1 DEF TurnInv
<1>3. CASE ExecuteCollect
    BY <1>3, TurnStays DEF ExecuteCollect
<1>4. CASE ExecuteClosed
    <2>1. ~eventsRef /\ events' = <<>>
        BY <1>4 DEF ExecuteClosed, FlowInv
    <2> QED
        BY <1>4, <2>1, TurnStays DEF ExecuteClosed
<1>5. CASE ExecuteReturn
    <2>1. Undisturbed => ~eventsRef /\ events' = <<>>
        BY <1>5 DEF ExecuteReturn, TurnInv
    <2>2. Undisturbed' => Undisturbed
        BY <1>5 DEF ExecuteReturn, Undisturbed
    <2>3. CASE Undisturbed
        BY <1>5, <2>1, <2>3, TurnStays DEF ExecuteReturn
    <2>4. CASE ~Undisturbed
        BY <2>2, <2>4 DEF TurnInv
    <2> QED
        BY <2>3, <2>4
<1> QED
    BY <1>1, <1>2, <1>3, <1>4, <1>5, TurnTick, TurnWrite, TurnWriteDropped, TurnEngineEnds,
       TurnTake, TurnSend, TurnStop, TurnStarts
    DEF Next, MainStep, EngineStop, WriteStep, KernelStep

-----------------------------------------------------------------------------
(* Theorems                                                                *)

(* The goroutines, channels and histories of the loop keep their types,    *)
(* and no channel holds more than its capacity.                            *)
THEOREM TypeCorrect == Spec => []TypeOK
<1>1. CoreInv => TypeOK
    BY DEF CoreInv, TypeInv, TypeOK, EngineStates, KernelStates, WorkerStates, Queue
<1> QED
    BY InitCore, NextCore, <1>1, PTL DEF Spec

(* Execute's wait for hotLoopDone and Run's joins leave no goroutine of    *)
(* the call behind, so none can close or write the next call's stream.     *)
THEOREM Quiet == Spec => []QuietBetweenCalls
<1>1. CoreInv => QuietBetweenCalls
    BY DEF CoreInv, ControlInv, QuietBetweenCalls
<1> QED
    BY InitCore, NextCore, <1>1, PTL DEF Spec

(* What dispatchDelta publishes reaches the caller in order, once each and *)
(* without a gap, and an uncancelled Run returns behind all of it.         *)
THEOREM Published == Spec => []PublishedInOrder
<1>1. CoreInv /\ FlowInv => PublishedInOrder
    <2> SUFFICES ASSUME CoreInv, FlowInv PROVE PublishedInOrder
        OBVIOUS
    <2>1. ~ctxDone => seen \o public \o Held \o events = sent
        BY DEF FlowInv, Intact
    <2>2. ASSUME api = "run", main = "returned", ~ctxDone
          PROVE  seen \o public = sent
        <3>1. events = <<>> /\ Held = <<>>
            BY <2>2 DEF FlowInv, CoreInv, ControlInv, Held
        <3> QED
            BY <2>1, <2>2, <3>1, FlowTypes, ConcatEmptySeq
    <2> QED
        BY <2>1, <2>2 DEF FlowInv, PublishedInOrder
<1> QED
    BY InitCore, InitFlow, NextCore, NextFlow, <1>1, PTL DEF Spec

(* A call of Execute that nothing disturbed returns behind its own         *)
(* LOOP.END with everything DeltaInbox took and every record that          *)
(* MustDeliver, unless an earlier call's leftovers reached its stream.     *)
THEOREM TurnWhole == Spec => []WholeTurn
<1>1. CoreInv /\ FlowInv /\ StampInv /\ TurnInv => WholeTurn
    <2> SUFFICES ASSUME CoreInv, FlowInv, StampInv, TurnInv,
                        api = "execute", call > 0, main \in {"wait", "returned"},
                        ~ctxDone, ~engine.failed,
                        ~(\E i \in DOMAIN seen : seen[i].call # call)
                 PROVE  /\ seen = accepted
                        /\ Only(KindsOf(seen), Must) = Only(script, Ordered)
                        /\ Last(script) = "loopend"
        BY DEF WholeTurn, Must, Ordered
    <2>1. ~eventsRef /\ events = <<>> /\ ClosedInv
        BY DEF TurnInv, Undisturbed
    <2>2. seen = sent /\ DOMAIN sent = 1..Len(sent)
        <3>1. public = <<>> /\ Held = <<>>
            BY DEF CoreInv, ControlInv, Held
        <3> QED
            BY <2>1, <3>1, FlowTypes, ConcatEmptySeq DEF FlowInv, Intact
    <2>3. sent = accepted /\ Complete /\ MustInv
        BY <2>1, <2>2 DEF ClosedInv
    <2>4. Pending = <<>> /\ produced = Len(script) /\ Last(script) = "loopend"
        BY <2>3 DEF Complete, Pending
    <2>5. Only(KindsOf(accepted), Must) = Only(script, Ordered)
        <3> DEFINE l == Only(KindsOf(accepted), Must)
        <3>1. l \in Seq(Kind)
            <4>1. KindsOf(accepted) \in Seq(Kind)
                BY ItemType, WayTypes, KindsAppend
            <4> QED
                BY <4>1, OnlyType
        <3> HIDE DEF l
        <3>2. l \o Only(<<>>, Ordered) = l
            BY <3>1, OnlyEmpty, ConcatEmptySeq
        <3>3. SubSeq(script, 1, Len(script)) = script
            BY WayTypes, SubSeqFull
        <3> QED
            BY <2>3, <2>4, <3>2, <3>3 DEF MustInv, l
    <2> QED
        BY <2>2, <2>3, <2>4, <2>5
<1>2. Init => TurnInv
    BY DEF Init, TurnInv, Undisturbed
<1> QED
    BY InitCore, InitFlow, InitStamp, <1>2, NextCore, NextFlow, NextStamp, NextTurn, <1>1, PTL
    DEF Spec
=============================================================================
