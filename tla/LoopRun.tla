------------------------------ MODULE LoopRun ------------------------------
(***************************************************************************)
(* Publication and shutdown of an agent loop: AgentLoop.Run and Execute,   *)
(* the engine goroutine with its deferred Stop of every participant, the   *)
(* KernelRunner that moves deltas from DeltaInbox to the event channel,    *)
(* the worker that forwards them to Deltas(), the UserRunner that hands    *)
(* final responses to Run, and the caller that reads, stops reading or     *)
(* cancels.  Every channel operation is one action; what a tick produces   *)
(* is the environment's choice.                                            *)
(***************************************************************************)
EXTENDS Naturals, Sequences, SequencesExt, SequenceFilter

CONSTANTS
    KernelCap,      \* capacity of KernelRunner.DeltaInbox
    EventCap,       \* capacity of the event channel (deltaEventReaderCapacity)
    PublicCap,      \* capacity of Deltas()
    RunScripts,     \* what the ticks of a call of Run produce, in order
    TurnScripts,    \* what the ticks of a call of Execute produce
    MaxItems,       \* bound on the length of a script
    MaxCalls        \* bound on the calls of Execute

(* A kernel record: an ordinary delta that a full inbox drops, one that    *)
(* MustDeliver, a SYSTEM.FULL_MESSAGE, or LOOP.END.                        *)
Kind == {"delta", "must", "full", "loopend"}

(* A one-shot turn is over with its LOOP.END.                              *)
ASSUME RunAssumption ==
    /\ {KernelCap, EventCap, PublicCap, MaxItems, MaxCalls} \subseteq Nat \ {0}
    /\ \A s \in RunScripts \cup TurnScripts : s \in Seq(Kind) /\ Len(s) <= MaxItems
    /\ \A s \in TurnScripts : \A i \in DOMAIN s : s[i] = "loopend" => i = Len(s)

Item == [call : 1..MaxCalls, n : 1..MaxItems, kind : Kind]

VARIABLES
    api,            \* "run" or "execute": which call the caller makes
    main,           \* the goroutine inside Run or Execute
    call,           \* the number of the current call
    ctxDone,        \* the caller cancelled the context of this call
    loopCancel,     \* the call cancelled loopCtx
    script,         \* what the ticks of this call produce
    engine,         \* the engine goroutine
    kernel,         \* the KernelRunner goroutine
    fwd,            \* the forwarding worker of Run
    user,           \* the UserRunner goroutine
    userInbox,      \* a final response waits for the UserRunner
    inbox,          \* DeltaInbox; it outlives a call of Execute
    events,         \* the event channel of this call
    eventsOpen,     \* that channel is not closed
    eventsRef,      \* KernelRunner.deltaEventCh is not nil
    public,         \* Deltas()
    reading,        \* the caller still reads Deltas()
    \* history variables
    produced,       \* records written during this call
    accepted,       \* those DeltaInbox took, FULL_MESSAGE apart
    sent,           \* deltas the kernel sent on this call's event channel
    seen            \* deltas the caller received from this call

ctxVars == <<ctxDone, loopCancel>>
eventVars == <<events, eventsOpen, eventsRef>>
userVars == <<user, userInbox>>
callerVars == <<public, reading, seen>>
vars == <<api, main, call, script, ctxVars, engine, kernel, fwd, userVars, inbox,
          eventVars, callerVars, produced, accepted, sent>>

NoItem == [call |-> 1, n |-> 1, kind |-> "delta"]
Idle(pc) == [pc |-> pc, item |-> NoItem]

LoopDone == ctxDone \/ loopCancel

(* A call of Run starts with everything at rest; Execute is called later.  *)
Init ==
    /\ api \in {"run", "execute"}
    /\ main = IF api = "run" THEN "select" ELSE "returned"
    /\ call = IF api = "run" THEN 1 ELSE 0
    /\ script \in IF api = "run" THEN RunScripts ELSE {<<>>}
    /\ ctxDone = FALSE /\ loopCancel = FALSE
    /\ engine = [pc |-> IF api = "run" THEN "tick" ELSE "done",
                 item |-> NoItem, failed |-> FALSE]
    /\ kernel = [pc |-> IF api = "run" THEN "idle" ELSE "done",
                 item |-> NoItem, stop |-> FALSE]
    /\ fwd = Idle(IF api = "run" THEN "recv" ELSE "done")
    /\ user = IF api = "run" THEN "idle" ELSE "done"
    /\ userInbox = FALSE
    /\ inbox = <<>> /\ events = <<>>
    /\ eventsOpen = (api = "run") /\ eventsRef = (api = "run")
    /\ public = <<>> /\ reading = TRUE
    /\ produced = 0 /\ accepted = <<>> /\ sent = <<>> /\ seen = <<>>

-----------------------------------------------------------------------------
(* The caller                                                              *)

Cancel ==
    /\ main # "returned" /\ ~ctxDone
    /\ ctxDone' = TRUE
    /\ UNCHANGED <<api, main, call, script, loopCancel, engine, kernel, fwd, userVars,
                   inbox, eventVars, callerVars, produced, accepted, sent>>

ReadDeltas ==
    /\ reading /\ public # <<>>
    /\ public' = Tail(public) /\ seen' = Append(seen, Head(public))
    /\ UNCHANGED <<api, main, call, script, ctxVars, engine, kernel, fwd, userVars, inbox,
                   eventVars, reading, produced, accepted, sent>>

StopReading ==
    /\ api = "run" /\ reading
    /\ reading' = FALSE
    /\ UNCHANGED <<api, main, call, script, ctxVars, engine, kernel, fwd, userVars, inbox,
                   eventVars, public, seen, produced, accepted, sent>>

-----------------------------------------------------------------------------
(* Run                                                                     *)

(* Run stops selecting once its context ends; loopCtx ends with it.        *)
RunCancelled ==
    /\ api = "run" /\ main = "select" /\ ctxDone
    /\ main' = "join" /\ loopCancel' = TRUE
    /\ UNCHANGED <<api, call, script, ctxDone, engine, kernel, fwd, userVars, inbox,
                   eventVars, callerVars, produced, accepted, sent>>

RunEngineEnded ==
    /\ api = "run" /\ main = "select" /\ engine.pc = "done"
    /\ main' = "barrier"
    /\ UNCHANGED <<api, call, script, ctxVars, engine, kernel, fwd, userVars, inbox,
                   eventVars, callerVars, produced, accepted, sent>>

(* A final response is handed over on the unbuffered user channel.         *)
RunOutput ==
    /\ api = "run" /\ main = "select" /\ user = "publish"
    /\ user' = "idle"
    /\ UNCHANGED <<api, main, call, script, ctxVars, engine, kernel, fwd, userInbox, inbox,
                   eventVars, callerVars, produced, accepted, sent>>

RunJoin ==
    /\ api = "run" /\ main = "join" /\ engine.pc = "done"
    /\ main' = "barrier"
    /\ UNCHANGED <<api, call, script, ctxVars, engine, kernel, fwd, userVars, inbox,
                   eventVars, callerVars, produced, accepted, sent>>

(* Mutant: Run does not wait for the forwarding worker.                    *)
BarrierOpen == TRUE

(* The publication barrier: the forwarding worker has ended.               *)
Barrier == fwd.pc = "done"

RunReturn ==
    /\ main = "barrier" /\ Barrier
    /\ main' = "returned"
    /\ UNCHANGED <<api, call, script, ctxVars, engine, kernel, fwd, userVars, inbox,
                   eventVars, callerVars, produced, accepted, sent>>

(* The worker: range over the event channel, wait for room in Deltas().    *)
ForwardTake ==
    /\ fwd.pc = "recv" /\ events # <<>>
    /\ fwd' = [pc |-> "write", item |-> Head(events)]
    /\ events' = Tail(events)
    /\ UNCHANGED <<api, main, call, script, ctxVars, engine, kernel, userVars, inbox,
                   eventsOpen, eventsRef, callerVars, produced, accepted, sent>>

ForwardWrite ==
    /\ fwd.pc = "write" /\ Len(public) < PublicCap
    /\ public' = Append(public, fwd.item)
    /\ fwd' = Idle("recv")
    /\ UNCHANGED <<api, main, call, script, ctxVars, engine, kernel, userVars, inbox,
                   eventVars, reading, produced, accepted, sent, seen>>

(* The context ended while the worker waits: it returns and drains nothing *)
(* more; or the channel is closed and empty.                               *)
ForwardEnd ==
    /\ \/ fwd.pc = "write" /\ ctxDone
       \/ fwd.pc = "recv" /\ events = <<>> /\ ~eventsOpen
    /\ fwd' = Idle("done")
    /\ UNCHANGED <<api, main, call, script, ctxVars, engine, kernel, userVars, inbox,
                   eventVars, callerVars, produced, accepted, sent>>

-----------------------------------------------------------------------------
(* Execute                                                                 *)

(* A new event reader on the same KernelRunner, a new context, and a new   *)
(* engine goroutine that starts the participants.                          *)
ExecuteCall ==
    /\ api = "execute" /\ main = "returned" /\ call < MaxCalls
    /\ main' = "collect" /\ call' = call + 1 /\ script' \in TurnScripts
    /\ ctxDone' = FALSE /\ loopCancel' = FALSE
    /\ engine' = [pc |-> "tick", item |-> NoItem, failed |-> FALSE]
    /\ kernel' = [pc |-> "idle", item |-> NoItem, stop |-> FALSE]
    /\ user' = "idle"
    /\ events' = <<>> /\ eventsOpen' = TRUE /\ eventsRef' = TRUE
    /\ produced' = 0 /\ accepted' = <<>> /\ sent' = <<>> /\ seen' = <<>>
    /\ UNCHANGED <<api, fwd, userInbox, inbox, public, reading>>

ExecuteCollect ==
    /\ main = "collect" /\ events # <<>>
    /\ seen' = Append(seen, Head(events)) /\ events' = Tail(events)
    /\ UNCHANGED <<api, main, call, script, ctxVars, engine, kernel, fwd, userVars, inbox,
                   eventsOpen, eventsRef, public, reading, produced, accepted, sent>>

ExecuteClosed ==
    /\ main = "collect" /\ events = <<>> /\ ~eventsOpen
    /\ main' = "wait" /\ loopCancel' = TRUE
    /\ UNCHANGED <<api, call, script, ctxDone, engine, kernel, fwd, userVars, inbox,
                   eventVars, callerVars, produced, accepted, sent>>

(* Mutant: Execute does not wait for the hot loop of this turn.            *)
HotLoopAssumedDone == TRUE

HotLoopDone == engine.pc = "done"

ExecuteReturn ==
    /\ main = "wait" /\ HotLoopDone
    /\ main' = "returned"
    /\ UNCHANGED <<api, call, script, ctxVars, engine, kernel, fwd, userVars, inbox,
                   eventVars, callerVars, produced, accepted, sent>>
-----------------------------------------------------------------------------
(* The engine goroutine                                                    *)

(* A tick produces a kernel record; a final response also goes to          *)
(* UserInbox, which drops it if it is full.                                *)
Tick ==
    LET kind == script[produced + 1] IN
    /\ engine.pc = "tick" /\ produced < Len(script)
    /\ engine' = [engine EXCEPT !.pc = "write",
                      !.item = [call |-> call, n |-> produced + 1, kind |-> kind]]
    /\ userInbox' = (userInbox \/ (kind = "full" /\ ~LoopDone))
    /\ produced' = produced + 1
    /\ UNCHANGED <<api, main, call, script, ctxVars, kernel, fwd, user, inbox, eventVars,
                   callerVars, accepted, sent>>

Forwarded(item) == item.kind # "full"

(* Mutant: a full inbox drops any record.                                  *)
WaitsForNothing(item) == FALSE

(* WriteKernelDelta: MustDeliver records wait for capacity.                *)
Waits(item) == item.kind # "delta"

(* Mutant: a MustDeliver record is queued past the capacity.               *)
KernelWritePastCap ==
    /\ engine.pc = "write" /\ (Waits(engine.item) \/ Len(inbox) < KernelCap)
    /\ Waits(engine.item) \/ ~LoopDone
    /\ inbox' = Append(inbox, engine.item)
    /\ accepted' = IF Forwarded(engine.item) THEN Append(accepted, engine.item)
                   ELSE accepted
    /\ engine' = [engine EXCEPT !.pc = "tick", !.item = NoItem]
    /\ UNCHANGED <<api, main, call, script, ctxVars, kernel, fwd, userVars, eventVars,
                   callerVars, produced, sent>>

(* With capacity the write may win even when the context has ended, unless *)
(* the record is an ordinary one, for which WriteContext looks first.      *)
KernelWrite ==
    /\ engine.pc = "write" /\ Len(inbox) < KernelCap
    /\ Waits(engine.item) \/ ~LoopDone
    /\ inbox' = Append(inbox, engine.item)
    /\ accepted' = IF Forwarded(engine.item) THEN Append(accepted, engine.item)
                   ELSE accepted
    /\ engine' = [engine EXCEPT !.pc = "tick", !.item = NoItem]
    /\ UNCHANGED <<api, main, call, script, ctxVars, kernel, fwd, userVars, eventVars,
                   callerVars, produced, sent>>

KernelWriteDropped ==
    /\ engine.pc = "write"
    /\ LoopDone \/ (~Waits(engine.item) /\ Len(inbox) = KernelCap)
    /\ engine' = [engine EXCEPT !.pc = "tick", !.item = NoItem]
    /\ UNCHANGED <<api, main, call, script, ctxVars, kernel, fwd, userVars, inbox,
                   eventVars, callerVars, produced, accepted, sent>>

(* The hot loop ends: its context is done, or a tick fails.                *)
EngineExit ==
    /\ engine.pc = "tick"
    /\ engine' = [engine EXCEPT !.pc = "settle", !.failed = ~LoopDone]
    /\ UNCHANGED <<api, main, call, script, ctxVars, kernel, fwd, userVars, inbox,
                   eventVars, callerVars, produced, accepted, sent>>

(* settleHeldUserMessages: TryWrite of a held turn, if there is one, and   *)
(* then Stop of the kernel participant.                                    *)
EngineSettle ==
    /\ engine.pc = "settle"
    /\ inbox' \in {inbox} \cup
         IF Len(inbox) < KernelCap
         THEN {Append(inbox, [NoItem EXCEPT !.call = call, !.kind = "full"])} ELSE {}
    /\ kernel' = [kernel EXCEPT !.stop = TRUE]
    /\ engine' = [engine EXCEPT !.pc = "stop"]
    /\ UNCHANGED <<api, main, call, script, ctxVars, fwd, userVars, eventVars, callerVars,
                   produced, accepted, sent>>

(* Stop of the kernel, then (tool and model) of the user participant.      *)
EngineStopUser ==
    /\ engine.pc = "stop" /\ kernel.pc = "done"
    /\ engine' = [engine EXCEPT !.pc = "stopuser"]
    /\ UNCHANGED <<api, main, call, script, ctxVars, kernel, fwd, userVars, inbox,
                   eventVars, callerVars, produced, accepted, sent>>

EngineDone ==
    /\ engine.pc = "stopuser" /\ user = "done"
    /\ engine' = [engine EXCEPT !.pc = "done"]
    /\ UNCHANGED <<api, main, call, script, ctxVars, kernel, fwd, userVars, inbox,
                   eventVars, callerVars, produced, accepted, sent>>
-----------------------------------------------------------------------------
(* The KernelRunner                                                        *)

(* dispatchDelta: FULL_MESSAGE has no reader, a delta goes to the event    *)
(* channel if there is one.                                                *)
KernelTake ==
    /\ kernel.pc = "idle" /\ inbox # <<>>
    /\ inbox' = Tail(inbox)
    /\ kernel' = IF Forwarded(Head(inbox)) /\ eventsRef
                 THEN [kernel EXCEPT !.pc = "send", !.item = Head(inbox)]
                 ELSE kernel
    /\ UNCHANGED <<api, main, call, script, ctxVars, engine, fwd, userVars, eventVars,
                   callerVars, produced, accepted, sent>>

(* The send waits for room and for nothing else; LOOP.END then closes the  *)
(* channel and forgets it.                                                 *)
KernelSend ==
    LET ends == kernel.item.kind = "loopend" IN
    /\ kernel.pc = "send" /\ Len(events) < EventCap
    /\ events' = Append(events, kernel.item)
    /\ sent' = Append(sent, kernel.item)
    /\ eventsOpen' = (eventsOpen /\ ~ends) /\ eventsRef' = (eventsRef /\ ~ends)
    /\ kernel' = [kernel EXCEPT !.pc = "idle", !.item = NoItem]
    /\ UNCHANGED <<api, main, call, script, ctxVars, engine, fwd, userVars, inbox,
                   callerVars, produced, accepted>>

(* Mutant: the kernel leaves the event channel open.                       *)
KernelCloseNothing == UNCHANGED <<eventsOpen, eventsRef>> /\ inbox' = <<>>

(* closeStreamWithError closes the channel, if any, and drains DeltaInbox. *)
KernelClose ==
    /\ eventsOpen' = (eventsOpen /\ ~eventsRef)
    /\ eventsRef' = FALSE
    /\ inbox' = <<>>

KernelStop ==
    /\ kernel.pc = "idle" /\ (LoopDone \/ kernel.stop)
    /\ KernelClose
    /\ kernel' = [kernel EXCEPT !.pc = "done"]
    /\ UNCHANGED <<api, main, call, script, ctxVars, engine, fwd, userVars, events,
                   callerVars, produced, accepted, sent>>
-----------------------------------------------------------------------------
(* The UserRunner; a one-shot loop has no output channel.                  *)
UserTake ==
    /\ user = "idle" /\ userInbox
    /\ userInbox' = FALSE
    /\ user' = IF api = "run" THEN "publish" ELSE "idle"
    /\ UNCHANGED <<api, main, call, script, ctxVars, engine, kernel, fwd, inbox, eventVars,
                   callerVars, produced, accepted, sent>>

(* Both the read of Inbox and the hand-over watch the context.             *)
UserMayStop == user \in {"idle", "publish"}

UserStop ==
    /\ UserMayStop /\ (LoopDone \/ engine.pc = "stopuser")
    /\ user' = "done"
    /\ UNCHANGED <<api, main, call, script, ctxVars, engine, kernel, fwd, userInbox, inbox,
                   eventVars, callerVars, produced, accepted, sent>>
-----------------------------------------------------------------------------
MainStep ==
    \/ RunCancelled \/ RunEngineEnded \/ RunOutput \/ RunJoin \/ RunReturn
    \/ ExecuteCollect \/ ExecuteClosed \/ ExecuteReturn
EngineStop == EngineSettle \/ EngineStopUser \/ EngineDone
WriteStep == KernelWrite \/ KernelWriteDropped
KernelStep == KernelTake \/ KernelSend \/ KernelStop
ForwardStep == ForwardTake \/ ForwardWrite \/ ForwardEnd
UserStep == UserTake \/ UserStop

Next ==
    \/ Cancel \/ ReadDeltas \/ StopReading \/ ExecuteCall
    \/ MainStep \/ Tick \/ EngineExit \/ EngineStop \/ WriteStep
    \/ KernelStep \/ ForwardStep \/ UserStep

Spec == Init /\ [][Next]_vars

(* Goroutines run when they can, an engine whose context ended exits, and  *)
(* a caller that reads keeps reading.                                      *)
FairSpec ==
    /\ Spec
    /\ WF_vars(MainStep) /\ WF_vars(EngineStop) /\ WF_vars(WriteStep)
    /\ WF_vars(KernelStep) /\ WF_vars(ForwardStep) /\ WF_vars(UserStep)
    /\ WF_vars(ReadDeltas) /\ WF_vars(LoopDone /\ EngineExit)
-----------------------------------------------------------------------------
(* Properties                                                              *)

TypeOK ==
    /\ api \in {"run", "execute"} /\ call \in 0..MaxCalls
    /\ main \in {"select", "join", "barrier", "collect", "wait", "returned"}
    /\ engine.pc \in {"tick", "write", "settle", "stop", "stopuser", "done"}
    /\ kernel.pc \in {"idle", "send", "done"}
    /\ fwd.pc \in {"recv", "write", "done"}
    /\ user \in {"idle", "publish", "done"}
    /\ inbox \in Seq(Item) /\ Len(inbox) <= KernelCap
    /\ events \in Seq(Item) /\ Len(events) <= EventCap
    /\ public \in Seq(Item) /\ Len(public) <= PublicCap
    /\ produced \in 0..Len(script)

Held == IF fwd.pc = "write" THEN <<fwd.item>> ELSE <<>>

(* What the kernel publishes reaches the caller without loss, duplication  *)
(* or reordering: until the caller cancels, every delta sent is received,  *)
(* in Deltas(), in the worker's hand or in the event channel; afterwards   *)
(* the caller's deltas are still a prefix of them.  When Run returns       *)
(* because the engine failed, all of them are visible in Deltas(): the     *)
(* publication barrier.                                                    *)
PublishedInOrder ==
    /\ ~ctxDone => seen \o public \o Held \o events = sent
    /\ IsPrefix(seen \o public, sent)
    /\ api = "run" /\ main = "returned" /\ ~ctxDone => seen \o public = sent

KindsOf(items) == [i \in DOMAIN items |-> items[i].kind]

(* A call of Execute that nothing disturbed delivers its whole turn: every *)
(* delta DeltaInbox took, every one that MustDeliver among what the ticks  *)
(* wrote, and LOOP.END at the end.                                         *)
WholeTurn ==
    /\ api = "execute" /\ call > 0 /\ main \in {"wait", "returned"}
    /\ ~ctxDone /\ ~engine.failed
    /\ ~(\E i \in DOMAIN seen : seen[i].call # call)
    => /\ seen = accepted
       /\ Only(KindsOf(seen), Kind \ {"delta"}) = Only(script, Kind \ {"delta", "full"})
       /\ Last(script) = "loopend"

(* Between calls of Execute no goroutine of an earlier turn is left that   *)
(* could close or write the next turn's stream.                            *)
QuietBetweenCalls ==
    main = "returned" => /\ engine.pc = "done" /\ kernel.pc = "done"
                         /\ fwd.pc = "done" /\ user = "done"

(* The kernel waits for room in an event channel that nothing reads.       *)
Stranded == kernel.pc = "send" /\ fwd.pc = "done" /\ main # "collect"

(* After the caller cancels, or the engine fails while the caller reads,   *)
(* the call returns, except where the kernel is stranded.                  *)
CallEnds ==
    /\ ctxDone ~> (main = "returned" \/ Stranded)
    /\ (engine.failed /\ reading) ~> (main = "returned" \/ ~reading \/ ctxDone)

(* Once its context ends Run returns, whatever the caller reads: what the  *)
(* comments on forwardCtx and on the cancellation branch say.              *)
CancelledRunReturns == (ctxDone /\ main # "returned") ~> (main = "returned")
=============================================================================
