---------------------------- MODULE StreamHandle ----------------------------
(***************************************************************************)
(* One stream subscription of polysim_polymarket: the bounded handle a      *)
(* consumer iterates (streams/_handle.py), the pump task that feeds it and  *)
(* the on_close callback that stops the pump (streams/_runner.py).          *)
(*                                                                         *)
(* All of it runs on one asyncio loop.  A step of a task runs up to its     *)
(* next await, so an action is one such step, and the loop that pushes the  *)
(* events of a frame, which never awaits, is a run of Push steps that no    *)
(* other action may interrupt (LoopFree).                                   *)
(*                                                                         *)
(* An event is its position in the order the adapter produced it: 1, 2, ... *)
(***************************************************************************)
EXTENDS Naturals, Sequences

CONSTANTS
    Consumers,    (* tasks that call __anext__                              *)
    Closers,      (* tasks that call close() (or leave the async with)      *)
    Cancellable,  (* closers that may be cancelled while close() waits      *)
    QueueSize,    (* queue_size: slots of the asyncio.Queue                 *)
    MaxPerFrame,  (* bound: events the adapter makes of one frame           *)
    MaxEvents     (* bound: events the adapter makes in all                 *)

ASSUME HandleAssumption ==
    /\ QueueSize \in Nat \ {0}      (* __init__ raises ValueError otherwise *)
    /\ MaxPerFrame \in Nat
    /\ MaxEvents \in Nat
    /\ Cancellable \subseteq Closers

VARIABLES
    queue,       (* _queue: events, then possibly the end sentinel          *)
    ended,       (* _ended                                                  *)
    endError,    (* _end_error                                              *)
    dropped,     (* _dropped                                                *)
    terminated,  (* _terminated: the sentinel has been consumed             *)
    consumer,    (* what each consumer is doing, or how iteration ended     *)
    closing,     (* _closing: the task that runs _do_close                  *)
    closer,      (* what each caller of close() is doing, or got            *)
    pump,        (* the pump task                                           *)
    batch,       (* events of the current frame not yet pushed              *)
    source,      (* the async generator the pump iterates                   *)
    produced,    (* history: number of events handed to _push               *)
    delivered    (* history: events returned by __anext__, in order         *)

handleVars == <<queue, ended, endError, dropped>>
readerVars == <<terminated, consumer, delivered>>
closeVars  == <<closing, closer>>
pumpVars   == <<pump, batch, source, produced>>
vars == <<handleVars, readerVars, closeVars, pumpVars>>

End == 0                                   \* the _END sentinel
Event == Nat \ {0}
Outcome == {"none", "source", "adapter"}   \* who raised; "none" ends cleanly
Raised == {"stopped", "failed"}            \* StopAsyncIteration or the error

TypeOK ==
    /\ queue \in Seq(Nat) /\ Len(queue) <= QueueSize
    /\ ended \in BOOLEAN
    /\ endError \in Outcome
    /\ dropped \in Nat
    /\ terminated \in BOOLEAN
    /\ consumer \in [Consumers -> {"ready", "blocked"} \cup Raised]
    /\ closing \in {"none", "scheduled", "awaitPump", "awaitSource",
                    "done", "cancelled"}
    /\ closer \in [Closers -> {"idle", "awaiting", "returned", "cancelled"}]
    /\ pump \in {"running", "cancelling", "done"}
    /\ batch \in Nat
    /\ source \in {"open", "closed"}
    /\ produced \in Nat
    /\ delivered \in Seq(Event)

Init ==
    /\ queue = <<>> /\ ended = FALSE /\ endError = "none" /\ dropped = 0
    /\ terminated = FALSE
    /\ consumer = [c \in Consumers |-> "ready"]
    /\ delivered = <<>>
    /\ closing = "none"
    /\ closer = [k \in Closers |-> "idle"]
    /\ pump = "running" /\ batch = 0 /\ source = "open" /\ produced = 0

-----------------------------------------------------------------------------
(* The queue operations of the handle.  Both _push and _end evict the oldest *)
(* item, and count it, when there is no free slot.                           *)

Full(q) == Len(q) = QueueSize

(* Mutant: a full queue is not relieved before the put. *)
MakeRoomEvictsNothing(q) == q

(* Mutant: drop-newest instead of drop-oldest. *)
MakeRoomEvictsNewest(q) == IF Full(q) THEN SubSeq(q, 1, Len(q) - 1) ELSE q

MakeRoom(q) == IF Full(q) THEN Tail(q) ELSE q

Evicted(q) == IF Full(q) THEN 1 ELSE 0

PushEvent(e) ==
    /\ queue' = IF ended THEN queue ELSE Append(MakeRoom(queue), e)
    /\ dropped' = IF ended THEN dropped ELSE dropped + Evicted(queue)
    /\ UNCHANGED <<ended, endError>>

(* Mutant: the event evicted for the sentinel is not counted. *)
EndHandleUncounted(error) ==
    IF ended
    THEN UNCHANGED handleVars
    ELSE /\ ended' = TRUE
         /\ endError' = error
         /\ queue' = Append(MakeRoom(queue), End)
         /\ UNCHANGED dropped

(* Mutant: _end without its early return. *)
EndHandleAgain(error) ==
    /\ ended' = TRUE
    /\ endError' = error
    /\ queue' = Append(MakeRoom(queue), End)
    /\ dropped' = dropped + Evicted(queue)

(* Mutant: QueueFull is swallowed and the sentinel lost. *)
EndHandleLosesSentinel(error) ==
    IF ended
    THEN UNCHANGED handleVars
    ELSE /\ ended' = TRUE
         /\ endError' = error
         /\ queue' = IF Full(queue) THEN queue ELSE Append(queue, End)
         /\ UNCHANGED dropped

EndHandle(error) ==
    IF ended
    THEN UNCHANGED handleVars
    ELSE /\ ended' = TRUE
         /\ endError' = error
         /\ queue' = Append(MakeRoom(queue), End)
         /\ dropped' = dropped + Evicted(queue)

LoopFree == batch = 0

-----------------------------------------------------------------------------
(* The pump task.  run_stream schedules its first step before close() can    *)
(* schedule anything and the loop is first-in first-out, so the pump waits   *)
(* in the source by the time any other task of the subscription runs.        *)

(* The source yields a frame the adapter turns into n events; a frame that   *)
(* is filtered out (n = 0) changes nothing.                                  *)
PumpFrame ==
    /\ LoopFree /\ pump = "running"
    /\ batch' \in 1..MaxPerFrame
    /\ produced + batch' <= MaxEvents
    /\ UNCHANGED <<handleVars, readerVars, closeVars, pump, source, produced>>

Push ==
    /\ batch > 0
    /\ batch' = batch - 1
    /\ produced' = produced + 1
    /\ PushEvent(produced + 1)
    /\ UNCHANGED <<readerVars, closeVars, pump, source>>

(* The generator is exhausted, or raises: it is finished either way. *)
PumpSourceEnds ==
    /\ LoopFree /\ pump = "running"
    /\ \E error \in {"none", "source"} : EndHandle(error)
    /\ pump' = "done" /\ source' = "closed"
    /\ UNCHANGED <<readerVars, closeVars, batch, produced>>

(* adapt() raises between two yields: the generator stays suspended. *)
PumpAdapterFails ==
    /\ LoopFree /\ pump = "running"
    /\ EndHandle("adapter")
    /\ pump' = "done"
    /\ UNCHANGED <<readerVars, closeVars, batch, source, produced>>

(* The CancelledError thrown at the pump's await runs through the source,   *)
(* whose clean-up may raise an error of its own in its place.               *)
PumpCancelled ==
    /\ LoopFree /\ pump = "cancelling"
    /\ EndHandle("source") \/ UNCHANGED handleVars
    /\ pump' = "done" /\ source' = "closed"
    /\ UNCHANGED <<readerVars, closeVars, batch, produced>>

-----------------------------------------------------------------------------
(* Consumers: __anext__. *)

CallsNext(c) == consumer[c] # "blocked" /\ ~terminated

NextBlocks(c) ==
    /\ LoopFree /\ CallsNext(c) /\ queue = <<>>
    /\ consumer' = [consumer EXCEPT ![c] = "blocked"]
    /\ UNCHANGED <<handleVars, terminated, delivered, closeVars, pumpVars>>

Gets(c) ==
    /\ LoopFree
    /\ CallsNext(c) \/ consumer[c] = "blocked"
    /\ queue # <<>>
    /\ queue' = Tail(queue)
    /\ UNCHANGED <<ended, endError, dropped, closeVars, pumpVars>>

NextEvent(c) ==
    /\ Gets(c) /\ Head(queue) # End
    /\ delivered' = Append(delivered, Head(queue))
    /\ consumer' = [consumer EXCEPT ![c] = "ready"]
    /\ UNCHANGED terminated

TerminalOutcome == IF endError = "none" THEN "stopped" ELSE "failed"

NextEnd(c) ==
    /\ Gets(c) /\ Head(queue) = End
    /\ terminated' = TRUE
    /\ consumer' = [consumer EXCEPT ![c] = TerminalOutcome]
    /\ UNCHANGED delivered

NextAfterEnd(c) ==
    /\ LoopFree /\ terminated /\ consumer[c] # "blocked"
    /\ consumer' = [consumer EXCEPT ![c] = TerminalOutcome]
    /\ UNCHANGED <<handleVars, terminated, delivered, closeVars, pumpVars>>

(* A timeout around __anext__ cancels the get(), which leaves the queue as   *)
(* it is.                                                                    *)
NextTimesOut(c) ==
    /\ LoopFree /\ consumer[c] = "blocked"
    /\ consumer' = [consumer EXCEPT ![c] = "ready"]
    /\ UNCHANGED <<handleVars, terminated, delivered, closeVars, pumpVars>>

-----------------------------------------------------------------------------
(* close(): every caller awaits the one task that runs _do_close. *)

Close(k) ==
    /\ LoopFree /\ closer[k] # "awaiting"
    /\ closing' = IF closing = "none" THEN "scheduled" ELSE closing
    /\ closer' = [closer EXCEPT ![k] = "awaiting"]
    /\ UNCHANGED <<handleVars, readerVars, pumpVars>>

CloserWakes(k) ==
    /\ LoopFree /\ closer[k] = "awaiting" /\ closing \in {"done", "cancelled"}
    /\ closer' = [closer EXCEPT
                    ![k] = IF closing = "done" THEN "returned" ELSE "cancelled"]
    /\ UNCHANGED <<handleVars, readerVars, closing, pumpVars>>

(* Mutant: _do_close relies on the pump to end the handle. *)
AcloseOrFinishWithoutEnd ==
    IF source = "open"
    THEN closing' = "awaitSource" /\ UNCHANGED <<handleVars, source>>
    ELSE closing' = "done" /\ source' = "closed" /\ UNCHANGED handleVars

(* aclose() of the source: a generator suspended at a yield has to unwind,   *)
(* one that is finished returns at once.                                     *)
AcloseOrFinish ==
    IF source = "open"
    THEN /\ closing' = "awaitSource"
         /\ UNCHANGED <<handleVars, source>>
    ELSE /\ closing' = "done" /\ source' = "closed"
         /\ EndHandle("none")

(* First step of the task when the pump still runs: request its cancellation *)
(* and wait for it.                                                          *)
CloseCancelsPump ==
    /\ LoopFree /\ closing = "scheduled" /\ pump = "running"
    /\ closing' = "awaitPump" /\ pump' = "cancelling"
    /\ UNCHANGED <<handleVars, readerVars, closer, batch, source, produced>>

(* The pump is over, before close() or because of it. *)
CloseAfterPump ==
    /\ LoopFree /\ closing \in {"scheduled", "awaitPump"} /\ pump = "done"
    /\ AcloseOrFinish
    /\ UNCHANGED <<readerVars, closer, pump, batch, produced>>

CloseAfterSource ==
    /\ LoopFree /\ closing = "awaitSource"
    /\ closing' = "done" /\ source' = "closed"
    /\ EndHandle("none")
    /\ UNCHANGED <<readerVars, closer, pump, batch, produced>>

(* Cancelling a caller cancels the task it awaits.  Before its first step    *)
(* the task dies without having run a line of _do_close.                     *)
CancelBeforeStart(k) ==
    /\ LoopFree /\ k \in Cancellable /\ closer[k] = "awaiting"
    /\ closing = "scheduled"
    /\ closing' = "cancelled"
    /\ UNCHANGED <<handleVars, readerVars, closer, pumpVars>>

(* While the source unwinds, the CancelledError is no Exception: suppress()  *)
(* lets it through and _end() is skipped.  (While the pump is awaited it is  *)
(* suppressed and changes nothing.)                                          *)
CancelDuringAclose(k) ==
    /\ LoopFree /\ k \in Cancellable /\ closer[k] = "awaiting"
    /\ closing = "awaitSource"
    /\ closing' = "cancelled" /\ source' = "closed"
    /\ UNCHANGED <<handleVars, readerVars, closer, pump, batch, produced>>

-----------------------------------------------------------------------------
PumpStep ==
    PumpFrame \/ Push \/ PumpSourceEnds \/ PumpAdapterFails \/ PumpCancelled

ConsumerStep(c) ==
    NextBlocks(c) \/ NextEvent(c) \/ NextEnd(c) \/ NextAfterEnd(c)
        \/ NextTimesOut(c)

CloserStep(k) ==
    Close(k) \/ CloserWakes(k) \/ CancelBeforeStart(k) \/ CancelDuringAclose(k)

ClosingStep == CloseCancelsPump \/ CloseAfterPump \/ CloseAfterSource

Next ==
    \/ PumpStep
    \/ \E c \in Consumers : ConsumerStep(c)
    \/ \E k \in Closers : CloserStep(k)
    \/ ClosingStep

Spec == Init /\ [][Next]_vars

(* The loop runs every ready task, an iterating consumer keeps calling       *)
(* __anext__, and the clean-up of a source ends.  Frames, errors, timeouts   *)
(* and calls of close() are the environment's and are not fair.              *)
Fairness ==
    /\ WF_vars(Push) /\ WF_vars(PumpCancelled)
    /\ WF_vars(ClosingStep)
    /\ \A c \in Consumers :
        WF_vars(NextEvent(c) \/ NextEnd(c) \/ NextAfterEnd(c))
    /\ \A k \in Closers : WF_vars(CloserWakes(k))

FairSpec == Spec /\ Fairness
-----------------------------------------------------------------------------
(* Safety. *)

EndQueued == ended /\ ~terminated

QueuedEvents == Len(queue) - (IF EndQueued THEN 1 ELSE 0)

(* The sentinel is in the queue from the end of the stream until a consumer  *)
(* takes it, once, and behind every event: nothing is pushed after it and a  *)
(* second _end (close() after the pump failed) adds no second one.           *)
EndIsLast ==
    /\ \A i \in 1..Len(queue) : queue[i] = End <=> (EndQueued /\ i = Len(queue))
    /\ EndQueued => queue # <<>>
    /\ terminated => ended /\ queue = <<>>

(* Drop-oldest: what waits in the queue is always the newest events, with no *)
(* gap, so that a slow consumer never sees an event more than queue_size old.*)
QueueHoldsNewest ==
    \A i \in 1..QueuedEvents : queue[i] = produced - QueuedEvents + i

(* Consumers get events in the order of the stream, each at most once, and   *)
(* never one that is still queued.                                           *)
DeliveredInOrder ==
    /\ \A i, j \in 1..Len(delivered) : i < j => delivered[i] < delivered[j]
    /\ \A i \in 1..Len(delivered) : delivered[i] <= produced - QueuedEvents

(* The dropped counter is exact: every event the adapter made was delivered, *)
(* is queued, or is counted.  None vanishes in the early return of _push.    *)
EveryLossCounted == produced = Len(delivered) + QueuedEvents + dropped

(* Together: what a slow consumer is owed by a queue that drops (_push).     *)
EventsAreKept == QueueHoldsNewest /\ DeliveredInOrder /\ EveryLossCounted

(* The pump goes first: the stream ends, and the source is unwound, only     *)
(* when the pump is over, so that no event follows the end; and a pump that  *)
(* is pushing the events of a frame is neither cancelled nor over.           *)
PumpGoesFirst ==
    /\ ended => pump = "done"
    /\ closing = "awaitSource" => pump = "done"
    /\ batch > 0 => pump = "running"

(* When the closing task ran to completion the handle is terminal, the pump  *)
(* is over and the source is closed: no leaked task or stream.               *)
CloseCompletes ==
    closing = "done" => ended /\ pump = "done" /\ source = "closed"

(* A consumer sees the outcome recorded first: an error of the source or of  *)
(* the adapter is never mistaken for a clean end, and no clean end for one.  *)
OutcomeIsHonest ==
    \A c \in Consumers :
        consumer[c] \in Raised => terminated /\ consumer[c] = TerminalOutcome

(* Together: the end of a stream, whoever brings it about and in whichever    *)
(* order a failure, an exhausted source and close() meet (_end, _do_close).  *)
EndsAsRecorded ==
    EndIsLast /\ PumpGoesFirst /\ CloseCompletes /\ OutcomeIsHonest

(* The first outcome stands: a close() after a failure does not mask it.     *)
FirstOutcomeStands ==
    [][ended => ended' /\ endError' = endError]_<<ended, endError>>

-----------------------------------------------------------------------------
(* Liveness, under FairSpec. *)

(* close() does not hang: the closing task finishes and frees every caller.  *)
CloseReturns ==
    \A k \in Closers : closer[k] = "awaiting" ~> closer[k] # "awaiting"

(* A close() whose task got to run releases a consumer that is blocked on an *)
(* empty queue.  It releases one: the sentinel is single, and of two blocked *)
(* consumers the other goes on waiting.                                      *)
CloseReleasesConsumer ==
    closing \in {"awaitPump", "awaitSource", "done"}
        ~> \E c \in Consumers : consumer[c] \in Raised

(* Together: close() ends the wait of those who called it and of the reader.  *)
CloseReleases == CloseReturns /\ CloseReleasesConsumer

(* _handle.py:151, "close() must always leave the handle terminal": refuted  *)
(* when the caller is cancelled before the closing task's first step.        *)
CloseLeavesTerminal == closing \in {"done", "cancelled"} => ended
-----------------------------------------------------------------------------
(* Refinement: the handle, its pump and close() give the consumer what       *)
(* LossyStream promises.                                                     *)

Promise == INSTANCE LossyStream WITH
    Size     <- QueueSize,
    next     <- (produced + 1) - QueuedEvents,
    received <- delivered,
    lost     <- dropped,
    outcome  <- IF ended THEN endError ELSE "open",
    told     <- terminated

(* Whatever frames, failures, timeouts, close() and cancellations do, what   *)
(* the subscription queues, evicts and delivers is what the promise allows.  *)
RefinesLossyStream == Promise!Spec

(* With consumers that keep iterating, what waits is also received, and then *)
(* the outcome, once.                                                        *)
ImplementsPromise == Promise!FairSpec
=============================================================================
