------------------------- MODULE StreamHandleProofs -------------------------
(***************************************************************************)
(* Proofs about StreamHandle, for every set of consumers and closers, every *)
(* queue size and every bound.                                              *)
(***************************************************************************)
EXTENDS StreamHandle, TLAPS

(***************************************************************************)
(* What the handle needs to know of sequences.                              *)
(***************************************************************************)

(* MakeRoom leaves a free slot, evicts at most the oldest item, and keeps    *)
(* the others in place.                                                      *)
LEMMA MakeRoomFacts ==
    ASSUME NEW q \in Seq(Nat), Len(q) <= QueueSize
    PROVE  /\ MakeRoom(q) \in Seq(Nat)
           /\ Evicted(q) \in {0, 1}
           /\ Evicted(q) <= Len(q)
           /\ Len(MakeRoom(q)) = Len(q) - Evicted(q)
           /\ Len(MakeRoom(q)) < QueueSize
           /\ \A i \in 1..Len(MakeRoom(q)) :
                 MakeRoom(q)[i] = q[i + Evicted(q)]
<1>1. Len(q) \in Nat /\ QueueSize \in Nat \ {0}
    BY HandleAssumption
<1>2. CASE Full(q)
    <2>1. q # <<>> /\ Len(q) = QueueSize /\ Len(q) > 0
        BY <1>1, <1>2 DEF Full
    <2>2. Tail(q) \in Seq(Nat) /\ Len(Tail(q)) = Len(q) - 1
        BY <2>1
    <2>3. \A i \in 1..Len(Tail(q)) : Tail(q)[i] = q[i + 1]
        BY <2>1, <2>2
    <2>4. MakeRoom(q) = Tail(q) /\ Evicted(q) = 1
        BY <1>2 DEF MakeRoom, Evicted
    <2>5. QED
        BY <1>1, <2>1, <2>2, <2>3, <2>4
<1>3. CASE ~Full(q)
    <2>1. MakeRoom(q) = q /\ Evicted(q) = 0
        BY <1>3 DEF MakeRoom, Evicted
    <2>2. QED
        BY <1>1, <1>3, <2>1 DEF Full
<1>4. QED
    BY <1>2, <1>3

(* Append and Tail, element by element. *)
LEMMA AppendFacts ==
    ASSUME NEW S, NEW q \in Seq(S), NEW e \in S
    PROVE  /\ Append(q, e) \in Seq(S)
           /\ Len(Append(q, e)) = Len(q) + 1
           /\ \A i \in 1..Len(q) : Append(q, e)[i] = q[i]
           /\ Append(q, e)[Len(q) + 1] = e
    OBVIOUS

LEMMA TailFacts ==
    ASSUME NEW q \in Seq(Nat), q # <<>>
    PROVE  /\ Head(q) \in Nat /\ Head(q) = q[1]
           /\ Len(q) > 0
           /\ Tail(q) \in Seq(Nat)
           /\ Len(Tail(q)) = Len(q) - 1
           /\ \A i \in 1..Len(Tail(q)) : Tail(q)[i] = q[i + 1]
    OBVIOUS

-----------------------------------------------------------------------------
(* The inductive invariant: every safety property of the runs at once.       *)
IInv ==
    /\ TypeOK
    /\ EndIsLast
    /\ QueueHoldsNewest
    /\ DeliveredInOrder
    /\ EveryLossCounted
    /\ PumpGoesFirst
    /\ CloseCompletes
    /\ OutcomeIsHonest

(* The part of it that speaks of the queue and its history.                  *)
QueueInv ==
    /\ queue \in Seq(Nat) /\ Len(queue) <= QueueSize
    /\ dropped \in Nat
    /\ EndIsLast
    /\ QueueHoldsNewest
    /\ DeliveredInOrder
    /\ EveryLossCounted

(* Item i of the queue before the end is an event, and there is no other.    *)
LEMMA QueuedEventsType ==
    ASSUME TypeOK, EndIsLast
    PROVE  /\ QueuedEvents \in Nat
           /\ QueuedEvents <= Len(queue)
           /\ ~EndQueued => QueuedEvents = Len(queue)
           /\ EndQueued => QueuedEvents = Len(queue) - 1
    BY DEF TypeOK, EndIsLast, QueuedEvents, EndQueued

(* _end: whether it ends the handle or returns early, the queue stays sound. *)
LEMMA EndHandleKeepsQueue ==
    ASSUME IInv, NEW error \in Outcome, EndHandle(error),
           UNCHANGED <<terminated, delivered, produced>>
    PROVE  /\ QueueInv'
           /\ ended' = TRUE /\ endError' \in Outcome
           /\ ended => UNCHANGED <<endError, dropped>> /\ QueuedEvents' = QueuedEvents
           /\ ~ended => /\ endError' = error
                       /\ QueuedEvents = Len(queue)
                       /\ QueuedEvents' = QueuedEvents - Evicted(queue)
                       /\ dropped' = dropped + Evicted(queue)
<1> USE DEF IInv
<1>1. CASE ended
    BY <1>1 DEF EndHandle, QueueInv, TypeOK, EndIsLast, QueueHoldsNewest,
        DeliveredInOrder, EveryLossCounted, handleVars, QueuedEvents, EndQueued
<1>2. CASE ~ended
    <2> DEFINE r == MakeRoom(queue)
               x == Evicted(queue)
    <2>1. /\ ended' = TRUE /\ endError' = error
          /\ queue' = Append(r, End)
          /\ dropped' = dropped + x
        BY <1>2 DEF EndHandle
    <2>2. ~terminated /\ ~terminated'
        BY <1>2 DEF EndIsLast
    <2>3. /\ queue \in Seq(Nat) /\ Len(queue) \in Nat
          /\ dropped \in Nat /\ produced \in Nat
          /\ Len(delivered) \in Nat
          /\ \A i \in 1..Len(delivered) : delivered[i] \in Nat
        BY DEF TypeOK, Event
    <2>4. /\ r \in Seq(Nat) /\ Len(r) \in Nat /\ Len(r) < QueueSize
          /\ x \in Nat /\ x <= Len(queue) /\ Len(r) = Len(queue) - x
          /\ \A i \in 1..Len(r) : r[i] = queue[i + x]
        <3>1. Len(queue) <= QueueSize
            BY DEF TypeOK
        <3>2. x \in {0, 1} /\ x <= Len(queue) /\ Len(r) = Len(queue) - x
            BY <2>3, <3>1, MakeRoomFacts
        <3>3. r \in Seq(Nat) /\ Len(r) < QueueSize
            BY <2>3, <3>1, MakeRoomFacts
        <3>4. \A i \in 1..Len(r) : r[i] = queue[i + x]
            BY <2>3, <3>1, MakeRoomFacts
        <3> HIDE DEF r, x
        <3>5. QED
            BY <3>2, <3>3, <3>4
    <2> HIDE DEF r, x
    <2>5. /\ queue' \in Seq(Nat) /\ Len(queue') = Len(r) + 1
          /\ \A i \in 1..Len(r) : queue'[i] = r[i]
          /\ queue'[Len(r) + 1] = End
        BY <2>1, <2>4, AppendFacts DEF End
    <2>6. QueuedEvents = Len(queue) /\ QueuedEvents' = Len(r)
        BY <1>2, <2>1, <2>2, <2>3, <2>4, <2>5 DEF QueuedEvents, EndQueued
    <2>7. \A i \in 1..Len(r) : i + x \in 1..Len(queue)
        BY <2>3, <2>4
    <2>8. EndIsLast'
        <3>1. \A i \in 1..Len(queue) : queue[i] # End
            BY <1>2 DEF EndIsLast, EndQueued
        <3>2. \A i \in 1..Len(r) : queue'[i] # End
            BY <2>4, <2>5, <2>7, <3>1
        <3>3. EndQueued' /\ queue' # <<>>
            BY <2>1, <2>2, <2>4, <2>5 DEF EndQueued
        <3>4. \A i \in 1..Len(queue') : queue'[i] = End <=> i = Len(queue')
            <4>1. \A i \in 1..Len(queue') : i \in 1..Len(r) \/ i = Len(r) + 1
                BY <2>4, <2>5
            <4>2. Len(queue') \notin 1..Len(r)
                BY <2>4, <2>5
            <4>3. QED
                BY <2>5, <3>2, <4>1, <4>2
        <3>5. QED
            BY <2>2, <3>3, <3>4 DEF EndIsLast
    <2>9. QueueHoldsNewest'
        <3>1. \A i \in 1..Len(queue) : queue[i] = produced - Len(queue) + i
            BY <2>6 DEF QueueHoldsNewest
        <3>2. \A i \in 1..Len(r) : queue'[i] = produced - Len(queue) + (i + x)
            BY <2>4, <2>5, <2>7, <3>1
        <3>3. \A i \in 1..Len(r) : queue'[i] = produced' - Len(r) + i
            BY <2>3, <2>4, <3>2
        <3>4. QED
            BY <2>6, <3>3 DEF QueueHoldsNewest
    <2>10. DeliveredInOrder'
        BY <2>3, <2>4, <2>6 DEF DeliveredInOrder
    <2>11. EveryLossCounted'
        BY <2>1, <2>3, <2>4, <2>6 DEF EveryLossCounted
    <2>12. QED
        BY <1>2, <2>1, <2>3, <2>4, <2>5, <2>6, <2>8, <2>9, <2>10, <2>11,
            HandleAssumption DEF QueueInv, x
<1>3. QED
    BY <1>1, <1>2

(* A push on a live handle: room is made, and the newest event is last.      *)
LEMMA PushKeepsQueue ==
    ASSUME IInv, ~ended, PushEvent(produced + 1), produced' = produced + 1,
           UNCHANGED <<terminated, delivered>>
    PROVE  /\ QueueInv' /\ UNCHANGED <<ended, endError>>
           /\ QueuedEvents = Len(queue)
           /\ QueuedEvents' = QueuedEvents - Evicted(queue) + 1
           /\ dropped' = dropped + Evicted(queue)
<1> USE DEF IInv
<1> DEFINE r == MakeRoom(queue)
           x == Evicted(queue)
<1>1. /\ queue' = Append(r, produced + 1)
      /\ dropped' = dropped + x
      /\ ended' = ended /\ endError' = endError
    BY DEF PushEvent
<1>2. ~terminated /\ ~terminated'
    BY DEF EndIsLast
<1>3. /\ queue \in Seq(Nat) /\ Len(queue) \in Nat
      /\ dropped \in Nat /\ produced \in Nat
      /\ Len(delivered) \in Nat
      /\ \A i \in 1..Len(delivered) : delivered[i] \in Nat
    BY DEF TypeOK, Event
<1>4. /\ r \in Seq(Nat) /\ Len(r) \in Nat /\ Len(r) < QueueSize
      /\ x \in Nat /\ x <= Len(queue) /\ Len(r) = Len(queue) - x
      /\ \A i \in 1..Len(r) : r[i] = queue[i + x]
    <2>1. Len(queue) <= QueueSize
        BY DEF TypeOK
    <2>2. x \in {0, 1} /\ x <= Len(queue) /\ Len(r) = Len(queue) - x
        BY <1>3, <2>1, MakeRoomFacts
    <2>3. r \in Seq(Nat) /\ Len(r) < QueueSize
        BY <1>3, <2>1, MakeRoomFacts
    <2>4. \A i \in 1..Len(r) : r[i] = queue[i + x]
        BY <1>3, <2>1, MakeRoomFacts
    <2> HIDE DEF r, x
    <2>5. QED
        BY <2>2, <2>3, <2>4
<1> HIDE DEF r, x
<1>5. /\ queue' \in Seq(Nat) /\ Len(queue') = Len(r) + 1
      /\ \A i \in 1..Len(r) : queue'[i] = r[i]
      /\ queue'[Len(r) + 1] = produced + 1
    <2>1. produced + 1 \in Nat
        BY <1>3
    <2>2. QED
        BY <1>1, <1>4, <2>1, AppendFacts
<1>6. QueuedEvents = Len(queue) /\ QueuedEvents' = Len(r) + 1
    BY <1>1, <1>2, <1>3, <1>4, <1>5 DEF QueuedEvents, EndQueued
<1>7. \A i \in 1..Len(r) : i + x \in 1..Len(queue)
    BY <1>3, <1>4
<1>8. \A i \in 1..Len(queue') : i \in 1..Len(r) \/ i = Len(r) + 1
    BY <1>4, <1>5
<1>9. EndIsLast'
    <2>1. \A i \in 1..Len(queue) : queue[i] # End
        BY DEF EndIsLast, EndQueued
    <2>2. \A i \in 1..Len(r) : queue'[i] # End
        BY <1>4, <1>5, <1>7, <2>1
    <2>3. queue'[Len(r) + 1] # End
        BY <1>3, <1>5 DEF End
    <2>4. \A i \in 1..Len(queue') : queue'[i] # End
        BY <1>8, <2>2, <2>3
    <2>5. QED
        BY <1>1, <1>2, <2>4 DEF EndIsLast, EndQueued
<1>10. QueueHoldsNewest'
    <2>1. \A i \in 1..Len(queue) : queue[i] = produced - Len(queue) + i
        BY <1>6 DEF QueueHoldsNewest
    <2>2. \A i \in 1..Len(r) : queue'[i] = produced - Len(queue) + (i + x)
        BY <1>4, <1>5, <1>7, <2>1
    <2>3. \A i \in 1..Len(r) : queue'[i] = produced' - (Len(r) + 1) + i
        BY <1>3, <1>4, <2>2
    <2>4. queue'[Len(r) + 1] = produced' - (Len(r) + 1) + (Len(r) + 1)
        BY <1>3, <1>4, <1>5
    <2>5. \A i \in 1..(Len(r) + 1) : queue'[i] = produced' - (Len(r) + 1) + i
        BY <1>5, <1>8, <2>3, <2>4
    <2>6. QED
        BY <1>6, <2>5 DEF QueueHoldsNewest
<1>11. DeliveredInOrder'
    BY <1>3, <1>4, <1>6 DEF DeliveredInOrder
<1>12. EveryLossCounted'
    BY <1>1, <1>3, <1>4, <1>6 DEF EveryLossCounted
<1>13. QED
    BY <1>1, <1>3, <1>4, <1>5, <1>6, <1>9, <1>10, <1>11, <1>12,
        HandleAssumption DEF QueueInv, x

(* __anext__ takes an event: the oldest one waiting is the next delivered.   *)
LEMMA NextEventKeepsQueue ==
    ASSUME IInv, queue # <<>>, Head(queue) # End, queue' = Tail(queue),
           delivered' = Append(delivered, Head(queue)),
           UNCHANGED <<ended, dropped, terminated, produced>>
    PROVE  /\ QueueInv' /\ delivered' \in Seq(Event)
           /\ QueuedEvents \in Nat \ {0} /\ QueuedEvents' = QueuedEvents - 1
           /\ Head(queue) = produced - QueuedEvents + 1
<1> USE DEF IInv
<1>1. /\ queue \in Seq(Nat) /\ Len(queue) \in Nat /\ Len(queue) <= QueueSize
      /\ dropped \in Nat /\ produced \in Nat
      /\ delivered \in Seq(Event) /\ Len(delivered) \in Nat
      /\ \A i \in 1..Len(delivered) : delivered[i] \in Nat
    BY DEF TypeOK, Event
<1>2. ~terminated /\ ~terminated'
    BY DEF EndIsLast
<1>3. /\ Head(queue) = queue[1] /\ Head(queue) \in Nat /\ Len(queue) > 0
      /\ queue' \in Seq(Nat) /\ Len(queue') = Len(queue) - 1
      /\ \A i \in 1..Len(queue') : queue'[i] = queue[i + 1]
    BY <1>1, TailFacts
<1>4. /\ Len(delivered') = Len(delivered) + 1
      /\ \A i \in 1..Len(delivered) : delivered'[i] = delivered[i]
      /\ delivered'[Len(delivered) + 1] = queue[1]
      /\ delivered' \in Seq(Event)
    BY <1>1, <1>3, AppendFacts DEF Event, End
<1>5. 1 \in 1..Len(queue) /\ (EndQueued => Len(queue) # 1)
    <2>1. 1 \in 1..Len(queue) /\ queue[1] # End
        BY <1>1, <1>3
    <2>2. QED
        BY <2>1 DEF EndIsLast
<1>6. /\ QueuedEvents \in Nat /\ 1 \in 1..QueuedEvents
      /\ QueuedEvents <= Len(queue) /\ QueuedEvents' = QueuedEvents - 1
    BY <1>1, <1>3, <1>5 DEF QueuedEvents, EndQueued
<1>7. queue[1] = produced - QueuedEvents + 1
    BY <1>6 DEF QueueHoldsNewest
<1>8. EndIsLast'
    <2>1. \A i \in 1..Len(queue') : i + 1 \in 1..Len(queue)
        BY <1>1, <1>3
    <2>2. \A i \in 1..Len(queue') :
             queue'[i] = End <=> (EndQueued /\ i + 1 = Len(queue))
        BY <1>3, <2>1 DEF EndIsLast
    <2>3. EndQueued' = EndQueued
        BY DEF EndQueued
    <2>4. \A i \in 1..Len(queue') : i + 1 = Len(queue) <=> i = Len(queue')
        BY <1>1, <1>3
    <2>5. EndQueued => queue' # <<>>
        <3>1. Len(queue) # 1 => Len(queue') > 0
            BY <1>1, <1>3
        <3>2. Len(queue') > 0 => queue' # <<>>
            OBVIOUS
        <3>3. QED
            BY <1>5, <3>1, <3>2
    <2>6. QED
        BY <1>2, <2>2, <2>3, <2>4, <2>5 DEF EndIsLast
<1>9. QueueHoldsNewest'
    <2>1. \A i \in 1..QueuedEvents' :
             i \in 1..Len(queue') /\ i + 1 \in 1..QueuedEvents
        BY <1>1, <1>3, <1>6
    <2>2. \A i \in 1..QueuedEvents' : queue'[i] = produced - QueuedEvents + (i + 1)
        BY <1>3, <2>1 DEF QueueHoldsNewest
    <2>3. \A i \in 1..QueuedEvents' : queue'[i] = produced' - QueuedEvents' + i
        BY <1>1, <1>6, <2>2
    <2>4. QED
        BY <2>3 DEF QueueHoldsNewest
<1>10. DeliveredInOrder'
    <2>1. \A i \in 1..Len(delivered') : i \in 1..Len(delivered) \/ i = Len(delivered) + 1
        BY <1>1, <1>4
    <2>2. \A i \in 1..Len(delivered) : delivered'[i] < queue[1]
        BY <1>1, <1>4, <1>6, <1>7 DEF DeliveredInOrder
    <2>3. delivered'[Len(delivered) + 1] <= produced' - QueuedEvents'
        BY <1>1, <1>4, <1>6, <1>7
    <2>4. \A i \in 1..Len(delivered') : delivered'[i] <= produced' - QueuedEvents'
        BY <1>1, <1>4, <1>6, <1>7, <2>1, <2>2, <2>3
    <2>5. \A i, j \in 1..Len(delivered') : i < j => delivered'[i] < delivered'[j]
        <3> SUFFICES ASSUME NEW i \in 1..Len(delivered'),
                            NEW j \in 1..Len(delivered'), i < j
                     PROVE  delivered'[i] < delivered'[j]
            OBVIOUS
        <3>1. i \in 1..Len(delivered)
            BY <1>1, <1>4
        <3>2. CASE j \in 1..Len(delivered)
            BY <1>4, <3>1, <3>2 DEF DeliveredInOrder
        <3>3. CASE j = Len(delivered) + 1
            BY <1>4, <2>2, <3>1, <3>3
        <3>4. QED
            BY <2>1, <3>2, <3>3
    <2>6. QED
        BY <2>4, <2>5 DEF DeliveredInOrder
<1>11. EveryLossCounted'
    BY <1>1, <1>4, <1>6 DEF EveryLossCounted
<1>12. QED
    BY <1>1, <1>3, <1>4, <1>6, <1>7, <1>8, <1>9, <1>10, <1>11,
        HandleAssumption DEF QueueInv

(* __anext__ takes the sentinel: it was the only item left.                  *)
LEMMA NextEndKeepsQueue ==
    ASSUME IInv, queue # <<>>, Head(queue) = End, queue' = Tail(queue),
           terminated', UNCHANGED <<ended, dropped, produced, delivered>>
    PROVE  QueueInv' /\ ended /\ QueuedEvents = 0 /\ QueuedEvents' = 0
<1> USE DEF IInv
<1>1. /\ queue \in Seq(Nat) /\ Len(queue) \in Nat /\ Len(queue) <= QueueSize
      /\ dropped \in Nat /\ produced \in Nat /\ Len(delivered) \in Nat
    BY DEF TypeOK
<1>2. /\ Head(queue) = queue[1] /\ Len(queue) > 0
      /\ queue' \in Seq(Nat) /\ Len(queue') = Len(queue) - 1
    BY <1>1, TailFacts
<1>3. EndQueued /\ Len(queue) = 1
    <2>1. 1 \in 1..Len(queue) /\ queue[1] = End
        BY <1>1, <1>2
    <2>2. QED
        BY <2>1 DEF EndIsLast
<1>4. queue' = <<>> /\ Len(queue') = 0
    BY <1>1, <1>2, <1>3
<1>5. QueuedEvents = 0 /\ QueuedEvents' = 0
    BY <1>3, <1>4 DEF QueuedEvents, EndQueued
<1>6. ended /\ ended'
    BY <1>3 DEF EndQueued
<1>7. EndIsLast'
    BY <1>4, <1>6 DEF EndIsLast, EndQueued
<1>8. QueueHoldsNewest' /\ EveryLossCounted' /\ DeliveredInOrder'
    BY <1>1, <1>5 DEF QueueHoldsNewest, EveryLossCounted, DeliveredInOrder
<1>9. QED
    BY <1>1, <1>2, <1>4, <1>5, <1>6, <1>7, <1>8, HandleAssumption DEF QueueInv

(* What does not touch the queue and its history keeps the queue sound.      *)
LEMMA UnchangedKeepsQueue ==
    ASSUME IInv, UNCHANGED <<queue, ended, dropped, terminated, produced, delivered>>
    PROVE  QueueInv'
    BY DEF IInv, TypeOK, QueueInv, EndIsLast, QueueHoldsNewest, DeliveredInOrder,
        EveryLossCounted, QueuedEvents, EndQueued

-----------------------------------------------------------------------------
(* The part of the invariant that speaks of the tasks.                       *)
TaskInv ==
    /\ ended \in BOOLEAN /\ endError \in Outcome /\ terminated \in BOOLEAN
    /\ consumer \in [Consumers -> {"ready", "blocked"} \cup Raised]
    /\ closing \in {"none", "scheduled", "awaitPump", "awaitSource",
                    "done", "cancelled"}
    /\ closer \in [Closers -> {"idle", "awaiting", "returned", "cancelled"}]
    /\ pump \in {"running", "cancelling", "done"}
    /\ batch \in Nat
    /\ source \in {"open", "closed"}
    /\ produced \in Nat
    /\ delivered \in Seq(Event)
    /\ PumpGoesFirst
    /\ CloseCompletes
    /\ OutcomeIsHonest

LEMMA Parts ==
    /\ IInv <=> QueueInv /\ TaskInv
    /\ IInv' <=> QueueInv' /\ TaskInv'
    BY DEF IInv, TypeOK, QueueInv, TaskInv

LEMMA PumpKeepsInv ==
    ASSUME IInv, PumpStep
    PROVE  IInv'
<1>1. QueueInv /\ TaskInv
    BY Parts
<1> SUFFICES QueueInv' /\ TaskInv'
    BY Parts
<1>2. CASE PumpFrame
    <2>1. batch' \in Nat
        BY <1>2 DEF PumpFrame
    <2>2. UNCHANGED <<queue, ended, endError, dropped, terminated, consumer,
                      delivered, closing, closer, pump, source, produced>>
        BY <1>2 DEF PumpFrame, handleVars, readerVars, closeVars
    <2>3. pump = "running"
        BY <1>2 DEF PumpFrame
    <2>4. QED
        BY <1>1, <2>1, <2>2, <2>3, UnchangedKeepsQueue
            DEF TaskInv, PumpGoesFirst, CloseCompletes, OutcomeIsHonest,
                TerminalOutcome
<1>3. CASE Push
    <2>1. ~ended /\ pump = "running" /\ batch' \in Nat /\ produced' \in Nat
        BY <1>1, <1>3 DEF Push, TaskInv, PumpGoesFirst
    <2>2. UNCHANGED <<terminated, consumer, delivered, closing, closer, pump,
                      source>>
        BY <1>3 DEF Push, readerVars, closeVars
    <2>3. PushEvent(produced + 1) /\ produced' = produced + 1
        BY <1>3 DEF Push
    <2>4. QueueInv' /\ UNCHANGED <<ended, endError>>
        BY <2>1, <2>2, <2>3, PushKeepsQueue
    <2>5. QED
        BY <1>1, <2>1, <2>2, <2>4
            DEF TaskInv, PumpGoesFirst, CloseCompletes, OutcomeIsHonest,
                TerminalOutcome
<1>4. ASSUME NEW error \in Outcome, EndHandle(error) \/ UNCHANGED handleVars,
             LoopFree, pump' = "done", source' \in {"closed", source},
             UNCHANGED <<readerVars, closeVars, batch, produced>>,
             closing # "done"
      PROVE  QueueInv' /\ TaskInv'
    <2>1. UNCHANGED <<terminated, consumer, delivered, closing, closer, batch,
                      produced>>
        BY <1>4 DEF readerVars, closeVars
    <2>2. /\ QueueInv' /\ ended' \in BOOLEAN /\ endError' \in Outcome
          /\ ended => ended' /\ endError' = endError
        <3>1. CASE EndHandle(error)
            BY <2>1, <3>1, EndHandleKeepsQueue
        <3>2. CASE UNCHANGED handleVars
            BY <1>1, <2>1, <3>2, UnchangedKeepsQueue DEF handleVars, TaskInv
        <3>3. QED
            BY <1>4, <3>1, <3>2
    <2>3. terminated => ended
        BY DEF IInv, EndIsLast
    <2>4. OutcomeIsHonest'
        BY <1>1, <2>1, <2>2, <2>3 DEF TaskInv, OutcomeIsHonest, TerminalOutcome
    <2>5. PumpGoesFirst' /\ CloseCompletes'
        BY <1>1, <1>4, <2>1 DEF LoopFree, TaskInv, PumpGoesFirst, CloseCompletes
    <2>6. QED
        BY <1>1, <1>4, <2>1, <2>2, <2>4, <2>5 DEF TaskInv
<1>5. "none" \in Outcome /\ "source" \in Outcome /\ "adapter" \in Outcome
    BY DEF Outcome
<1>6. pump \in {"running", "cancelling"} => closing # "done"
    BY <1>1 DEF TaskInv, CloseCompletes
<1>7. CASE PumpSourceEnds
    BY <1>4, <1>5, <1>6, <1>7 DEF PumpSourceEnds
<1>8. CASE PumpAdapterFails
    BY <1>4, <1>5, <1>6, <1>8 DEF PumpAdapterFails
<1>9. CASE PumpCancelled
    BY <1>4, <1>5, <1>6, <1>9 DEF PumpCancelled
<1>10. QED
    BY <1>2, <1>3, <1>7, <1>8, <1>9 DEF PumpStep

LEMMA ConsumerKeepsInv ==
    ASSUME IInv, NEW c \in Consumers, ConsumerStep(c)
    PROVE  IInv'
<1>1. QueueInv /\ TaskInv
    BY Parts
<1> SUFFICES QueueInv' /\ TaskInv'
    BY Parts
<1> USE DEF Raised
<1>2. TerminalOutcome \in Raised
    BY DEF TerminalOutcome
<1>3. CASE NextBlocks(c) \/ NextTimesOut(c)
    <2>1. UNCHANGED <<queue, ended, endError, dropped, terminated, delivered,
                      closing, closer, pump, batch, source, produced>>
        BY <1>3 DEF NextBlocks, NextTimesOut, handleVars, closeVars, pumpVars
    <2>2. \E state \in {"ready", "blocked"} :
             consumer' = [consumer EXCEPT ![c] = state]
        BY <1>3 DEF NextBlocks, NextTimesOut
    <2>3. QED
        BY <1>1, <2>1, <2>2, UnchangedKeepsQueue
            DEF TaskInv, PumpGoesFirst, CloseCompletes, OutcomeIsHonest,
                TerminalOutcome
<1>4. CASE NextAfterEnd(c)
    <2>1. UNCHANGED <<queue, ended, endError, dropped, terminated, delivered,
                      closing, closer, pump, batch, source, produced>>
        BY <1>4 DEF NextAfterEnd, handleVars, closeVars, pumpVars
    <2>2. terminated /\ consumer' = [consumer EXCEPT ![c] = TerminalOutcome]
        BY <1>4 DEF NextAfterEnd
    <2>3. TerminalOutcome' = TerminalOutcome
        BY <2>1 DEF TerminalOutcome
    <2>4. QED
        BY <1>1, <1>2, <2>1, <2>2, <2>3, UnchangedKeepsQueue
            DEF TaskInv, PumpGoesFirst, CloseCompletes, OutcomeIsHonest
<1>5. CASE NextEvent(c)
    <2>1. UNCHANGED <<ended, endError, dropped, terminated, closing, closer,
                      pump, batch, source, produced>>
        BY <1>5 DEF NextEvent, Gets, closeVars, pumpVars
    <2>2. /\ queue # <<>> /\ Head(queue) # End /\ queue' = Tail(queue)
          /\ delivered' = Append(delivered, Head(queue))
          /\ consumer' = [consumer EXCEPT ![c] = "ready"]
        BY <1>5 DEF NextEvent, Gets
    <2>3. QueueInv' /\ delivered' \in Seq(Event)
        BY <2>1, <2>2, NextEventKeepsQueue
    <2>4. QED
        BY <1>1, <2>1, <2>2, <2>3
            DEF TaskInv, PumpGoesFirst, CloseCompletes, OutcomeIsHonest,
                TerminalOutcome
<1>6. CASE NextEnd(c)
    <2>1. UNCHANGED <<ended, endError, dropped, delivered, closing, closer,
                      pump, batch, source, produced>>
        BY <1>6 DEF NextEnd, Gets, closeVars, pumpVars
    <2>2. /\ queue # <<>> /\ Head(queue) = End /\ queue' = Tail(queue)
          /\ terminated' = TRUE
          /\ consumer' = [consumer EXCEPT ![c] = TerminalOutcome]
        BY <1>6 DEF NextEnd, Gets
    <2>3. QueueInv'
        BY <2>1, <2>2, NextEndKeepsQueue
    <2>4. TerminalOutcome' = TerminalOutcome
        BY <2>1 DEF TerminalOutcome
    <2>5. QED
        BY <1>1, <1>2, <2>1, <2>2, <2>3, <2>4
            DEF TaskInv, PumpGoesFirst, CloseCompletes, OutcomeIsHonest
<1>7. QED
    BY <1>3, <1>4, <1>5, <1>6 DEF ConsumerStep

LEMMA CloserKeepsInv ==
    ASSUME IInv, NEW k \in Closers, CloserStep(k)
    PROVE  IInv'
<1>1. QueueInv /\ TaskInv
    BY Parts
<1> SUFFICES QueueInv' /\ TaskInv'
    BY Parts
<1>2. UNCHANGED <<queue, ended, endError, dropped, terminated, consumer,
                  delivered, pump, batch, produced>>
    BY DEF CloserStep, Close, CloserWakes, CancelBeforeStart, CancelDuringAclose,
        handleVars, readerVars, pumpVars
<1>3. /\ closing' \in {closing, "scheduled", "cancelled"}
      /\ source' \in {source, "closed"}
      /\ closing' # closing => closing \in {"none", "scheduled", "awaitSource"}
      /\ source' # source => closing' = "cancelled"
    BY DEF CloserStep, Close, CloserWakes, CancelBeforeStart, CancelDuringAclose,
        pumpVars
<1>4. closer' \in [Closers -> {"idle", "awaiting", "returned", "cancelled"}]
    BY <1>1 DEF TaskInv, CloserStep, Close, CloserWakes, CancelBeforeStart,
        CancelDuringAclose
<1>5. OutcomeIsHonest'
    BY <1>1, <1>2 DEF TaskInv, OutcomeIsHonest, TerminalOutcome
<1>6. PumpGoesFirst' /\ CloseCompletes'
    BY <1>1, <1>2, <1>3 DEF TaskInv, PumpGoesFirst, CloseCompletes
<1>7. QED
    BY <1>1, <1>2, <1>3, <1>4, <1>5, <1>6, UnchangedKeepsQueue DEF TaskInv

LEMMA ClosingKeepsInv ==
    ASSUME IInv, ClosingStep
    PROVE  IInv'
<1>1. QueueInv /\ TaskInv
    BY Parts
<1> SUFFICES QueueInv' /\ TaskInv'
    BY Parts
<1>2. ASSUME UNCHANGED handleVars,
             UNCHANGED <<readerVars, closer, batch, source, produced>>,
             closing' \in {"awaitPump", "awaitSource"},
             LoopFree,
             \/ pump' = "done"
             \/ ~ended /\ pump' = "cancelling" /\ closing' = "awaitPump"
      PROVE  QueueInv' /\ TaskInv'
    <2>1. UNCHANGED <<queue, ended, endError, dropped, terminated, consumer,
                      delivered>>
        BY <1>2 DEF handleVars, readerVars
    <2>2. QueueInv'
        BY <1>2, <2>1, UnchangedKeepsQueue
    <2>3. OutcomeIsHonest'
        BY <1>1, <2>1 DEF TaskInv, OutcomeIsHonest, TerminalOutcome
    <2>4. PumpGoesFirst' /\ CloseCompletes'
        BY <1>1, <1>2, <2>1 DEF LoopFree, TaskInv, PumpGoesFirst, CloseCompletes
    <2>5. QED
        BY <1>1, <1>2, <2>1, <2>2, <2>3, <2>4 DEF TaskInv
<1>3. ASSUME EndHandle("none"), closing' = "done", source' = "closed",
             pump = "done", UNCHANGED <<readerVars, closer, pump, batch, produced>>
      PROVE  QueueInv' /\ TaskInv'
    <2>1. UNCHANGED <<terminated, consumer, delivered>>
        BY <1>3 DEF readerVars
    <2>2. "none" \in Outcome
        BY DEF Outcome
    <2>3. /\ QueueInv' /\ ended' = TRUE /\ endError' \in Outcome
          /\ ended => endError' = endError
        BY <1>3, <2>1, <2>2, EndHandleKeepsQueue
    <2>4. terminated => ended
        BY DEF IInv, EndIsLast
    <2>5. OutcomeIsHonest'
        BY <1>1, <2>1, <2>3, <2>4 DEF TaskInv, OutcomeIsHonest, TerminalOutcome
    <2>6. QED
        BY <1>1, <1>3, <2>1, <2>3, <2>5 DEF TaskInv, PumpGoesFirst, CloseCompletes
<1>4. CASE CloseCancelsPump
    <2>1. ~ended
        BY <1>1, <1>4 DEF CloseCancelsPump, TaskInv, PumpGoesFirst
    <2>2. QED
        BY <1>2, <1>4, <2>1 DEF CloseCancelsPump
<1>5. CASE CloseAfterPump
    BY <1>1, <1>2, <1>3, <1>5 DEF CloseAfterPump, AcloseOrFinish
<1>6. CASE CloseAfterSource
    <2>1. pump = "done"
        BY <1>1, <1>6 DEF CloseAfterSource, TaskInv, PumpGoesFirst
    <2>2. QED
        BY <1>3, <1>6, <2>1 DEF CloseAfterSource
<1>7. QED
    BY <1>4, <1>5, <1>6 DEF ClosingStep

-----------------------------------------------------------------------------
(* The invariant holds in every reachable state: types, and all the safety   *)
(* invariants of the subscription handle (streams/_handle.py, _runner.py).   *)
THEOREM SafetyTheorem == Spec => []IInv
<1>1. Init => IInv
    <2> SUFFICES ASSUME Init PROVE QueueInv /\ TaskInv
        BY Parts
    <2>1. QueuedEvents = 0 /\ Len(queue) = 0 /\ Len(delivered) = 0
        BY DEF Init, QueuedEvents, EndQueued
    <2>2. QueueInv
        BY <2>1, HandleAssumption
            DEF Init, QueueInv, EndIsLast, EndQueued, QueueHoldsNewest,
                DeliveredInOrder, EveryLossCounted
    <2>3. TaskInv
        <3>1. PumpGoesFirst /\ CloseCompletes /\ OutcomeIsHonest
            BY DEF Init, PumpGoesFirst, CloseCompletes, OutcomeIsHonest, Raised
        <3>2. consumer \in [Consumers -> {"ready", "blocked"} \cup Raised]
            BY DEF Init
        <3>3. closer \in [Closers -> {"idle", "awaiting", "returned", "cancelled"}]
            BY DEF Init
        <3>4. delivered \in Seq(Event)
            BY DEF Init
        <3>5. QED
            BY <3>1, <3>2, <3>3, <3>4 DEF Init, TaskInv, Outcome
    <2>4. QED
        BY <2>2, <2>3
<1>2. IInv /\ [Next]_vars => IInv'
    <2> SUFFICES ASSUME IInv, [Next]_vars
                 PROVE  IInv'
        OBVIOUS
    <2>1. CASE PumpStep
        BY <2>1, PumpKeepsInv
    <2>2. CASE \E c \in Consumers : ConsumerStep(c)
        BY <2>2, ConsumerKeepsInv
    <2>3. CASE \E k \in Closers : CloserStep(k)
        BY <2>3, CloserKeepsInv
    <2>4. CASE ClosingStep
        BY <2>4, ClosingKeepsInv
    <2>5. CASE UNCHANGED vars
        <3>1. UNCHANGED <<queue, ended, endError, dropped, terminated, consumer,
                delivered, closing, closer, pump, batch, source, produced>>
            BY <2>5 DEF vars, handleVars, readerVars, closeVars, pumpVars
        <3>2. TaskInv'
            BY <3>1, Parts DEF TaskInv, PumpGoesFirst, CloseCompletes,
                OutcomeIsHonest, TerminalOutcome
        <3>3. QED
            BY <3>1, <3>2, UnchangedKeepsQueue, Parts
    <2>6. QED
        BY <2>1, <2>2, <2>3, <2>4, <2>5 DEF Next
<1>3. QED
    BY <1>1, <1>2, PTL DEF Spec

(* Types, for every choice of the constants.                                 *)
THEOREM TypeCorrect == Spec => []TypeOK
    BY SafetyTheorem, PTL DEF IInv

(* The dropped counter is exact and no event is discarded in silence         *)
(* (_push and _end, streams/_handle.py).                                     *)
THEOREM NoSilentLoss == Spec => []EveryLossCounted
    BY SafetyTheorem, PTL DEF IInv

(* Drop-oldest keeps the newest events, without a gap (_push, _end).         *)
THEOREM NewestKept == Spec => []QueueHoldsNewest
    BY SafetyTheorem, PTL DEF IInv

(* Consumers receive events in order and at most once (__anext__).           *)
THEOREM OrderedDelivery == Spec => []DeliveredInOrder
    BY SafetyTheorem, PTL DEF IInv

(* One end sentinel, behind every event (_end, __anext__).                   *)
THEOREM EndOnceAndLast == Spec => []EndIsLast
    BY SafetyTheorem, PTL DEF IInv

(* The outcome a consumer sees is the one recorded (__anext__).              *)
THEOREM HonestOutcome == Spec => []OutcomeIsHonest
    BY SafetyTheorem, PTL DEF IInv

(* A closing task that ran to completion leaves a terminal handle, no pump   *)
(* and no open source (_do_close, on_close).                                 *)
THEOREM CleanClose == Spec => []CloseCompletes
    BY SafetyTheorem, PTL DEF IInv

(* What a slow consumer is owed by a queue that drops: the newest events, in  *)
(* order, and a count of the rest (_push, _end, __anext__).                  *)
THEOREM EventsKept == Spec => []EventsAreKept
    BY SafetyTheorem, PTL DEF IInv, EventsAreKept

(* The end of a stream is recorded once, after the last event and when the    *)
(* pump is over, and told as it was recorded (_end, _do_close, __anext__).   *)
THEOREM EndRecorded == Spec => []EndsAsRecorded
    BY SafetyTheorem, PTL DEF IInv, EndsAsRecorded

-----------------------------------------------------------------------------
(* Readers and callers of close() never touch how a handle has ended; the    *)
(* pump and the closing task do so through _end alone.                       *)
LEMMA EndStands ==
    ASSUME ended, Next
    PROVE  ended' /\ endError' = endError
<1> USE DEF handleVars
<1>1. ASSUME \/ \E c \in Consumers : ConsumerStep(c)
             \/ \E k \in Closers : CloserStep(k)
      PROVE  UNCHANGED <<ended, endError>>
    <2>1. CASE \E c \in Consumers : ConsumerStep(c)
        BY <2>1 DEF ConsumerStep, NextBlocks, NextEvent, NextEnd, NextAfterEnd,
            NextTimesOut, Gets
    <2>2. CASE \E k \in Closers : CloserStep(k)
        BY <2>2 DEF CloserStep, Close, CloserWakes, CancelBeforeStart,
            CancelDuringAclose
    <2>3. QED
        BY <1>1, <2>1, <2>2
<1>2. CASE ClosingStep
    BY <1>2 DEF ClosingStep, CloseCancelsPump, CloseAfterPump, CloseAfterSource,
        AcloseOrFinish, EndHandle
<1>3. CASE PumpStep
    BY <1>3 DEF PumpStep, PumpFrame, Push, PushEvent, PumpSourceEnds,
        PumpAdapterFails, PumpCancelled, EndHandle
<1>4. QED
    BY <1>1, <1>2, <1>3 DEF Next

(* The first outcome stands: _end returns early once the handle has ended.   *)
THEOREM OutcomeStands == Spec => FirstOutcomeStands
<1>1. [Next]_vars => [ended => ended' /\ endError' = endError]_<<ended, endError>>
    BY EndStands DEF vars, handleVars
<1>2. QED
    BY <1>1, PTL DEF Spec, FirstOutcomeStands

-----------------------------------------------------------------------------
(* Refinement, safety part: every step of the subscription is a step of the  *)
(* lossy stream, or does not concern it.                                     *)

MappedUnchanged ==
    UNCHANGED <<produced, QueuedEvents, delivered, dropped, ended, endError, terminated>>

LEMMA Stutters == MappedUnchanged => UNCHANGED Promise!vars
    BY DEF MappedUnchanged, Promise!vars

LEMMA RestUnchanged ==
    UNCHANGED <<handleVars, terminated, delivered, produced>> => MappedUnchanged
    BY DEF MappedUnchanged, handleVars, QueuedEvents, EndQueued

(* _end maps to Finish the first time, to nothing afterwards.                *)
LEMMA EndMaps ==
    ASSUME IInv, NEW error \in Outcome, EndHandle(error),
           UNCHANGED <<terminated, delivered, produced>>
    PROVE  [Promise!Next]_Promise!vars
<1>1. /\ queue \in Seq(Nat) /\ Len(queue) \in Nat /\ Len(queue) <= QueueSize
      /\ produced \in Nat /\ QueueSize \in Nat
    BY HandleAssumption DEF IInv, TypeOK
<1>2. CASE ended
    BY <1>2, RestUnchanged, Stutters DEF EndHandle
<1>3. CASE ~ended
    <2>1. /\ ended' /\ endError' = error /\ QueuedEvents = Len(queue)
          /\ QueuedEvents' = QueuedEvents - Evicted(queue)
          /\ dropped' = dropped + Evicted(queue)
        BY <1>3, EndHandleKeepsQueue
    <2>2. Promise!Waiting = Len(queue)
        BY <1>1, <2>1 DEF Promise!Waiting
    <2>3. Promise!Admit
        BY <1>1, <2>1, <2>2 DEF Promise!Admit, Evicted, Full, IInv, TypeOK
    <2>4. "open" \notin Outcome
        BY DEF Outcome
    <2>5. Promise!Finish
        BY <1>3, <2>1, <2>3, <2>4 DEF Promise!Finish
    <2>6. QED
        BY <2>5 DEF Promise!Next
<1>4. QED
    BY <1>2, <1>3

LEMMA StepMaps ==
    ASSUME IInv, [Next]_vars
    PROVE  [Promise!Next]_Promise!vars
<1>1. /\ queue \in Seq(Nat) /\ Len(queue) \in Nat /\ Len(queue) <= QueueSize
      /\ produced \in Nat /\ dropped \in Nat /\ QueueSize \in Nat
    BY HandleAssumption DEF IInv, TypeOK
<1> USE DEF readerVars, closeVars
<1>2. "none" \in Outcome /\ "source" \in Outcome /\ "adapter" \in Outcome
    BY DEF Outcome
<1>3. CASE PumpFrame
    BY <1>3, RestUnchanged, Stutters DEF PumpFrame
<1>4. CASE Push
    <2>1. ~ended /\ produced' = produced + 1
        BY <1>4 DEF Push, IInv, PumpGoesFirst
    <2>2. PushEvent(produced + 1) /\ UNCHANGED <<terminated, delivered>>
        BY <1>4 DEF Push
    <2>3. /\ UNCHANGED <<ended, endError>> /\ QueuedEvents = Len(queue)
          /\ QueuedEvents' = QueuedEvents - Evicted(queue) + 1
          /\ dropped' = dropped + Evicted(queue)
        BY <2>1, <2>2, PushKeepsQueue
    <2>4. Promise!Waiting = Len(queue)
        BY <1>1, <2>3 DEF Promise!Waiting
    <2>5. Promise!Admit
        BY <1>1, <2>1, <2>3, <2>4 DEF Promise!Admit, Evicted, Full
    <2>6. Promise!Produce
        BY <2>1, <2>2, <2>3, <2>5 DEF Promise!Produce
    <2>7. QED
        BY <2>6 DEF Promise!Next
<1>5. CASE PumpSourceEnds \/ PumpAdapterFails \/ PumpCancelled
    <2>1. UNCHANGED <<terminated, delivered, produced>>
        BY <1>5 DEF PumpSourceEnds, PumpAdapterFails, PumpCancelled
    <2>2. (\E error \in Outcome : EndHandle(error)) \/ UNCHANGED handleVars
        BY <1>2, <1>5 DEF PumpSourceEnds, PumpAdapterFails, PumpCancelled
    <2>3. QED
        BY <2>1, <2>2, EndMaps, RestUnchanged, Stutters
<1>6. ASSUME NEW c \in Consumers, ConsumerStep(c)
      PROVE  [Promise!Next]_Promise!vars
    <2>1. CASE NextEvent(c)
        <3>1. /\ queue # <<>> /\ Head(queue) # End /\ queue' = Tail(queue)
              /\ delivered' = Append(delivered, Head(queue))
              /\ UNCHANGED <<ended, endError, dropped, terminated, produced>>
            BY <2>1 DEF NextEvent, Gets, pumpVars
        <3>2. /\ QueuedEvents \in Nat \ {0} /\ QueuedEvents' = QueuedEvents - 1
              /\ Head(queue) = produced - QueuedEvents + 1
            BY <3>1, NextEventKeepsQueue
        <3>3. Head(queue) = (produced + 1) - QueuedEvents
            BY <1>1, <3>2
        <3>4. (produced' + 1) - QueuedEvents' = ((produced + 1) - QueuedEvents) + 1
            BY <1>1, <3>1, <3>2
        <3>5. Promise!Waiting > 0
            BY <1>1, <3>2 DEF Promise!Waiting
        <3>6. Promise!Receive
            BY <3>1, <3>3, <3>4, <3>5 DEF Promise!Receive
        <3>7. QED
            BY <3>6 DEF Promise!Next
    <2>2. CASE NextEnd(c)
        <3>1. /\ queue # <<>> /\ Head(queue) = End /\ queue' = Tail(queue)
              /\ terminated' = TRUE
              /\ UNCHANGED <<ended, endError, dropped, delivered, produced>>
            BY <2>2 DEF NextEnd, Gets, pumpVars
        <3>2. ended /\ QueuedEvents = 0 /\ QueuedEvents' = 0
            BY <3>1, NextEndKeepsQueue
        <3>3. ~terminated
            BY <3>1 DEF IInv, EndIsLast
        <3>4. Promise!Waiting = 0 /\ endError # "open"
            BY <1>1, <3>2 DEF Promise!Waiting, IInv, TypeOK, Outcome
        <3>5. Promise!Tell
            BY <3>1, <3>2, <3>3, <3>4 DEF Promise!Tell
        <3>6. QED
            BY <3>5 DEF Promise!Next
    <2>3. CASE NextBlocks(c) \/ NextAfterEnd(c) \/ NextTimesOut(c)
        BY <2>3, RestUnchanged, Stutters
            DEF NextBlocks, NextAfterEnd, NextTimesOut, pumpVars
    <2>4. QED
        BY <1>6, <2>1, <2>2, <2>3 DEF ConsumerStep
<1>7. ASSUME NEW k \in Closers, CloserStep(k)
      PROVE  [Promise!Next]_Promise!vars
    BY <1>7, RestUnchanged, Stutters
        DEF CloserStep, Close, CloserWakes, CancelBeforeStart,
            CancelDuringAclose, pumpVars
<1>8. CASE ClosingStep
    <2>1. UNCHANGED <<terminated, delivered, produced>>
        BY <1>8 DEF ClosingStep, CloseCancelsPump, CloseAfterPump, CloseAfterSource
    <2>2. EndHandle("none") \/ UNCHANGED handleVars
        BY <1>8 DEF ClosingStep, CloseCancelsPump, CloseAfterPump,
            CloseAfterSource, AcloseOrFinish
    <2>3. QED
        BY <1>2, <2>1, <2>2, EndMaps, RestUnchanged, Stutters
<1>9. CASE UNCHANGED vars
    BY <1>9, RestUnchanged, Stutters DEF vars, pumpVars
<1>10. QED
    BY <1>3, <1>4, <1>5, <1>6, <1>7, <1>8, <1>9 DEF Next, PumpStep

(* The subscription implements the safety of the lossy stream, whatever the  *)
(* number of consumers, closers and cancellations.                           *)
THEOREM Refinement == Spec => RefinesLossyStream
<1>1. Init => Promise!Init
    <2> SUFFICES ASSUME Init PROVE Promise!Init
        OBVIOUS
    <2>1. QueuedEvents = 0
        BY DEF Init, QueuedEvents, EndQueued
    <2>2. QED
        BY <2>1 DEF Init, Promise!Init
<1>2. IInv /\ [Next]_vars => [Promise!Next]_Promise!vars
    BY StepMaps
<1>3. QED
    BY <1>1, <1>2, SafetyTheorem, PTL DEF Spec, Promise!Spec, RefinesLossyStream
=============================================================================
