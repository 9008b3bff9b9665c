----------------------------- MODULE PacingProofs -----------------------------
(***************************************************************************)
(* Theorems about the floor between requests, for every set of callers and  *)
(* every floor, tasks behind the lock and threads without it.               *)
(***************************************************************************)
EXTENDS Pacing, WellFoundedInduction, TLAPS

(* What the steps of the clock need of the types. *)
ClockTypes ==
    /\ locked \in BOOLEAN
    /\ phase \in [Callers -> {"idle", "queued"} \cup Inside]
    /\ left \in [Callers -> 0..Floor]
    /\ age \in 0..Floor
    /\ since \in [Callers -> 0..Floor]

(* The lock belongs to the one caller that is past the `async with`. *)
LockGuards == locked => \A x \in Callers : phase[x] \in Inside <=> lock = x

(* The stamp is at least as new as the last request of every caller. *)
StampIsNewest == \A x \in Callers : age <= since[x]

(* Who sleeps will have let the floor pass since its own last request. *)
OwnFloorPasses ==
    \A x \in Callers :
        /\ phase[x] = "sleeping" => left[x] + since[x] >= Floor
        /\ phase[x] = "stamping" => since[x] = Floor

(* With the lock a sleeper wakes when the floor is over, and finds it over:   *)
(* nobody has renewed the stamp meanwhile.                                   *)
FloorPasses ==
    locked =>
        \A x \in Callers :
            /\ phase[x] = "sleeping" => left[x] + age >= Floor
            /\ phase[x] = "stamping" => age = Floor

IInv ==
    /\ ClockTypes
    /\ LockGuards
    /\ StampIsNewest
    /\ OwnFloorPasses
    /\ FloorPasses
    /\ SpacedSends
    /\ OwnSendsSpaced
    /\ SleepsOnlyTheRest

USE PacingAssumption DEF PacingAssumption

(* With the lock at most one caller is between the two ends of _pace. *)
LEMMA OneInside ==
    ASSUME locked, LockGuards, NEW x \in Callers, NEW y \in Callers,
           phase[x] \in Inside, phase[y] \in Inside
    PROVE  x = y
  BY DEF LockGuards

(* The initial states satisfy the invariant. *)
LEMMA InitInv == Init => IInv
  BY SMT DEF Init, IInv, ClockTypes, LockGuards, StampIsNewest, OwnFloorPasses,
             FloorPasses, SpacedSends, OwnSendsSpaced, SleepsOnlyTheRest, Inside

(* A new stamp: its own caller has let the floor pass, and behind the lock    *)
(* there is no other whose wait it could prolong.                            *)
LEMMA StampInv ==
    ASSUME IInv, NEW c \in Callers, Stamp(c)
    PROVE  IInv'
  <1> USE DEF IInv, ClockTypes, Inside
  <1>1. /\ phase[c] = "stamping" /\ phase' = [phase EXCEPT ![c] = "idle"]
        /\ age' = 0 /\ left' = left /\ locked' = locked
        /\ since' = [since EXCEPT ![c] = 0]
        /\ lock' = IF lock = c THEN Nobody ELSE lock
        /\ tooClose' = tooClose \cup {<<c, d>> : d \in {x \in Callers : since[x] < Floor}}
    BY DEF Stamp, Send, Release
  <1>2. since[c] = Floor
    BY <1>1 DEF OwnFloorPasses
  <1>3. locked => \A x \in Callers \ {c} : phase[x] \notin Inside
    BY <1>1, OneInside
  <1>4. ClockTypes'
    BY <1>1
  <1>5. LockGuards'
    BY <1>1, <1>3 DEF LockGuards
  <1>6. StampIsNewest'
    BY <1>1
       DEF StampIsNewest
  <1>7. OwnFloorPasses'
    BY <1>1 DEF OwnFloorPasses
  <1>8. FloorPasses'
    BY <1>1, <1>3 DEF FloorPasses
  <1>9. SpacedSends'
    <2> SUFFICES ASSUME locked PROVE tooClose' = {}
      BY <1>1 DEF SpacedSends
    <2>1. \A x \in Callers : ~(since[x] < Floor)
      BY <1>1 DEF FloorPasses, StampIsNewest
    <2>2. {x \in Callers : since[x] < Floor} = {}
      BY <2>1
    <2> QED BY <1>1, <2>2 DEF SpacedSends
  <1>10. OwnSendsSpaced'
    <2>1. c \notin {x \in Callers : since[x] < Floor}
      BY <1>2
    <2> QED BY <1>1, <2>1 DEF OwnSendsSpaced
  <1>11. SleepsOnlyTheRest'
    BY <1>1 DEF SleepsOnlyTheRest
  <1> QED
    BY <1>4, <1>5, <1>6, <1>7, <1>8, <1>9, <1>10, <1>11

(* Every step preserves the invariant. *)
LEMMA StepInv == IInv /\ [Next]_vars => IInv'
  <1> SUFFICES ASSUME IInv, [Next]_vars PROVE IInv'
    OBVIOUS
  <1> USE DEF IInv, ClockTypes, LockGuards, StampIsNewest, OwnFloorPasses, FloorPasses,
              SpacedSends, OwnSendsSpaced, SleepsOnlyTheRest, Inside, history, lockVars
  <1>1. ASSUME NEW c \in Callers, Enter(c) PROVE IInv'
    BY <1>1 DEF Enter
  <1>2. ASSUME NEW c \in Callers, Queue(c) PROVE IInv'
    BY <1>2 DEF Queue
  <1>3. ASSUME NEW c \in Callers, Acquire(c) PROVE IInv'
    BY <1>3 DEF Acquire
  <1>4. ASSUME NEW c \in Callers, Read(c) PROVE IInv'
    BY <1>4 DEF Read, RestOfFloor
  <1>5. ASSUME NEW c \in Callers, Wake(c) PROVE IInv'
    BY <1>5 DEF Wake
  <1>6. ASSUME NEW c \in Callers, Stamp(c) PROVE IInv'
    BY <1>6, StampInv
  <1>7. ASSUME NEW c \in Callers, Cancel(c) PROVE IInv'
    BY <1>7 DEF Cancel, Release
  <1>8. CASE Tick
    BY <1>8 DEF Tick, Older, Shorter
  <1>9. CASE UNCHANGED vars
    BY <1>9 DEF vars
  <1> QED
    BY <1>1, <1>2, <1>3, <1>4, <1>5, <1>6, <1>7, <1>8, <1>9 DEF Next, Runs

(* The inductive invariant of the floor, the stamp and the lock. *)
THEOREM PacingSafety == Spec => []IInv
  BY InitInv, StepInv, PTL DEF Spec

(* README.md:953: two requests of one AsyncTransport are never sent within    *)
(* less than the floor of each other.                                        *)
THEOREM FloorHolds == Spec => []SpacedSends
  <1>1. IInv => SpacedSends
    BY DEF IInv
  <1> QED
    BY PacingSafety, <1>1, PTL

(* Nor are two requests of one thread, whoever it shares the transport with.  *)
THEOREM OwnFloorHolds == Spec => []OwnSendsSpaced
  <1>1. IInv => OwnSendsSpaced
    BY DEF IInv
  <1> QED
    BY PacingSafety, <1>1, PTL

(* No caller sleeps longer than what is left of the floor. *)
THEOREM FloorCostsNoMore == Spec => []SleepsOnlyTheRest
  <1>1. IInv => SleepsOnlyTheRest
    BY DEF IInv
  <1> QED
    BY PacingSafety, <1>1, PTL

(* The floor is kept, and costs nothing beyond it (_pace of both transports). *)
THEOREM FloorKept == Spec => []FloorIsKept
  <1>1. SpacedSends /\ OwnSendsSpaced /\ SleepsOnlyTheRest => FloorIsKept
    BY DEF FloorIsKept
  <1> QED
    BY <1>1, FloorHolds, OwnFloorHolds, FloorCostsNoMore, PTL
-----------------------------------------------------------------------------
(* The types, the lock and its queue among them.                             *)

(* A set of numbers that is not empty has a least. *)
LEMMA Least ==
    ASSUME NEW T \in SUBSET Nat, T # {}
    PROVE  \E m \in T : \A n \in T : ~(n < m)
<1> DEFINE R == OpToRel(<, Nat)
<1>1. IsWellFoundedOn(R, Nat)
    BY NatLessThanWellFounded, Zenon
<1>2. \A m, n \in Nat : n < m => <<n, m>> \in R
    BY Zenon DEF OpToRel
<1> HIDE DEF R
<1>3. PICK m \in T : \A n \in T : <<n, m>> \notin R
    BY <1>1, WFMin
<1>4. QED
    BY <1>2, <1>3

(* A queue that forgets a caller is a queue. *)
LEMMA Forgotten ==
    ASSUME NEW S, NEW s \in Seq(S), NEW e
    PROVE  RemoveFirst(s, e) \in Seq(S)
  <1> DEFINE I == {i \in 1..Len(s) : s[i] = e}
             first == Min(I)
  <1>1. CASE I = {}
    BY <1>1, Zenon DEF RemoveFirst
  <1>2. CASE I # {}
    <2>1. RemoveFirst(s, e) = RemoveAt(s, first)
      BY <1>2, Zenon DEF RemoveFirst, SelectInSeq
    <2>2. first \in I
      <3>1. I \in SUBSET Nat
        OBVIOUS
      <3> HIDE DEF I
      <3>2. \E i \in I : \A k \in I : ~(k < i)
        BY <1>2, <3>1, Least
      <3>3. \E i \in I : \A k \in I : i <= k
        BY <3>1, <3>2
      <3>4. first = CHOOSE i \in I : \A k \in I : i <= k
        BY Zenon DEF Min
      <3> QED
        BY <3>3, <3>4
    <2> HIDE DEF first
    <2> QED
      BY <2>1, <2>2 DEF RemoveAt
  <1> QED
    BY <1>1, <1>2

LockTypes ==
    /\ lock \in Callers \cup {Nobody} /\ waiting \in Seq(Callers)
    /\ tooClose \subseteq Callers \X Callers

LEMMA LockTypesStay == IInv /\ LockTypes /\ [Next]_vars => LockTypes'
  <1> SUFFICES ASSUME IInv, LockTypes, [Next]_vars PROVE LockTypes'
    OBVIOUS
  <1>1. ASSUME NEW c \in Callers, Enter(c) \/ Queue(c) \/ Acquire(c) PROVE LockTypes'
    BY <1>1 DEF LockTypes, Enter, Queue, Acquire, history
  <1>2. ASSUME NEW c \in Callers, Read(c) \/ Wake(c) PROVE LockTypes'
    BY <1>2 DEF LockTypes, Read, Wake, history, lockVars
  <1>3. ASSUME NEW c \in Callers, Stamp(c) PROVE LockTypes'
    BY <1>3 DEF LockTypes, Stamp, Release, Send
  <1>4. ASSUME NEW c \in Callers, Cancel(c) PROVE LockTypes'
    BY <1>4, Forgotten DEF LockTypes, Cancel, Release, history
  <1>5. CASE Tick \/ UNCHANGED vars
    BY <1>5 DEF LockTypes, Tick, vars, history, lockVars
  <1> QED
    BY <1>1, <1>2, <1>3, <1>4, <1>5 DEF Next, Runs

(* Types: each caller is where _pace puts it, and the lock's queue holds      *)
(* callers.                                                                  *)
THEOREM TypeCorrect == Spec => []TypeOK
  <1>1. Init => LockTypes
    BY DEF Init, LockTypes
  <1>2. IInv /\ LockTypes => TypeOK
    BY DEF IInv, ClockTypes, LockTypes, TypeOK
  <1> QED
    BY PacingSafety, LockTypesStay, <1>1, <1>2, PTL DEF Spec
=============================================================================
