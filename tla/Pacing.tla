-------------------------------- MODULE Pacing --------------------------------
(***************************************************************************)
(* The floor between two requests of one transport (_pace, _http.py).  The  *)
(* callers are asyncio tasks, which take turns by _pace_lock                *)
(* (AsyncTransport), or threads, which have no lock (SyncTransport).        *)
(*                                                                         *)
(* Time is discrete and only differences matter: age is what                *)
(* time.monotonic() - _last_request_ts would give.  Ages are counted up to  *)
(* Floor, past which they make no difference.  What a caller does between   *)
(* the end of _pace and handing the request to httpx never awaits: the last *)
(* step of _pace is taken for the sending, for threads too.                 *)
(***************************************************************************)
EXTENDS Integers, Sequences, SequencesExt

CONSTANTS
    Callers,   (* tasks or threads that make requests                       *)
    Nobody,    (* the lock's holder when it is free                         *)
    Floor      (* floor_interval                                            *)

ASSUME PacingAssumption ==
    Floor \in Nat /\ Nobody \notin Callers

VARIABLES
    locked,   (* TRUE for AsyncTransport, FALSE for SyncTransport           *)
    phase,    (* where each caller is                                       *)
    lock,     (* _pace_lock: its holder                                     *)
    waiting,  (* _pace_lock: who waits for it, first come first served      *)
    left,     (* what is left of each caller's sleep                        *)
    age,      (* time since _last_request_ts                                *)
    since,    (* history: time since each caller's last request             *)
    tooClose  (* history: <<c, d>> when c sent a request less than Floor    *)
              (* after one of d                                             *)

lockVars == <<locked, lock, waiting>>
history == <<since, tooClose>>
vars == <<lockVars, phase, left, age, history>>

Inside == {"reading", "sleeping", "stamping"}

TypeOK ==
    /\ locked \in BOOLEAN
    /\ phase \in [Callers -> {"idle", "queued"} \cup Inside]
    /\ lock \in Callers \cup {Nobody}
    /\ waiting \in Seq(Callers)
    /\ left \in [Callers -> 0..Floor]
    /\ age \in 0..Floor /\ since \in [Callers -> 0..Floor]
    /\ tooClose \subseteq Callers \X Callers

Init ==
    /\ locked \in BOOLEAN
    /\ phase = [c \in Callers |-> "idle"]
    /\ lock = Nobody /\ waiting = <<>>
    /\ left = [c \in Callers |-> 0]
    /\ age = Floor                          \* _last_request_ts = 0.0
    /\ since = [c \in Callers |-> Floor] /\ tooClose = {}

-----------------------------------------------------------------------------
(* A request begins.  A thread goes straight in, and so does a task when the  *)
(* lock is free and nobody is before it.                                     *)
Enter(c) ==
    /\ phase[c] = "idle"
    /\ locked => lock = Nobody /\ waiting = <<>>
    /\ phase' = [phase EXCEPT ![c] = "reading"]
    /\ lock' = IF locked THEN c ELSE lock
    /\ UNCHANGED <<locked, waiting, left, age, history>>

Queue(c) ==
    /\ phase[c] = "idle"
    /\ locked /\ ~(lock = Nobody /\ waiting = <<>>)
    /\ phase' = [phase EXCEPT ![c] = "queued"]
    /\ waiting' = Append(waiting, c)
    /\ UNCHANGED <<locked, lock, left, age, history>>

Acquire(c) ==
    /\ phase[c] = "queued" /\ lock = Nobody
    /\ waiting # <<>> /\ Head(waiting) = c
    /\ phase' = [phase EXCEPT ![c] = "reading"]
    /\ lock' = c /\ waiting' = Tail(waiting)
    /\ UNCHANGED <<locked, left, age, history>>

(* Mutant: the difference the other way round. *)
RestOfFloorSwapped == age - Floor

RestOfFloor == Floor - age

Read(c) ==
    /\ phase[c] = "reading"
    /\ IF age < Floor
       THEN /\ phase' = [phase EXCEPT ![c] = "sleeping"]
            /\ left' = [left EXCEPT ![c] = RestOfFloor]
       ELSE /\ phase' = [phase EXCEPT ![c] = "stamping"]
            /\ UNCHANGED left
    /\ UNCHANGED <<lockVars, age, history>>

Wake(c) ==
    /\ phase[c] = "sleeping" /\ left[c] = 0
    /\ phase' = [phase EXCEPT ![c] = "stamping"]
    /\ UNCHANGED <<lockVars, left, age, history>>

Release(c) == lock' = IF lock = c THEN Nobody ELSE lock

Send(c) ==
    /\ since' = [since EXCEPT ![c] = 0]
    /\ tooClose' = tooClose \cup {<<c, d>> : d \in {x \in Callers : since[x] < Floor}}

(* Mutant: the stamp is not renewed. *)
StampForgotten(c) ==
    /\ phase[c] = "stamping"
    /\ phase' = [phase EXCEPT ![c] = "idle"]
    /\ Release(c) /\ Send(c)
    /\ UNCHANGED <<locked, waiting, left, age>>

(* The new stamp, the end of _pace and the request. *)
Stamp(c) ==
    /\ phase[c] = "stamping"
    /\ phase' = [phase EXCEPT ![c] = "idle"]
    /\ age' = 0
    /\ Release(c) /\ Send(c)
    /\ UNCHANGED <<locked, waiting, left>>

(* Mutant: the lock is taken and released by hand, without a finally. *)
CancelKeepsLock(c) ==
    /\ locked /\ phase[c] \in {"queued", "sleeping"}
    /\ phase' = [phase EXCEPT ![c] = "idle"]
    /\ waiting' = RemoveFirst(waiting, c)
    /\ left' = [left EXCEPT ![c] = 0]
    /\ UNCHANGED <<locked, lock, age, history>>

(* A timeout around an awaited request, at one of the two awaits of _pace:   *)
(* the lock's queue forgets the task, `async with` releases the lock.        *)
Cancel(c) ==
    /\ locked /\ phase[c] \in {"queued", "sleeping"}
    /\ phase' = [phase EXCEPT ![c] = "idle"]
    /\ waiting' = RemoveFirst(waiting, c)
    /\ left' = [left EXCEPT ![c] = 0]
    /\ Release(c)
    /\ UNCHANGED <<locked, age, history>>

(* External: a unit of time. *)
Older(t) == IF t < Floor THEN t + 1 ELSE Floor
Shorter(t) == IF t > 0 THEN t - 1 ELSE 0

Tick ==
    /\ age' = Older(age)
    /\ since' = [c \in Callers |-> Older(since[c])]
    /\ left' = [c \in Callers |-> Shorter(left[c])]
    /\ UNCHANGED <<lockVars, phase, tooClose>>

-----------------------------------------------------------------------------
Runs(c) == Acquire(c) \/ Read(c) \/ Wake(c) \/ Stamp(c)

Next ==
    \/ \E c \in Callers : Enter(c) \/ Queue(c) \/ Runs(c) \/ Cancel(c)
    \/ Tick

Spec == Init /\ [][Next]_vars

(* Time passes, and the event loop or the scheduler runs what is ready. *)
FairSpec == Spec /\ WF_vars(Tick) /\ \A c \in Callers : WF_vars(Runs(c))
-----------------------------------------------------------------------------
(* Properties. *)

(* README.md:953, "a 50 ms floor between requests": no two requests of one   *)
(* AsyncTransport are sent within less than Floor of each other, however     *)
(* many tasks make them and whichever of them are cancelled.                 *)
SpacedSends == locked => tooClose = {}

(* Without the lock the floor holds between the requests of one thread, so   *)
(* that n threads send at most n requests within it.                         *)
OwnSendsSpaced == \A c \in Callers : <<c, c>> \notin tooClose

(* The floor costs no more than the floor: a caller that sleeps wakes Floor  *)
(* after the last request, and not later.                                    *)
SleepsOnlyTheRest ==
    \A c \in Callers : phase[c] = "sleeping" => left[c] <= Floor - age

(* Together: the floor is kept, and costs nothing beyond it.                  *)
FloorIsKept == SpacedSends /\ OwnSendsSpaced /\ SleepsOnlyTheRest

(* Nobody waits for ever, in the queue of the lock or asleep, although tasks *)
(* ahead of it are cancelled.                                                *)
EveryCallerServed ==
    \A c \in Callers : phase[c] # "idle" ~> phase[c] = "idle"
=============================================================================
