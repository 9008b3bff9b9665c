----------------------------- MODULE LossyStream -----------------------------
(***************************************************************************)
(* What a stream subscription promises its consumer (class docstring of     *)
(* AsyncSubscriptionHandle, streams/_handle.py): events in order, the oldest *)
(* given up and counted when more than Size wait, then one outcome.  There   *)
(* is no queue here: what waits is the interval next..produced.             *)
(***************************************************************************)
EXTENDS Naturals, Sequences

CONSTANTS
    Size,      (* how many items may wait                                   *)
    Outcome    (* how a stream may end                                      *)

VARIABLES
    produced,  (* events 1..produced exist                                  *)
    next,      (* the oldest event neither received nor given up            *)
    received,  (* the events the consumer got                               *)
    lost,      (* how many events were given up                             *)
    outcome,   (* "open", then how the stream ended                         *)
    told       (* whether the consumer has been told the outcome            *)

vars == <<produced, next, received, lost, outcome, told>>

Init ==
    /\ produced = 0 /\ next = 1 /\ received = <<>> /\ lost = 0
    /\ outcome = "open" /\ told = FALSE

Waiting == (produced + 1) - next

(* Make room for one more item, giving up the oldest event if need be. *)
Admit ==
    \/ Waiting < Size /\ UNCHANGED <<next, lost>>
    \/ Waiting = Size /\ next' = next + 1 /\ lost' = lost + 1

Produce ==
    /\ outcome = "open"
    /\ produced' = produced + 1
    /\ Admit
    /\ UNCHANGED <<received, outcome, told>>

Finish ==
    /\ outcome = "open" /\ outcome' \in Outcome
    /\ Admit
    /\ UNCHANGED <<produced, received, told>>

Receive ==
    /\ Waiting > 0
    /\ received' = Append(received, next)
    /\ next' = next + 1
    /\ UNCHANGED <<produced, lost, outcome, told>>

(* The outcome comes after every event that still waits. *)
Tell ==
    /\ outcome # "open" /\ Waiting = 0 /\ ~told
    /\ told' = TRUE
    /\ UNCHANGED <<produced, next, received, lost, outcome>>

Next == Produce \/ Finish \/ Receive \/ Tell

Spec == Init /\ [][Next]_vars

(* A consumer that keeps asking gets what waits, and then the outcome. *)
FairSpec == Spec /\ WF_vars(Receive \/ Tell)
=============================================================================
