------------------------------ MODULE OrderOnce ------------------------------
(***************************************************************************)
(* What a keyed order promises (docstrings of place_order and place_orders, *)
(* client.py): it takes effect at most once, and a caller who was told that *)
(* it is placed was told the truth.                                         *)
(***************************************************************************)
EXTENDS Naturals

CONSTANT Orders

VARIABLES
    times,      (* how often each order took effect                         *)
    confirmed   (* orders whose placement the caller was told of            *)

vars == <<times, confirmed>>

Init == times = [o \in Orders |-> 0] /\ confirmed = {}

Place(S) ==
    /\ \A o \in S : times[o] = 0
    /\ times' = [o \in Orders |-> IF o \in S THEN 1 ELSE times[o]]
    /\ UNCHANGED confirmed

Confirm(S) ==
    /\ \A o \in S : times[o] = 1
    /\ confirmed' = confirmed \cup S
    /\ UNCHANGED times

Next == \E S \in SUBSET Orders : Place(S) \/ Confirm(S)

Spec == Init /\ [][Next]_vars
=============================================================================
