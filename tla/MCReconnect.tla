----------------------------- MODULE MCReconnect -----------------------------
(***************************************************************************)
(* The streams TLC checks Reconnect with.                                   *)
(***************************************************************************)
EXTENDS Reconnect

(* A WebSocket stream with a limit. *)
Socket == [webSocket |-> TRUE, minInterval |-> 1,
           bounded |-> TRUE, maxReconnects |-> 4]

(* Server-sent events without a limit, whose first interval is 0. *)
Events == [webSocket |-> FALSE, minInterval |-> 0,
           bounded |-> FALSE, maxReconnects |-> 0]

(* Server-sent events with a limit and an interval above the cap. *)
PatientEvents == [webSocket |-> FALSE, minInterval |-> 8,
                  bounded |-> TRUE, maxReconnects |-> 2]

AllStreams == {Socket, Events, PatientEvents}

(* A WebSocket stream without a limit. *)
UnboundedSocket ==
    {[webSocket |-> TRUE, minInterval |-> 1,
      bounded |-> FALSE, maxReconnects |-> 0]}
=============================================================================
