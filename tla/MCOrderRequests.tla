--------------------------- MODULE MCOrderRequests ---------------------------
(***************************************************************************)
(* Small instances of OrderRequests for TLC.                                *)
(***************************************************************************)
EXTENDS OrderRequests

CONSTANTS one, many, o1, o2, o3

(* A place_order without a key of the caller's on the synchronous client,    *)
(* and a place_orders of two entries on the async client, one of them with a *)
(* client_order_id of the caller's; one at a time.                           *)
Callers == {one, many}
AllOrders == {o1, o2, o3}
Batches == [i \in Callers |-> IF i = one THEN {o1} ELSE {o2, o3}]
EitherOne == {{one}, {many}}
OnlyOne == {{one}}
CallerStamped == {o2}
AsyncCallers == {many}
=============================================================================
