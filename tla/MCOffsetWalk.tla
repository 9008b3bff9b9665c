----------------------------- MODULE MCOffsetWalk -----------------------------
(***************************************************************************)
(* Small instances of OffsetWalk for TLC.  The clients' limit and the        *)
(* server's cap are 2 rows.                                                 *)
(***************************************************************************)
EXTENDS OffsetWalk

AllWalkers == {"iterator", "paginator", "async_paginator", "cursors", "clob",
               "clob_past", "collector", "account", "async_account"}

(* Who clamps its page size has one above the cap. *)
Sizes == [w \in AllWalkers |->
            IF w \in {"paginator", "async_paginator", "cursors"} THEN 3 ELSE 2]

Iterator == {"iterator"}

(* The iterator above the cap. *)
SizeAboveCap == [w \in Iterator |-> 3]
=============================================================================
