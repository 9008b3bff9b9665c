------------------------------ MODULE OrderShape ------------------------------
(***************************************************************************)
(* What an order turns into between the bot's call and the wire: the checks *)
(* and the unsigned body of polysim_polymarket, the payload and the         *)
(* time-in-force of the py-clob drop-in, and the reading of the answer row. *)
(* Prices are in cents, expirations in seconds from now, and None stands    *)
(* for an argument that is not given.                                      *)
(***************************************************************************)
EXTENDS Integers, Tokens, TLC

None == -1
Given(value) == value # None
OrElse(value, default) == IF Given(value) THEN value ELSE default

CONSTANTS
    MinExpiration   (* _MIN_EXPIRATION_BUFFER_S: the shortest GTD order      *)

ASSUME MinExpirationAssumption == MinExpiration \in Nat \ {0}

(* The worst price of a market order that names none. *)
BuyWorst == 99
SellWorst == 1
-----------------------------------------------------------------------------
(* polysim_polymarket: the call is checked, then the body is built.          *)

ValidToken(token) == ~IsEmpty(token)
ValidSide(side) == side \in {"BUY", "SELL"}
Positive(value) == Given(value) /\ value > 0
PositiveIfGiven(value) == Given(value) => value > 0

ValidLimit(a) ==
    /\ ValidToken(a.token)
    /\ Positive(a.price)
    /\ Positive(a.size)
    /\ ValidSide(a.side)
    /\ Given(a.expiration) => a.expiration >= MinExpiration

LimitBody(a, pair) ==
    LET gtd == Given(a.expiration) /\ a.expiration > 0
    IN  [market |-> pair[1], outcome |-> pair[2], side |-> a.side,
         type |-> "limit", tif |-> IF gtd THEN "GTD" ELSE "GTC",
         price |-> a.price, quantity |-> a.size, amount |-> None,
         expiration |-> IF gtd THEN a.expiration ELSE None,
         postOnly |-> a.postOnly]

(* A buy says what to spend, a sell how many shares: the other's arguments   *)
(* are refused, not ignored.                                                 *)
ValidMarket(a) ==
    /\ ValidToken(a.token)
    /\ ValidSide(a.side)
    /\ a.tif \in {"FAK", "FOK"}
    /\ a.side = "BUY"  => /\ Positive(a.amount)
                          /\ ~Given(a.size) /\ ~Given(a.minPrice)
                          /\ PositiveIfGiven(a.maxSpend)
                          /\ PositiveIfGiven(a.maxPrice)
    /\ a.side = "SELL" => /\ Positive(a.size)
                          /\ ~Given(a.amount) /\ ~Given(a.maxSpend)
                          /\ ~Given(a.maxPrice)
                          /\ PositiveIfGiven(a.minPrice)

MarketBody(a, pair) ==
    LET spend == IF Given(a.maxSpend) /\ a.maxSpend < a.amount
                 THEN a.maxSpend ELSE a.amount
        buy   == a.side = "BUY"
    IN  [market |-> pair[1], outcome |-> pair[2], side |-> a.side,
         type |-> "market", tif |-> a.tif,
         price |-> IF buy THEN OrElse(a.maxPrice, BuyWorst)
                   ELSE OrElse(a.minPrice, SellWorst),
         quantity |-> IF buy THEN None ELSE a.size,
         amount |-> IF buy THEN spend ELSE None,
         expiration |-> None, postOnly |-> FALSE]

Valid(a) == IF a.kind = "limit" THEN ValidLimit(a) ELSE ValidMarket(a)
Body(a, pair) == IF a.kind = "limit" THEN LimitBody(a, pair)
                 ELSE MarketBody(a, pair)
-----------------------------------------------------------------------------
(* polysim_clob_client: nothing is checked, and the time-in-force is settled *)
(* when the order is posted, where the default of the call must not undo     *)
(* what the order was built for.                                             *)

OrderPayload(a, pair, type, tif) ==
    [market |-> pair[1], outcome |-> pair[2], side |-> Upper(a.side),
     type |-> type, tif |-> tif, price |-> a.price,
     quantity |-> a.size, amount |-> a.amount,
     expiration |-> IF a.expiration > 0 THEN a.expiration ELSE None,
     postOnly |-> FALSE]

ClobLimitOrder(a, pair) ==
    OrderPayload(a, pair, "limit", IF a.expiration > 0 THEN "GTD" ELSE "GTC")

ClobMarketOrder(a, pair) ==
    LET buy  == Upper(a.side) = "BUY"
        args == [a EXCEPT
                   !.price = IF a.price > 0 THEN a.price
                             ELSE IF buy THEN BuyWorst ELSE SellWorst,
                   !.amount = IF buy THEN a.amount ELSE None,
                   !.size = IF buy THEN None ELSE a.amount,
                   !.expiration = None]
    IN  OrderPayload(args, pair, "market", a.tif)

ClobOrder(a, pair) == IF a.kind = "limit" THEN ClobLimitOrder(a, pair)
                      ELSE ClobMarketOrder(a, pair)

Submit(order, asked, postOnly) ==
    LET tif == IF Given(order.expiration) /\ asked = "GTC" THEN "GTD" ELSE asked
    IN  [order EXCEPT
           !.tif = IF /\ order.type = "market" /\ tif = "GTC"
                      /\ @ \in {"FOK", "FAK"}
                   THEN @ ELSE tif,
           !.postOnly = @ \/ postOnly]

(* Mutant: in a batch the default undoes a market order's time-in-force. *)
BatchEntryDefaulted(order, asked, postOnly) ==
    [order EXCEPT
       !.tif = IF Given(order.expiration) /\ asked = "GTC" THEN "GTD" ELSE asked,
       !.postOnly = @ \/ postOnly]

(* post_orders has the same two guards, written out again. *)
BatchEntry(order, asked, postOnly) ==
    LET tif  == IF Given(order.expiration) /\ asked = "GTC" THEN "GTD" ELSE asked
        kept == order.type = "market" /\ tif = "GTC" /\ order.tif \in {"FOK", "FAK"}
    IN  [order EXCEPT !.tif = IF kept THEN @ ELSE tif,
                      !.postOnly = IF postOnly THEN TRUE ELSE @]
-----------------------------------------------------------------------------
(* The answer row of an order. *)

NoId == <<>>

AcceptedStatus ==
    LET matched == {"filled", "matched", "partially_filled"}
        live    == {"live", "open", "resting"}
    IN  [s \in matched \cup live \cup {"pending", "delayed", "queued"} |->
           IF s \in matched THEN "matched" ELSE IF s \in live THEN "live" ELSE "delayed"]

(* Mutant: a status of the list is enough. *)
AcceptedByStatus(row) == row.status \in DOMAIN AcceptedStatus

(* success is what the row says, or "absent". *)
Accepted(row) ==
    /\ row.status \in DOMAIN AcceptedStatus
    /\ row.success # "false"
    /\ row.id # NoId
    /\ ~row.error

AdaptOrderResponse(row) ==
    IF Accepted(row)
    THEN [ok |-> TRUE, id |-> row.id, status |-> AcceptedStatus[row.status]]
    ELSE [ok |-> FALSE, id |-> NoId,
          status |-> IF row.status \in {"unmatched", "fok_not_filled",
                                        "fak_not_filled", "post_only_would_cross"}
                     THEN row.status ELSE "unknown"]
=============================================================================
