-------------------------------- MODULE Tokens --------------------------------
(***************************************************************************)
(* How the clients address an outcome.  PolySimulator knows a market and an *)
(* outcome of it; py-clob bots pass one token id.  A token id is either the *)
(* SDK's own "market:LABEL", or bare: a market id, or the long all-digit id *)
(* Polymarket gives an outcome.  Orders, book reads and streams each take   *)
(* token ids apart in their own way.                                        *)
(*                                                                         *)
(* An id is the sequence of its parts between colons, <<"m", "YES">> for    *)
(* m:YES; a market id taken from it is such a sequence too.                 *)
(***************************************************************************)
EXTENDS Naturals, Sequences

CONSTANTS
    ClobTokens   (* the bare ids that are long and all digits               *)

ASSUME TokenAssumption ==
    \A t \in ClobTokens : Len(t) = 1 /\ t # <<"">>

(* External: str.upper, on the labels and sides that occur. *)
Upper(label) ==
    CASE label \in {"Yes", "yes"} -> "YES"
      [] label \in {"No", "no"} -> "NO"
      [] label = "Up" -> "UP"
      [] label = "Down" -> "DOWN"
      [] label = "Lions" -> "LIONS"
      [] label = "buy" -> "BUY"
      [] label = "sell" -> "SELL"
      [] OTHER -> label

Outcomes == {"YES", "NO", "UP", "DOWN"}

HasColon(token) == Len(token) > 1

(* rpartition(":"): what is before the last colon, and what is behind it. *)
MarketPart(token) == SubSeq(token, 1, Len(token) - 1)
LabelPart(token) == token[Len(token)]

IsEmpty(id) == id \in {<<>>, <<"">>}

(* The colon form that orders and books understand. *)
NamesOutcome(token) ==
    /\ HasColon(token)
    /\ Upper(LabelPart(token)) \in Outcomes
    /\ ~IsEmpty(MarketPart(token))
-----------------------------------------------------------------------------
(* Orders: a pair of a market id and an outcome. *)

(* Mutant: anything behind the last colon is an outcome. *)
SplitTokenAnyLabel(token) ==
    IF HasColon(token) /\ ~IsEmpty(MarketPart(token))
    THEN <<MarketPart(token), LabelPart(token)>>
    ELSE <<token, "YES">>

(* A bare id, and a colon form that names no outcome, is a market id whose    *)
(* YES is meant.                                                              *)
SplitToken(token) ==
    IF NamesOutcome(token)
    THEN <<MarketPart(token), Upper(LabelPart(token))>>
    ELSE <<token, "YES">>

NeedsReverseResolution(token) == ~HasColon(token) /\ token \in ClobTokens

(* The answer of GET /v1/markets-by-token, in which a field may be missing    *)
(* (empty): the token itself and YES stand in.                                *)
FromPayload(token, answer) ==
    <<IF ~IsEmpty(answer.condition) THEN answer.condition
      ELSE IF ~IsEmpty(answer.market) THEN answer.market ELSE token,
      IF answer.outcome # "" THEN answer.outcome ELSE "YES">>

(* The server compares outcomes without case. *)
Meant(pair) == <<pair[1], Upper(pair[2])>>
-----------------------------------------------------------------------------
(* Books: by market and outcome, or by token. *)

(* Mutant: the outcome of a colon token is not passed on. *)
BookRouteFirstOutcome(token) ==
    IF NamesOutcome(token)
    THEN [by |-> "market", id |-> MarketPart(token), outcome |-> ""]
    ELSE [by |-> "token", id |-> token, outcome |-> ""]

BookRoute(token) ==
    IF NamesOutcome(token)
    THEN [by |-> "market", id |-> MarketPart(token),
          outcome |-> Upper(LabelPart(token))]
    ELSE [by |-> "token", id |-> token, outcome |-> ""]
-----------------------------------------------------------------------------
(* Streams. *)

NoToken == <<>>

(* The token an event carries, from the market and the label of a frame. *)
MakeToken(market, label) ==
    IF IsEmpty(market) \/ label = "" THEN NoToken
    ELSE market \o <<Upper(label)>>

(* Mutant: the market of a token is the one an order would go to. *)
SplitConditionIdByOrders(token) == SplitToken(token)[1]

(* What is subscribed to for a token. *)
SplitConditionId(token) ==
    IF HasColon(token) /\ ~IsEmpty(MarketPart(token))
    THEN MarketPart(token) ELSE token

ConditionIds(tokens) == {SplitConditionId(t) : t \in tokens}
=============================================================================
