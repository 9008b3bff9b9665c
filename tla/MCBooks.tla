------------------------------- MODULE MCBooks --------------------------------
(* Bounds: the two outcomes of a market, three books, one of them one-sided  *)
(* with a coarse tick, one with two asks of one price and a level that cannot *)
(* be read, calls of up to two reads, three calls, one move.                 *)
EXTENDS Books

M == <<"0xc1">>
Yes == <<"0xc1", "Yes">>
No == <<"0xc1", "NO">>
Digits == <<"7113">>
DigitTokens == {Digits}
OutcomeMC == Yes :> <<M, "YES">> @@ No :> <<M, "NO">> @@ Digits :> <<M, "NO">>
First == M :> "YES"

Level(price, size) == [price |-> price, size |-> size]
Unordered == [bids |-> <<Level(30, 4), Level(35, 2), Level(None, 9)>>,
              asks |-> <<Level(60, 3), Level(40, 4), Level(50, 1), Level(40, 1)>>, tick |-> None,
              last |-> 38]
Shifted == [bids |-> <<Level(45, 1), Level(40, 6)>>,
            asks |-> <<Level(55, 4), Level(48, 2)>>, tick |-> None, last |-> None]
OneSided == [bids |-> <<>>, asks |-> <<Level(97, 8)>>, tick |-> 10, last |-> 97]
BooksMC == {Unordered, Shifted, OneSided}
RecordsMC == {None, 52}

Request(token, side, target, type) ==
    [token |-> token, side |-> side, target |-> target, type |-> type]
Plain(token) == Request(token, "BUY", 1, "FOK")
Op(op, requests) == [op |-> op, requests |-> requests]

Estimates == {Op("estimate", <<Request(token, side, target, type)>>) :
                 token \in {No}, side \in {"BUY", "SELL"},
                 target \in {2, 6, 240}, type \in {"FOK", "FAK"}}
Scalars(op) == {Op(op, <<Plain(Yes), Plain(Digits)>>),
                Op(op, <<Request(No, "SELL", 1, "FOK")>>)}
CallsMC ==
    [client_ \in {"public", "async", "secure", "async_secure", "clob"} |->
       Scalars("mid") \cup Scalars("spread") \cup Scalars("price") \cup
       {Op("last", <<Plain(Yes), Plain(Digits)>>)} \cup
       IF client_ # "clob"
       THEN Estimates \cup Scalars("book") \cup
            {Op("estimate", <<Plain(<<>>)>>), Op("mid", <<>>), Op("mid", <<Plain(Yes), Plain(<<>>)>>)}
       ELSE {Op("average", <<Request(No, side, target, "FOK")>>) :
               side \in {"buy", "SELL"}, target \in {3, 7, 20}} \cup
            {Op("tick", <<Plain(Digits)>>), Op("tick", <<Plain(Yes)>>),
             Op("clear", <<Plain(Digits)>>), Op("clear", <<Plain(<<>>)>>)}]
===============================================================================
