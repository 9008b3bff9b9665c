------------------------------ MODULE MCTrading -------------------------------
(* Bounds: two markets; a token in the colon form, as a market id and as a    *)
(* digit id looked up; two tasks, each with one call out of those below.      *)
EXTENDS Trading

CONSTANTS t1, t2

M1 == <<"0xc1">>
M2 == <<"0xc2">>
No1 == <<"0xc1", "No">>        \* m:No, the second outcome
Digits == <<"7113">>           \* the digit id of the same outcome
Bare2 == <<"0xc2">>            \* the market id alone: YES of the market

DigitTokens == {Digits}

Markets == M1 :> M1 @@ M2 :> M2 @@ <<"17">> :> M1
Means == No1 :> <<M1, "NO">> @@ Digits :> <<M1, "NO">> @@ Bare2 :> <<M2, "YES">>
                             @@ <<"0xc2", "Lions">> :> <<M2, "YES">>
TokenAnswers ==
    Digits :> {[condition |-> M1, market |-> <<"17">>, outcome |-> "No"],
               [condition |-> M1, market |-> <<>>, outcome |-> "NO"]}

Arg == [kind |-> "limit", token |-> No1, side |-> "BUY", price |-> None,
        size |-> None, amount |-> None, maxSpend |-> None, maxPrice |-> None,
        minPrice |-> None, expiration |-> None, postOnly |-> FALSE, tif |-> "FAK"]
Limit(token, expiration) ==
    [Arg EXCEPT !.token = token, !.price = 40, !.size = 5, !.expiration = expiration]
Buy(token) ==
    [Arg EXCEPT !.kind = "market", !.token = token, !.amount = 20, !.maxSpend = 15,
                !.maxPrice = 60]
Sell(token) == [Arg EXCEPT !.kind = "market", !.token = token, !.side = "SELL",
                           !.size = 5]
Call == [op |-> "post", args |-> <<>>, batch |-> FALSE, asked |-> "GTC",
         postOnly |-> FALSE, ids |-> <<>>, market |-> <<>>, token |-> <<>>]
Post(args) == [Call EXCEPT !.args = args, !.batch = Len(args) > 1]
Cancel(ids) == [Call EXCEPT !.op = "cancel", !.ids = ids]
CancelMarket(market, token) ==
    [Call EXCEPT !.op = "cancelMarket", !.market = market, !.token = token]
Balance(token) == [Call EXCEPT !.op = "balance", !.token = token]

PostedMC ==
    {Post(<<Limit(No1, 300)>>), Post(<<Limit(Digits, 100)>>), Post(<<Buy(Digits)>>),
     Post(<<Limit(No1, 300), Sell(Bare2)>>), Post(<<Limit(<<>>, None)>>),
     Post(<<Limit(<<"0xc2", "Lions">>, None)>>), Post(<<[Buy(No1) EXCEPT !.size = 1]>>)}

(* The drop-in takes the shares of a sell as its amount, and a zero for what  *)
(* is not given.                                                             *)
ClobLimit(token, expiration) ==
    [Limit(token, expiration) EXCEPT !.side = "buy", !.tif = "GTC"]
ClobMarket(side) ==
    [Arg EXCEPT !.kind = "market", !.token = Bare2, !.side = side, !.amount = 5,
                !.price = 0, !.expiration = 0, !.tif = "FOK"]
ClobPosted ==
    {Post(<<ClobLimit(Digits, 100)>>), Post(<<ClobMarket("SELL")>>),
     [Post(<<ClobLimit(No1, 0)>>) EXCEPT !.postOnly = TRUE]}
ClobBatch == Post(<<ClobLimit(Digits, 100), ClobMarket("SELL")>>)

CancelPosted == Cancel(<<<<t1, 1>>, <<"old", 1>>>>)
Sweeps1 == {CancelMarket(<<"17">>, <<>>), CancelMarket(<<>>, Digits)}
CancelAll == [Call EXCEPT !.op = "cancelAll"]

Plan(first, second) == t1 :> first @@ t2 :> second
Then(firsts, seconds) == {Plan(c, d) : c \in firsts, d \in seconds}

Refusals ==
    Then({CancelAll}, {Cancel(<<<<"old", 1>>, NoId>>), Cancel(<<>>),
                       CancelMarket(<<>>, <<>>), Cancel(<<<<"old", 1>>, <<"old", 1>>>>)})

PlansMC ==
    [c \in {"secure", "async"} |->
       Refusals \cup Then({Balance(<<>>)}, Sweeps1)
       \cup Then(PostedMC, {CancelPosted, Balance(Digits)})
       \cup Then({Post(<<Limit(No1, 300)>>)}, Sweeps1 \cup {Post(<<Buy(Digits)>>)})
       \cup Then({Post(<<Limit(No1, 300), Sell(Bare2)>>)}, {Post(<<Sell(Bare2)>>)})] @@
    "clob" :> Refusals \cup Then(ClobPosted, {CancelPosted, ClobBatch} \cup Sweeps1)

Rest(market, outcome) ==
    [market |-> market, outcome |-> outcome, status |-> "open", by |-> "bot",
     place |-> 1, wire |-> LimitBody(Limit(No1, None), <<market, outcome>>)]
RestingMC == <<"old", 1>> :> Rest(M2, "NO")
===============================================================================
