------------------------------- MODULE MCStreams ------------------------------
(* Bounds: a binary market and one of a match with an Up, two prices and one  *)
(* that is no number, two events at the server, three of a crypto feed.      *)
EXTENDS Streams, TLC

C1 == <<"0xc1">>
C2 == <<"0xc2">>
Digits == <<"7113">>
DigitTokens == {Digits}
LabelsMC == C1 :> <<"Yes", "No">> @@ C2 :> <<"Up", "Lions">>

MarketSpec(tokens) == [kind |-> "market", filter |-> Only(tokens)]
CryptoSpec(topic, filter) == [kind |-> "crypto", topic |-> topic, filter |-> filter]
UserSpec(filter) == [kind |-> "user", filter |-> filter]

SpecsMC ==
    {MarketSpec({<<"0xc1", "NO">>, <<"0xc2", "LIONS">>}),
     MarketSpec({<<"0xc1", "yes">>, <<"0xc2", "UP">>, Digits}), MarketSpec({}), MarketSpec({<<"">>}),
     CryptoSpec("prices.crypto.binance", All),
     CryptoSpec("prices.crypto.chainlink", Only({"BTC"})),
     CryptoSpec("prices.crypto.binance", Only({})), CryptoSpec("prices.equity", All),
     UserSpec(All), UserSpec(Only({})), UserSpec(Only({C1}))}

Update(symbol, price, label, exchange, stamp) ==
    [symbol |-> symbol, price |-> price, source |-> label, exchange |-> exchange,
     stamp |-> stamp]
Binance == Update("BTC", "p1", "polymarket_rtds", "prices.crypto.binance", "iso")
Relayed == Update("ETH", "p2", "relay_binance", "prices.crypto.binance", "int")
Chainlink == Update("BTC", "p2", "chainlink_rtds", "prices.crypto.chainlink", "digits")
Unpriced == Update("BTC", None, "chainlink", "prices.crypto.chainlink", None)
Unknown == Update("BTC", "p1", "pyth", "other", "iso")
OddTime == Update("BTC", "p2", "binance", "prices.crypto.binance", "float")
NoNumber == Update("ETH", "n/a", "chainlink", "prices.crypto.chainlink", "bool")
BatchesMC == {<<Binance>>, <<Chainlink>>, <<Relayed, Chainlink, Binance>>,
              <<Unknown, Unpriced, Chainlink>>, <<Binance, OddTime>>, <<Chainlink, NoNumber>>,
              <<[NoNumber EXCEPT !.symbol = "BTC", !.stamp = "int"]>>}

FillForm(side, price, stamp) == [side |-> side, price |-> price, stamp |-> stamp]
FillFormsMC ==
    {FillForm("BUY", "p1", stamp) : stamp \in {"iso", "int", "float", "huge", "bad", "object"}}
    \cup {FillForm(None, None, "iso"), FillForm("hold", "p1", "iso"),
          FillForm("sell", "n/a", None)}

Bounds == [market |-> 2, crypto |-> 3, user |-> 2]
===============================================================================
