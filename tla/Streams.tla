-------------------------------- MODULE Streams -------------------------------
(***************************************************************************)
(* What a subscription tells the bot.  A spec is checked and opened on one   *)
(* of three feeds; every frame of the feed is turned into events, filtered   *)
(* by the spec.  The server names a market by its condition id, the bot by   *)
(* tokens; prices and last trades come as a blob of the market's latest, in  *)
(* which side and size belong to the last trade of any outcome.  Frames in   *)
(* flight are lost when the feed reconnects.  A frame ends the subscription  *)
(* if a price, a side or a time of it that an event takes cannot be read.    *)
(*                                                                         *)
(* The handle the events go through is StreamHandle, the reconnecting feed   *)
(* Reconnect; here events arrive in told as they are pushed.                 *)
(***************************************************************************)
EXTENDS Naturals, Tokens, FiniteSets, FiniteSetsExt, SequencesExt

CONSTANTS
    Clients,     (* of "public" and "secure"                                *)
    Specs,       (* the specs the bot subscribes with                       *)
    Labels,      (* market id -> its outcomes, as the server spells them    *)
    Values,      (* the prices an outcome can come with                     *)
    Numbers,     (* those of them that can be read                          *)
    TradeSides,  (* the sides a trade is stamped with, None for none        *)
    PriceStamps, (* the kinds of emit_ts_ms a blob comes with               *)
    FillForms,   (* the side, price and kind of filled_at a fill comes with *)
    Batches,     (* the batches of crypto updates the feed sends            *)
    MaxEvents    (* bound: how much happens at the server, by kind of spec  *)

VARIABLES
    client,      (* the client in use                                       *)
    keeps,       (* whether a blob keeps an outcome's last trade            *)
    spec,        (* the spec the bot has chosen, as it is after its checks  *)
    status,      (* "new", "refused", "open" or "ended"                     *)
    source,      (* what the feed was asked for                             *)
    blob,        (* the server: market -> what is latest of it              *)
    feed,        (* frames in flight                                        *)
    told,        (* the events pushed to the bot                            *)
    happened,    (* for the properties: what happened at the server         *)
    missed,      (* for the properties: the markets whose latest frame was  *)
                 (* lost, and the fills whose frame was                     *)
    taken        (* for the properties: the frames taken from the feed      *)

vars == <<client, keeps, spec, status, source, blob, feed, told, happened,
          missed, taken>>

None == "none"

(* A filter: everything, or only the ids of a set. *)
All == [all |-> TRUE, ids |-> {}]
Only(ids) == [all |-> FALSE, ids |-> ids]
Admits(filter, id) == filter.all \/ id \in filter.ids
-----------------------------------------------------------------------------
(* Specs. *)

Topics == {"prices.crypto.binance", "prices.crypto.chainlink"}

ValidMarketSpec(s) == s.kind = "market" /\ s.filter.ids # {}
                      /\ \A t \in s.filter.ids : ~IsEmpty(t)

ValidCryptoSpec(s) == s.kind = "crypto" /\ s.topic \in Topics
                      /\ (s.filter.all \/ s.filter.ids # {}) /\ "" \notin s.filter.ids

ValidUserSpec(s) == s.kind = "user" /\ \A m \in s.filter.ids : ~IsEmpty(m)

(* Mutant: an empty list of markets is kept. *)
KeptSpec(s) == s

(* An empty list of markets is none: the events of all. *)
Normalized(s) ==
    IF s.kind = "user" /\ s.filter = Only({}) THEN [s EXCEPT !.filter = All] ELSE s

(* Which topics a client opens; the events of a user need an account. *)
Opens(c, s) == s.kind \in (IF c = "secure" THEN {"market", "crypto", "user"}
                           ELSE {"market", "crypto"})

(* The markets of a price feed, the source of a crypto feed. *)
Source(s) ==
    CASE s.kind = "market" -> [feed |-> "prices", filter |-> Only(ConditionIds(s.filter.ids))]
      [] s.kind = "crypto" -> [feed |-> "spot", filter |-> s.filter]
      [] s.kind = "user" -> [feed |-> "executions", filter |-> All]
-----------------------------------------------------------------------------
(* Frames to events.  Every adapter answers the events of a frame, and       *)
(* whether they could all be made: else none is pushed.                      *)

Made(events) == [ok |-> TRUE, events |-> events]
Unmade == [ok |-> FALSE, events |-> <<>>]

PriceEvents(token, entry) ==
    IF entry.price = None THEN <<>>
    ELSE <<[type |-> "price_change", token |-> token, price |-> entry.price]>>

(* Mutant: a trade without a side is told as a BUY. *)
TradeEventsBuying(token, entry, frame) ==
    IF entry.last = None THEN <<>>
    ELSE <<[type |-> "last_trade_price", token |-> token, price |-> entry.last,
            side |-> IF frame.side = None THEN "BUY" ELSE Upper(frame.side),
            size |-> frame.size]>>

(* The price is the outcome's, side and size are the blob's. *)
TradeEvents(token, entry, frame) ==
    IF entry.last = None \/ frame.side = None THEN <<>>
    ELSE <<[type |-> "last_trade_price", token |-> token, price |-> entry.last,
            side |-> Upper(frame.side), size |-> frame.size]>>

(* What the fields of the events are read from.  A price stands for the sizes  *)
(* and the best bid and ask that come with it, too.                          *)
Readable(value) == value \in Numbers
ReadableSide(side) == Upper(side) \in {"BUY", "SELL"}

(* Mutant: the time goes to the validator as it was sent. *)
EmittedAsSent(stamp) == stamp

(* emit_ts_ms as it is handed to the events: a whole number becomes its        *)
(* digits, and what is neither is left out.                                  *)
Emitted(stamp) ==
    CASE stamp \in {"int", "digits"} -> "digits"
      [] stamp = "huge" -> stamp
      [] OTHER -> None

(* What the validator of a blob's time lets through. *)
EpochMs(stamp) == stamp \in {None, "datetime", "digits"}

EntryCanBeMade(entry, frame) ==
    LET timely == EpochMs(Emitted(frame.stamp))
    IN  /\ entry.price = None \/ (Readable(entry.price) /\ timely)
        /\ \/ entry.last = None \/ frame.side = None
           \/ Readable(entry.last) /\ ReadableSide(frame.side) /\ timely

AdaptPricesFrame(frame, wanted) ==
    LET Token(entry) == MakeToken(frame.market, entry.label)
        Wanted(entry) == Token(entry) # NoToken /\ Token(entry) \in wanted
        Of(entry) ==
          IF Wanted(entry)
          THEN PriceEvents(Token(entry), entry) \o TradeEvents(Token(entry), entry, frame)
          ELSE <<>>
    IN  IF frame.type # "price" THEN Made(<<>>)
        ELSE IF \A i \in DOMAIN frame.outcomes :
                  Wanted(frame.outcomes[i]) => EntryCanBeMade(frame.outcomes[i], frame)
        THEN Made(FlattenSeq([i \in DOMAIN frame.outcomes |-> Of(frame.outcomes[i])]))
        ELSE Unmade

(* filled_at as it is handed to the event: an ISO text is read first, and    *)
(* what is no time is left out.  A number stays what it is.                  *)
FilledAt(stamp) ==
    CASE stamp = "iso" -> "datetime"
      [] stamp \in {"int", "digits", "float", "huge", "datetime"} -> stamp
      [] OTHER -> None

(* What the validators of the two kinds of event times let through.          *)
EpochSecondsOrMs(stamp) == stamp \in {None, "datetime", "int", "digits"}
EpochMsOrIso(stamp) == stamp \in {None, "datetime", "int", "digits", "iso"}

(* A side or a price that is missing is made up: BUY, and 0. *)
FillCanBeMade(frame) ==
    /\ frame.side = None \/ ReadableSide(frame.side)
    /\ frame.price = None \/ Readable(frame.price)
    /\ EpochSecondsOrMs(FilledAt(frame.stamp))

AdaptExecutionFrame(frame, markets) ==
    LET token == MakeToken(frame.market, frame.outcome)
        event(type) == [type |-> type, id |-> frame.id, token |-> token]
    IN  IF \/ frame.type # "fill"
           \/ ~Admits(markets, frame.market)
           \/ token = NoToken
        THEN Made(<<>>)
        ELSE IF FillCanBeMade(frame)
        THEN Made(<<event("trade"), event("order")>>)
        ELSE Unmade

(* Mutant: what does not say Binance is Chainlink's. *)
TopicOfSubstring(label) ==
    IF label \in {"binance", "relay_binance"} THEN "prices.crypto.binance"
    ELSE "prices.crypto.chainlink"

(* The topic of a source label, None if it is of neither. *)
TopicOf(label) ==
    CASE label \in {"binance", "polymarket_rtds", "relay_binance"} -> "prices.crypto.binance"
      [] label \in {"chainlink", "chainlink_rtds"} -> "prices.crypto.chainlink"
      [] OTHER -> None

CryptoEventFor(update, s) ==
    IF \/ update.symbol = None \/ update.price = None
       \/ TopicOf(update.source) # s.topic
       \/ ~Admits(s.filter, update.symbol)
    THEN Made(<<>>)
    ELSE IF EpochMsOrIso(update.stamp) /\ Readable(update.price)
    THEN Made(<<[type |-> "update", topic |-> TopicOf(update.source),
                 symbol |-> update.symbol, price |-> update.price]>>)
    ELSE Unmade

(* One update, or a batch of them. *)
AdaptSpotFrame(frame, s) ==
    IF frame.type \notin {"crypto_price", "crypto_price_batch"} THEN Made(<<>>)
    ELSE LET each == [i \in DOMAIN frame.updates |-> CryptoEventFor(frame.updates[i], s)]
         IN  IF \E i \in DOMAIN each : ~each[i].ok THEN Unmade
             ELSE Made(FlattenSeq([i \in DOMAIN each |-> each[i].events]))

Adapted(frame) ==
    CASE spec.kind = "market" -> AdaptPricesFrame(frame, spec.filter.ids)
      [] spec.kind = "user" -> AdaptExecutionFrame(frame, spec.filter)
      [] spec.kind = "crypto" -> AdaptSpotFrame(frame, spec)
-----------------------------------------------------------------------------
Markets == DOMAIN Labels

(* A market has an id and labels, which differ whatever their case; a spec has *)
(* a kind and a filter; and the bounds are numbers.                          *)
ASSUME LabelsAssumption ==
    \A m \in Markets :
        /\ m \in Seq(Range(m)) /\ ~IsEmpty(m)
        /\ Labels[m] \in Seq(Range(Labels[m])) /\ "" \notin Range(Labels[m])
        /\ \A i, j \in DOMAIN Labels[m] :
             Upper(Labels[m][i]) = Upper(Labels[m][j]) => i = j

ASSUME SpecsAssumption ==
    /\ \A s \in Specs :
         /\ s.kind \in {"market", "crypto", "user"} /\ {"kind", "filter"} \subseteq DOMAIN s
         /\ s.filter = All \/ s.filter = Only(s.filter.ids)
    /\ \A kind \in {"market", "crypto", "user"} : MaxEvents[kind] \in Nat

(* The time of a crypto update is one of the forms a time can have, and its   *)
(* source one of the labels of its exchange, if it is one of the two.        *)
ASSUME BatchesAssumption ==
    \A batch \in Batches :
        /\ batch \in Seq(Range(batch))
        /\ \A i \in DOMAIN batch :
             LET u == batch[i]
             IN  /\ u.stamp \in {None, "datetime", "int", "digits", "iso", "float",
                                 "huge", "bad", "bool", "object"}
                 /\ u.exchange = "prices.crypto.binance" <=>
                       u.source \in {"binance", "polymarket_rtds", "relay_binance"}
                 /\ u.exchange = "prices.crypto.chainlink" <=>
                       u.source \in {"chainlink", "chainlink_rtds"}

Each(m, value) == [i \in DOMAIN Labels[m] |-> value]

Init ==
    /\ client \in Clients
    /\ keeps \in BOOLEAN
    /\ spec \in Specs
    /\ status = "new"
    /\ source = [feed |-> None, filter |-> Only({})]
    /\ \E value \in Values \cup {None} :
         blob = [m \in Markets |-> [price |-> Each(m, value), last |-> Each(m, None),
                                    side |-> None, size |-> 0]]
    /\ feed = <<>>
    /\ told = <<>>
    /\ happened = <<>>
    /\ missed = [markets |-> {}, fills |-> {}]
    /\ taken = <<>>

(* The spec is checked as it is built, then opened. *)
Subscribe ==
    /\ status = "new"
    /\ IF (ValidMarketSpec(spec) \/ ValidCryptoSpec(spec) \/ ValidUserSpec(spec))
          /\ Opens(client, spec)
       THEN /\ spec' = Normalized(spec)
            /\ source' = Source(Normalized(spec))
            /\ status' = "open"
       ELSE status' = "refused" /\ UNCHANGED <<spec, source>>
    /\ UNCHANGED <<client, keeps, blob, feed, told, happened, missed, taken>>

(* The pump takes the next frame: all of its events are pushed, or the        *)
(* subscription ends with the error of the first that could not be made.     *)
Pump ==
    /\ status = "open" /\ feed # <<>>
    /\ LET made == Adapted(Head(feed))
       IN  /\ told' = told \o made.events
           /\ status' = IF made.ok THEN "open" ELSE "ended"
    /\ taken' = Append(taken, Head(feed))
    /\ feed' = Tail(feed)
    /\ UNCHANGED <<client, keeps, spec, source, blob, happened, missed>>
-----------------------------------------------------------------------------
(* The server. *)

Happens(kind, event) ==
    /\ status = "open" /\ spec.kind = kind
    /\ Len(happened) < MaxEvents[kind]
    /\ happened' = Append(happened, event)
    /\ UNCHANGED <<client, keeps, spec, status, source, told, taken>>

BlobFrame(m, b, stamp) ==
    [type |-> "price", market |-> m, side |-> b.side, size |-> b.size, stamp |-> stamp,
     outcomes |-> [i \in DOMAIN Labels[m] |->
                     [label |-> Labels[m][i], price |-> b.price[i], last |-> b.last[i]]]]

(* The blob of a market changes, and is broadcast as it is. *)
Broadcast(m, b) ==
    /\ blob' = [blob EXCEPT ![m] = b]
    /\ \E stamp \in PriceStamps :
         feed' = IF Admits(source.filter, m) THEN Append(feed, BlobFrame(m, b, stamp))
                 ELSE feed
    /\ missed' = [missed EXCEPT !.markets = @ \ {m}]

PriceMoves ==
    \E m \in Markets, value \in Values : \E i \in DOMAIN Labels[m] :
        /\ value # blob[m].price[i]
        /\ Happens("market", [kind |-> "price", market |-> m])
        /\ Broadcast(m, [blob[m] EXCEPT !.price[i] = value,
                                        !.last = IF keeps THEN @ ELSE Each(m, None)])

Trade ==
    \E m \in Markets, value \in Values, side \in TradeSides :
        \E i \in DOMAIN Labels[m] :
            LET size == Len(happened) + 1
                last == [k \in DOMAIN Labels[m] |->
                           IF k = i THEN value
                           ELSE IF keeps THEN blob[m].last[k] ELSE None]
            IN  /\ Happens("market", [kind |-> "trade", market |-> m, label |-> Labels[m][i],
                                      price |-> value, side |-> side, size |-> size])
                /\ Broadcast(m, [blob[m] EXCEPT !.last = last, !.side = side, !.size = size])

(* An order of the account fills; the frame may lack the outcome. *)
Fill ==
    \E m \in Markets, form \in FillForms : \E l \in Range(Labels[m]) \cup {""} :
        LET id == Len(happened) + 1
        IN  /\ Happens("user", [kind |-> "fill", id |-> id, market |-> m, label |-> l])
            /\ feed' = Append(feed, [type |-> "fill", id |-> id, market |-> m, outcome |-> l,
                                     side |-> form.side, price |-> form.price,
                                     stamp |-> form.stamp])
            /\ UNCHANGED <<blob, missed>>

(* The prices of symbols move: one update, or a batch. *)
Tick ==
    \E batch \in Batches :
        /\ Happens("crypto", [kind |-> "tick"])
        /\ feed' = Append(feed, [type |-> IF Len(batch) = 1 THEN "crypto_price"
                                          ELSE "crypto_price_batch",
                                 updates |-> batch])
        /\ UNCHANGED <<blob, missed>>

(* An acknowledgement, a pong, a keepalive. *)
OtherFrame ==
    /\ Happens(spec.kind, [kind |-> "other"])
    /\ feed' = Append(feed, [type |-> "other"])
    /\ UNCHANGED <<blob, missed>>

Frames(seq, type) == {seq[i] : i \in {j \in DOMAIN seq : seq[j].type = type}}

(* The feed reconnects: what was in flight is gone. *)
Drop ==
    /\ status = "open" /\ feed # <<>>
    /\ missed' = [markets |-> missed.markets \cup {f.market : f \in Frames(feed, "price")},
                  fills |-> missed.fills \cup {f.id : f \in Frames(feed, "fill")}]
    /\ feed' = <<>>
    /\ UNCHANGED <<client, keeps, spec, status, source, blob, told, happened, taken>>

Done ==
    /\ status \in {"refused", "ended"} \/ Len(happened) = MaxEvents[spec.kind]
    /\ UNCHANGED vars

Next ==
    \/ Subscribe \/ Pump \/ PriceMoves \/ Trade \/ Fill \/ Tick \/ OtherFrame
    \/ Drop \/ Done

Spec == Init /\ [][Next]_vars
-----------------------------------------------------------------------------
(* Properties. *)

(* Types; an open stream is never one that can tell nothing. *)
TypeOK ==
    /\ client \in Clients
    /\ status \in {"new", "refused", "open", "ended"}
    /\ status \in {"open", "ended"} => spec.filter.all \/ spec.filter.ids # {}
    /\ Len(happened) <= MaxEvents[spec.kind] /\ Len(taken) + Len(feed) <= Len(happened)
    /\ missed.markets \subseteq Markets
    /\ \A i \in DOMAIN told :
         told[i].type \in {"price_change", "last_trade_price", "trade", "order", "update"}

Told(type, token) == {i \in DOMAIN told : told[i].type = type /\ told[i].token = token}

Happened(kind) == {happened[i] : i \in {j \in DOMAIN happened : happened[j].kind = kind}}

(* Whatever the bot asked for by its token, Up and Down and other labels too, *)
(* is told at its present price once the feed has nothing left in flight,    *)
(* unless the latest frame of its market was lost.                           *)
PricesAreCurrent ==
    status = "open" /\ spec.kind = "market" /\ feed = <<>> =>
        \A e \in Happened("price") : \A i \in DOMAIN Labels[e.market] :
            LET token == e.market \o <<Upper(Labels[e.market][i])>>
                price == blob[e.market].price[i]
            IN  e.market \notin missed.markets /\ token \in spec.filter.ids /\ price # None
                => /\ Told("price_change", token) # {}
                   /\ told[Max(Told("price_change", token))].price = price

(* A last trade that is told took place: at that price, of that outcome; if  *)
(* the server tells an outcome's last trade only once, with that side and    *)
(* size.  A side the server did not tell is not made up.                     *)
TradesToldTookPlace ==
    \A i \in DOMAIN told :
        told[i].type = "last_trade_price" =>
            \E t \in Happened("trade") :
                /\ told[i].token = t.market \o <<Upper(t.label)>>
                /\ told[i].price = t.price
                /\ ~keeps => /\ told[i].side = Upper(t.side)
                            /\ told[i].size = t.size

(* The token of an event is one to trade with: an order or a book read that  *)
(* is given it goes to an outcome the server has (_make_token).              *)
TokensToldCanBeTraded ==
    \A i \in DOMAIN told :
        told[i].type # "update" /\ LabelPart(told[i].token) \in Outcomes =>
            \E m \in Markets : \E l \in Range(Labels[m]) :
                /\ Meant(SplitToken(told[i].token)) = <<m, Upper(l)>>
                /\ BookRoute(told[i].token) =
                     [by |-> "market", id |-> m, outcome |-> Upper(l)]

(* Together: an event is of a trade that took place, and of a token that can  *)
(* be traded.                                                                *)
WhatIsToldIsSo == TradesToldTookPlace /\ TokensToldCanBeTraded

(* Every fill of the account in the markets asked for is told, as one trade  *)
(* and one update of its order, in the order of the fills; none twice, none  *)
(* of another market, and none whose outcome the server left out.            *)
FillsAreTold ==
    spec.kind = "user" =>
        /\ status = "open" /\ feed = <<>> =>
             \A f \in Happened("fill") :
                LET of == {i \in DOMAIN told : told[i].id = f.id}
                    meant == Admits(spec.filter, f.market) /\ f.label # ""
                IN  /\ of # {} => meant /\ Cardinality(of) = 2
                    /\ meant /\ f.id \notin missed.fills =>
                         {told[i].type : i \in of} = {"trade", "order"}
        /\ \A i, j \in DOMAIN told : i < j => told[i].id <= told[j].id

(* The updates of a frame that a crypto topic was asked for: those of its own *)
(* exchange that have a symbol and a price.                                  *)
AskedFor(u) ==
    u.exchange = spec.topic /\ u.symbol # None /\ u.price # None
    /\ Admits(spec.filter, u.symbol)

(* The times that are none, by kind of spec.  A float is one (a comment in the *)
(* adapter, _adapt.py:351-352, has the validator take it; it does not).      *)
NoTimes ==
    CASE spec.kind = "market" -> {"huge"}
      [] spec.kind = "user" -> {"float", "huge"}
      [] spec.kind = "crypto" -> {"float", "huge", "bad", "bool", "object"}

(* Whether something of a frame that was asked for, and is there, cannot be    *)
(* told: its price, its side or its time cannot be read.                     *)
CannotBeTold(frame) ==
    CASE frame.type = "price" ->
           \E i \in DOMAIN frame.outcomes :
             LET o == frame.outcomes[i]
             IN  /\ frame.market \o <<Upper(o.label)>> \in spec.filter.ids
                 /\ \/ o.price # None /\ (~Readable(o.price) \/ frame.stamp \in NoTimes)
                    \/ /\ o.last # None /\ frame.side # None
                       /\ \/ ~Readable(o.last) \/ ~ReadableSide(frame.side)
                          \/ frame.stamp \in NoTimes
      [] frame.type = "fill" ->
           /\ frame.outcome # "" /\ Admits(spec.filter, frame.market)
           /\ \/ frame.price # None /\ ~Readable(frame.price)
              \/ frame.side # None /\ ~ReadableSide(frame.side)
              \/ frame.stamp \in NoTimes
      [] frame.type \in {"crypto_price", "crypto_price_batch"} ->
           \E i \in DOMAIN frame.updates :
             LET u == frame.updates[i]
             IN  AskedFor(u) /\ (~Readable(u.price) \/ u.stamp \in NoTimes)
      [] OTHER -> FALSE

(* A subscription ends at the first frame in which something it asked for      *)
(* cannot be told, and at no other: whatever is wrong with outcomes, markets, *)
(* symbols and exchanges it did not ask for, and whatever is missing or no    *)
(* time at all (_coerce_epoch_ms_str, _parse_fill_timestamp), does not end it. *)
EndsAtWhatItAskedFor ==
    status \in {"open", "ended"} =>
        \A i \in DOMAIN taken :
            CannotBeTold(taken[i]) <=> status = "ended" /\ i = Len(taken)

UpdatesAskedFor(frame) ==
    LET event(u) == [type |-> "update", topic |-> spec.topic, symbol |-> u.symbol,
                     price |-> u.price]
    IN  IF frame.type = "other" THEN <<>>
        ELSE FlattenSeq([i \in DOMAIN frame.updates |->
                           IF AskedFor(frame.updates[i]) THEN <<event(frame.updates[i])>>
                           ELSE <<>>])

(* A crypto topic tells the updates of its own exchange and of no other, in  *)
(* the order they were sent, a batch whole; the frame that ends the          *)
(* subscription it does not tell in part.                                    *)
TopicsTellTheirExchange ==
    spec.kind = "crypto" /\ status \in {"open", "ended"} =>
        LET whole == SubSeq(taken, 1, Len(taken) - (IF status = "ended" THEN 1 ELSE 0))
        IN  told = FlattenSeq([i \in DOMAIN whole |-> UpdatesAskedFor(whole[i])])

(* Together: the feed of an account and of an exchange is told whole, in      *)
(* order, and nothing of another is.                                         *)
FeedsAreToldWhole == FillsAreTold /\ TopicsTellTheirExchange
=============================================================================
