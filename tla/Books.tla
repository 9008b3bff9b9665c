-------------------------------- MODULE Books ---------------------------------
(***************************************************************************)
(* Reading order books.  Every price a client tells is computed from one    *)
(* GET of a book: best levels, midpoint, spread, the price a market order   *)
(* has to reach.  A plural read is one GET per token, and the book moves    *)
(* between them, as it moves between an estimate and the order placed with  *)
(* it.  Only the drop-in keeps something: the tick size of a token.         *)
(*                                                                         *)
(* Prices are in cents, sizes in shares, notionals in cents.                *)
(***************************************************************************)
EXTENDS Integers, Tokens, FiniteSets, SequencesExt, FiniteSetsExt, Functions, TLC

CONSTANTS
    Clients,     (* of "public", "async", "secure", "async_secure", "clob"  *)
    Calls,       (* the calls of the bot                                    *)
    Snapshots,   (* the books the server may show for an outcome            *)
    Records,     (* last trade prices a market record may have              *)
    Outcome,     (* token -> the outcome it stands for                      *)
    FirstOutcome,(* market id -> the outcome a book read without one is of  *)
    None,        (* what is not there, or cannot be read                    *)
    MaxMoves,    (* bound: how often books move                             *)
    MaxCalls     (* bound: how many calls the bot makes                     *)

(* A token has an outcome; what makes a token's tick is asked of one token   *)
(* at least.                                                                 *)
ASSUME BooksAssumption ==
    \A c \in Clients : \A k \in Calls[c] :
        k.op = "tick" =>
          /\ k.requests \in Seq(Range(k.requests)) /\ k.requests # <<>>
          /\ \A i \in DOMAIN k.requests : k.requests[i].token \in DOMAIN Outcome

(* Requests come in a sequence, of the drop-in one at least; and a colon token *)
(* stands for the outcome it names.                                          *)
ASSUME RequestsAssumption ==
    \A c \in Clients : \A k \in Calls[c] :
        /\ k.requests \in Seq(Range(k.requests))
        /\ c = "clob" \/ k.op = "estimate" => k.requests # <<>>
        /\ \A i \in DOMAIN k.requests :
             LET token == k.requests[i].token
             IN  NamesOutcome(token) =>
                   /\ token \in DOMAIN Outcome
                   /\ Outcome[token] = <<MarketPart(token), Upper(LabelPart(token))>>

(* A target is a number, and an average is of no negative number of shares.   *)
ASSUME TargetsAssumption ==
    \A c \in Clients : \A k \in Calls[c] : \A i \in DOMAIN k.requests :
        /\ k.op = "estimate" => k.requests[i].target \in Int
        /\ k.op = "average" => k.requests[i].target \in Nat

(* A side of a book is a list of levels; its tick size is told or not.       *)
ASSUME SnapshotsAssumption ==
    LET Sides == Seq([price : Nat \cup {None}, size : Nat])
    IN  /\ \A book \in Snapshots :
             /\ book.bids \in Sides /\ book.asks \in Sides
             /\ book.tick \in Nat \ {0} \/ book.tick = None
        /\ None \notin Int
        /\ MaxMoves \in Nat /\ MaxCalls \in Nat

VARIABLES
    client,      (* the client in use                                       *)
    books,       (* the server: outcome -> book                             *)
    moves,       (* how often a book has moved                              *)
    calls,       (* how many calls the bot has begun                        *)
    call,        (* the call under way, or Idle                             *)
    out,         (* the answers so far, one for each GET, or for a tick     *)
    ticks,       (* token -> tick size: _tick_sizes                         *)
    shown,       (* for the properties: the ticks a token's book has shown  *)
                 (* since its cached tick was last dropped                  *)
    fok          (* the order sent with an estimate: none yet, filled,      *)
                 (* killed, or outrun by a move of the book                 *)

vars == <<client, books, moves, calls, call, out, ticks, shown, fok>>

DefaultTick == 1
Idle == [op |-> "idle", requests |-> <<>>]
-----------------------------------------------------------------------------
(* Levels.  A level that cannot be read (its price is None) is skipped.      *)

(* _to_levels and decimal_levels. *)
Levels(side) ==
    LET out_[n \in 0..Len(side)] ==
          IF n = 0 THEN <<>>
          ELSE IF side[n].price = None THEN out_[n - 1]
          ELSE Append(out_[n - 1], side[n])
    IN  out_[Len(side)]

Prices(levels) == {levels[i].price : i \in DOMAIN levels}

(* Mutant: the first level is taken for the best. *)
FirstLevel(levels) == IF levels = <<>> THEN None ELSE levels[1].price

BestBid(levels) == IF levels = <<>> THEN None ELSE Max(Prices(levels))
BestAsk(levels) == IF levels = <<>> THEN None ELSE Min(Prices(levels))

(* sorted(levels, key): stable, equals stay in their order, reversed or not. *)
Before(key, i) == {j \in DOMAIN key : key[j] < key[i] \/ (key[j] = key[i] /\ j < i)}
Sorted(levels, key) ==
    [k \in DOMAIN levels |->
        levels[CHOOSE i \in DOMAIN levels : Cardinality(Before(key, i)) = k - 1]]

Ascending(levels) == Sorted(levels, [i \in DOMAIN levels |-> levels[i].price])
Descending(levels) == Sorted(levels, [i \in DOMAIN levels |-> -levels[i].price])

(* The levels a market order of a side meets, the best first. *)
Facing(book, side) ==
    IF side = "BUY" THEN Ascending(Levels(book.asks)) ELSE Descending(Levels(book.bids))

(* Mutant: a book without a tick size has the 0 of a number that is missing. *)
TickAsTold(book) == IF book.tick = None THEN 0 ELSE book.tick

TickOf(book) == IF book.tick = None THEN DefaultTick ELSE book.tick
-----------------------------------------------------------------------------
(* polysim_polymarket. *)

AdaptBook(book) == [bids |-> Ascending(Levels(book.bids)),
                    asks |-> Descending(Levels(book.asks))]

BothSides(book) == Levels(book.bids) # <<>> /\ Levels(book.asks) # <<>>

(* A one-sided book has neither midpoint nor spread: the drop-in tells None,  *)
(* these clients 0.  Of a midpoint twice the price is told, to stay integral. *)
Midpoint(book) ==
    IF BothSides(book) THEN BestBid(Levels(book.bids)) + BestAsk(Levels(book.asks))
    ELSE None

Spread(book) ==
    IF BothSides(book) THEN BestAsk(Levels(book.asks)) - BestBid(Levels(book.bids))
    ELSE None

(* Of the last trade the typed clients tell the price, or 0; that it was a   *)
(* BUY they make up, and it is left out here.                                *)
LastTrade(book) == book.last

OrZero(value) == IF value = None THEN 0 ELSE value

(* What a taker gets: a buy the best ask. *)
PublicPrice(book, side) ==
    IF side = "BUY" THEN BestAsk(Levels(book.asks)) ELSE BestBid(Levels(book.bids))

(* Where a resting order would post: a buy at the best bid. *)
ClobPrice(book, side) ==
    IF Upper(side) = "BUY" THEN BestBid(Levels(book.bids)) ELSE BestAsk(Levels(book.asks))

(* Mutant: a buy counts shares where it should count dollars. *)
CumulativeShares(levels, side) ==
    LET cumulative[n \in 0..Len(levels)] ==
          IF n = 0 THEN 0 ELSE cumulative[n - 1] + levels[n].size
    IN  cumulative

(* cumulative[n]: what the first n levels hold, in cents for a buy, in       *)
(* shares for a sell.                                                        *)
Cumulative(levels, side) ==
    LET cumulative[n \in 0..Len(levels)] ==
          IF n = 0 THEN 0
          ELSE cumulative[n - 1]
               + levels[n].size * (IF side = "BUY" THEN levels[n].price ELSE 1)
    IN  cumulative

(* The price of the level that completes the order, None if there is none;   *)
(* FAK then settles for the worst level.                                     *)
MarginalPrice(levels, target, type, side) ==
    LET enough == {n \in DOMAIN levels : Cumulative(levels, side)[n] >= target}
    IN  IF enough # {} THEN levels[Min(enough)].price
        ELSE IF levels = <<>> \/ type = "FOK" THEN None
        ELSE levels[Len(levels)].price

InBand(price, book) == TickOf(book) <= price /\ price <= 100 - TickOf(book)

EstimateFromBook(book, r) ==
    LET price == MarginalPrice(Facing(book, r.side), r.target, r.type, r.side)
    IN  IF price # None /\ InBand(price, book) THEN price ELSE None

ValidEstimate(r) ==
    /\ ~IsEmpty(r.token)
    /\ r.side \in {"BUY", "SELL"}
    /\ r.target > 0
    /\ r.type \in {"FAK", "FOK"}

(* A plural checks its list first, and the sides of a price list with it; a  *)
(* token only when its turn has come.                                        *)
ValidRequests(c) ==
    /\ c.requests # <<>>
    /\ c.op = "price" =>
         \A i \in DOMAIN c.requests :
            /\ ~IsEmpty(c.requests[i].token)
            /\ c.requests[i].side \in {"BUY", "SELL"}
-----------------------------------------------------------------------------
(* polysim_clob_client: the average price of a walk, as what is spent and    *)
(* what is filled.  A buy walks the asks by shares too.                      *)

CalculateMarketPrice(book, r) ==
    LET levels == Facing(book, Upper(r.side))
        held   == Cumulative(levels, "SELL")
        take[n \in DOMAIN levels] ==
          Min({levels[n].size, Max({0, r.target - held[n - 1]})})
        spent[n \in 0..Len(levels)] ==
          IF n = 0 THEN 0 ELSE spent[n - 1] + take[n] * levels[n].price
    IN  [spent |-> spent[Len(levels)],
         filled |-> Min({r.target, held[Len(levels)]})]
-----------------------------------------------------------------------------
Init ==
    /\ client \in Clients
    /\ books \in [Range(Outcome) -> Snapshots]
    /\ moves = 0
    /\ calls = 0
    /\ call = Idle
    /\ out = <<>>
    /\ ticks = <<>>
    /\ shown = [token \in DOMAIN Outcome |-> {}]
    /\ fok = "none"

Failed == out # <<>> /\ out[Len(out)].kind = "error"
Finished == Failed \/ Len(out) >= IF call.op = "idle" THEN 0 ELSE Max({1, Len(call.requests)})
Next1 == call.requests[Len(out) + 1]
Reading(ops) == call.op \in ops /\ ~Finished

Begin ==
    /\ Finished
    /\ calls < MaxCalls
    /\ calls' = calls + 1
    /\ call' \in Calls[client]
    /\ out' = <<>>
    /\ fok' = "none"
    /\ UNCHANGED <<client, books, moves, ticks, shown>>

(* External: the outcome whose book a route leads to, <<>> for none. *)
Shows(route) ==
    IF route.by = "market"
    THEN <<route.id, IF route.outcome = "" THEN FirstOutcome[route.id]
                     ELSE route.outcome>>
    ELSE IF route.id \in DOMAIN Outcome THEN Outcome[route.id] ELSE <<>>

Nothing == [bids |-> <<>>, asks |-> <<>>, tick |-> None, last |-> None]
Answer(kind, of, book, value) ==
    out' = Append(out, [kind |-> kind, of |-> of, book |-> book, value |-> value])

(* A GET of a book, and what is made of it; an error ends the call.          *)
Get(token, value) ==
    LET of == Shows(BookRoute(token))
    IN  \/ of # <<>> /\ Answer("book", of, books[of], value[books[of]])
        \/ Answer("error", <<>>, Nothing, None)

TypedRead(c) ==
    /\ client = c /\ Reading({"book", "mid", "spread", "price", "last"})
    /\ IF ~ValidRequests(call) \/ IsEmpty(Next1.token) THEN Answer("error", <<>>, Nothing, None)
       ELSE Get(Next1.token, [book \in Snapshots |->
              CASE call.op = "book" -> AdaptBook(book)
                [] call.op = "mid" -> OrZero(Midpoint(book))
                [] call.op = "spread" -> OrZero(Spread(book))
                [] call.op = "last" -> OrZero(LastTrade(book))
                [] call.op = "price" -> OrZero(PublicPrice(book, Next1.side))])
    /\ UNCHANGED <<client, books, moves, calls, call, ticks, shown, fok>>

PublicRead == TypedRead("public")
AsyncRead == TypedRead("async")

(* The secure clients hand their reads on to a public one of their own. *)
SecureRead == TypedRead("secure")
AsyncSecureRead == TypedRead("async_secure")

EstimateOf(clients) ==
    /\ client \in clients /\ Reading({"estimate"})
    /\ IF ~ValidEstimate(Next1) THEN Answer("error", <<>>, Nothing, None)
       ELSE Get(Next1.token, [book \in Snapshots |-> EstimateFromBook(book, Next1)])
    /\ UNCHANGED <<client, books, moves, calls, call, ticks, shown, fok>>

Estimate == EstimateOf({"public", "secure"})
AsyncEstimate == EstimateOf({"async", "async_secure"})

ClobRead ==
    /\ client = "clob" /\ Reading({"mid", "spread", "price"})
    /\ Get(Next1.token, [book \in Snapshots |->
          CASE call.op = "mid" -> Midpoint(book)
            [] call.op = "spread" -> Spread(book)
            [] call.op = "price" -> ClobPrice(book, Next1.side)])
    /\ UNCHANGED <<client, books, moves, calls, call, ticks, shown, fok>>

(* A book that has no last trade has its market's record asked, which knows   *)
(* of one price only, whatever the outcome.                                  *)
ClobLast ==
    /\ client = "clob" /\ Reading({"last"})
    /\ \E record \in Records :
         Get(Next1.token, [book \in Snapshots |->
               IF LastTrade(book) # None THEN LastTrade(book) ELSE record])
    /\ UNCHANGED <<client, books, moves, calls, call, ticks, shown, fok>>

ClobAverage ==
    /\ client = "clob" /\ Reading({"average"})
    /\ Get(Next1.token, [book \in Snapshots |-> CalculateMarketPrice(book, Next1)])
    /\ UNCHANGED <<client, books, moves, calls, call, ticks, shown, fok>>

Cached(token, tick) ==
    [t \in DOMAIN ticks \cup {token} |-> IF t = token THEN tick ELSE ticks[t]]

(* The tick size is read once; the default of a book without one, or of a    *)
(* read that failed, is kept as well.                                        *)
GetTickSize ==
    /\ client = "clob" /\ Reading({"tick"})
    /\ LET token == Next1.token
           of == Shows(BookRoute(token))
       IN  \/ /\ token \in DOMAIN ticks
              /\ Answer("cached", of, Nothing, ticks[token])
              /\ UNCHANGED <<ticks, shown>>
           \/ /\ token \notin DOMAIN ticks /\ of # <<>>
              /\ Answer("book", of, books[of], TickOf(books[of]))
              /\ ticks' = Cached(token, TickOf(books[of]))
              /\ shown' = [shown EXCEPT ![token] = @ \cup {TickOf(books[of])}]
           \/ /\ token \notin DOMAIN ticks
              /\ Answer("default", of, Nothing, DefaultTick)
              /\ ticks' = Cached(token, DefaultTick)
              /\ shown' = [shown EXCEPT ![token] = @ \cup {DefaultTick}]
    /\ UNCHANGED <<client, books, moves, calls, call, fok>>

(* Mutant: one token is dropped by dropping what is not it. *)
WithoutOthers(token) == [t \in DOMAIN ticks \cap {token} |-> ticks[t]]

Without(token) == [t \in DOMAIN ticks \ {token} |-> ticks[t]]

(* One token, or all of them for an empty one. *)
ClearTickSizeCache ==
    /\ client = "clob" /\ Reading({"clear"})
    /\ LET token == Next1.token
       IN  /\ ticks' = IF IsEmpty(token) THEN <<>> ELSE Without(token)
           /\ shown' = [t \in DOMAIN shown |->
                          IF IsEmpty(token) \/ t = token THEN {} ELSE shown[t]]
    /\ Answer("cleared", <<>>, Nothing, None)
    /\ UNCHANGED <<client, books, moves, calls, call, fok>>
-----------------------------------------------------------------------------
(* The server. *)

BookMoves ==
    /\ moves < MaxMoves
    /\ \E of \in DOMAIN books, book \in Snapshots :
         books[of] # book /\ books' = [books EXCEPT ![of] = book]
    /\ moves' = moves + 1
    /\ UNCHANGED <<client, calls, call, out, ticks, shown, fok>>

(* What orders are matched with, counted unit by unit and in no order: the   *)
(* levels a side trades with, those at a price or better, those better, and  *)
(* the units that the levels `at` have of what each level is worth.          *)
Opposite(book, side) == Levels(IF side = "BUY" THEN book.asks ELSE book.bids)
UpTo(levels, side, price) ==
    {i \in DOMAIN levels : IF side = "BUY" THEN levels[i].price <= price
                           ELSE levels[i].price >= price}
Better(levels, side, price) ==
    {i \in UpTo(levels, side, price) : levels[i].price # price}
Sizes(levels) == [i \in DOMAIN levels |-> levels[i].size]
Notionals(levels) == [i \in DOMAIN levels |-> levels[i].size * levels[i].price]
Count(at, worth) == Cardinality(UNION {{i} \X (1..worth[i]) : i \in at})

(* External: a FOK order fills when the levels within its cap hold what it   *)
(* asks for; a buy asks for its amount at the cap in shares.                 *)
Fills(book, r, cap) ==
    LET levels == Opposite(book, r.side)
        shares == Count(UpTo(levels, r.side, cap), Sizes(levels))
    IN  IF r.side = "BUY" THEN shares * cap >= r.target ELSE shares >= r.target

(* The bot sends a FOK order with the estimate as its worst price. *)
PlaceFok ==
    /\ call.op = "estimate" /\ Finished /\ ~Failed /\ fok = "none"
    /\ call.requests[1].type = "FOK" /\ out[1].value # None
    /\ fok' = IF Fills(books[out[1].of], call.requests[1], out[1].value)
              THEN "filled"
              ELSE IF books[out[1].of] = out[1].book THEN "killed" ELSE "outrun"
    /\ UNCHANGED <<client, books, moves, calls, call, out, ticks, shown>>

Done ==
    /\ Finished /\ calls = MaxCalls
    /\ UNCHANGED vars

Next ==
    \/ Begin \/ PublicRead \/ AsyncRead \/ SecureRead \/ AsyncSecureRead
    \/ Estimate \/ AsyncEstimate \/ ClobRead \/ ClobLast \/ ClobAverage \/ GetTickSize
    \/ ClearTickSizeCache \/ BookMoves \/ PlaceFok \/ Done

Spec == Init /\ [][Next]_vars
-----------------------------------------------------------------------------
(* Properties. *)

(* Types. *)
TypeOK ==
    /\ client \in Clients
    /\ \A of \in DOMAIN books : books[of] \in Snapshots
    /\ moves \in 0..MaxMoves /\ calls \in 0..MaxCalls
    /\ Len(out) <= Len(call.requests) + 1
    /\ DOMAIN ticks \subseteq DOMAIN Outcome
    /\ \A token \in DOMAIN ticks : ticks[token] \in Nat \ {0}
    /\ fok \in {"none", "filled", "killed", "outrun"}

Told(op) ==
    IF call.op = op
    THEN {i \in DOMAIN out : out[i].kind = "book"} ELSE {}

(* Whatever form a token has, it is its own outcome's book that is read; and  *)
(* a last trade that the book knows is told as it is there, the market's     *)
(* record never in its place.                                                *)
ReadsTheOutcomeMeant ==
    \A i \in DOMAIN out :
        /\ out[i].of # <<>> => out[i].of = Outcome[call.requests[i].token]
        /\ call.op = "last" /\ out[i].book.last # None =>
             out[i].value = out[i].book.last

KeepsItsLevels(told, book) ==
    LET Same(levels, raw) ==
          \A level \in Range(levels) \cup Range(raw) :
             Cardinality({k \in DOMAIN levels : levels[k] = level})
               = Cardinality({k \in DOMAIN raw : raw[k] = level})
    IN  /\ Same(told.bids, Levels(book.bids))
        /\ Same(told.asks, Levels(book.asks))
        /\ \A j, k \in DOMAIN told.bids :
             j < k => told.bids[j].price <= told.bids[k].price
        /\ \A j, k \in DOMAIN told.asks :
             j < k => told.asks[j].price >= told.asks[k].price

(* An order book is told with all its levels, each as often as it is listed, *)
(* bids rising and asks falling, so that the best of each side is last, in   *)
(* whatever order the server listed them (adapt_book).                       *)
BookKeepsItsLevels ==
    \A i \in Told("book") : KeepsItsLevels(out[i].value, out[i].book)

AreBest(bid, ask, book) ==
    LET bids == Prices(Levels(book.bids))
        asks == Prices(Levels(book.asks))
    IN  /\ bid \in bids /\ \A b \in bids : b <= bid
        /\ ask \in asks /\ \A a \in asks : ask <= a

(* What a scalar is of a best bid and a best ask.  A taker who buys pays the *)
(* ask; the drop-in tells a buy where it would rest, which is the bid.       *)
ScalarOf(r, bid, ask) ==
    CASE call.op = "spread" -> ask - bid
      [] call.op = "mid" -> bid + ask
      [] call.op = "price" -> IF client = "clob"
                              THEN IF Upper(r.side) = "BUY" THEN bid ELSE ask
                              ELSE IF r.side = "BUY" THEN ask ELSE bid

IsOfTheBestLevels(value, book, r) ==
    /\ BothSides(book) =>
         \E bid \in Prices(Levels(book.bids)), ask \in Prices(Levels(book.asks)) :
            AreBest(bid, ask, book) /\ value = ScalarOf(r, bid, ask)
    /\ ~BothSides(book) /\ call.op # "price" =>
         value = IF client = "clob" THEN None ELSE 0

(* Spread, midpoint and price are those of the best levels: no bid is above  *)
(* and no ask below the two they are made of.  Of a one-sided book there is  *)
(* neither spread nor midpoint.                                              *)
ScalarsAreOfTheBestLevels ==
    \A i \in Told("spread") \cup Told("mid") \cup Told("price") :
        IsOfTheBestLevels(out[i].value, out[i].book, call.requests[i])

(* Reference: what the book holds at a price or better, in cents for a buy,  *)
(* in shares for a sell, counted without walking the levels.                 *)
HeldUpTo(book, r, price) ==
    LET levels == Opposite(book, r.side)
    IN  Count(UpTo(levels, r.side, price),
              IF r.side = "BUY" THEN Notionals(levels) ELSE Sizes(levels))

IsTheWorstTouched(p, book, r) ==
    LET levels == Opposite(book, r.side)
    IN  /\ p \in Prices(levels)
        /\ \/ HeldUpTo(book, r, p) >= r.target
           \/ r.type = "FAK" /\ UpTo(levels, r.side, p) = DOMAIN levels
        /\ \A q \in Prices(levels) :
             (IF r.side = "BUY" THEN q < p ELSE q > p) => HeldUpTo(book, r, q) < r.target

(* An estimate is the worst price the order has to touch: it is a price of   *)
(* the book, up to which the target is held, and short of which it is not; a *)
(* FAK order for more than there is gets the worst price (marginal_price).   *)
EstimateIsTheWorstTouched ==
    \A i \in Told("estimate") :
        out[i].value # None =>
            IsTheWorstTouched(out[i].value, out[i].book, call.requests[i])

(* A FOK order sent with its estimate as the worst price is killed only if   *)
(* the book is another one by then: it is outrun.                            *)
FokAtTheEstimateFills == fok # "killed"

IsOfTheBestShares(a, book, r) ==
    LET side == Upper(r.side)
        levels == Opposite(book, side)
        Shares(at) == Count(at, Sizes(levels))
        held == Shares(DOMAIN levels)
    IN  /\ a.filled = IF r.target < held THEN r.target ELSE held
        /\ \A q \in Prices(levels) :
             LET better == Better(levels, side, q)
             IN  a.filled \in Shares(better)..Shares(UpTo(levels, side, q)) =>
                   a.spent = Count(better, Notionals(levels))
                             + (a.filled - Shares(better)) * q

(* The average of calculate_market_price is of the best shares there are:    *)
(* all that are asked for, or all there are; every share at a better price   *)
(* than some, and the rest at that price.                                    *)
AverageIsOfTheBestShares ==
    \A i \in Told("average") :
        IsOfTheBestShares(out[i].value, out[i].book, call.requests[i])

(* Together: whatever is quoted of a book is of its best levels, in whatever  *)
(* order the server lists them.                                              *)
QuotesAreOfTheBestLevels ==
    BookKeepsItsLevels /\ ScalarsAreOfTheBestLevels /\ AverageIsOfTheBestShares

(* Together: an estimate is exact, and an order sent with it fills.          *)
EstimatesCanBeTradedAt == EstimateIsTheWorstTouched /\ FokAtTheEstimateFills

(* A tick size that was dropped from the cache does not come back: what is   *)
(* told was read, or fell back to the default, since it was last cleared.    *)
ClearedTickIsReadAgain ==
    \A i \in DOMAIN out :
        call.op = "tick" /\ out[i].kind \in {"book", "cached", "default"} =>
            out[i].value \in shown[call.requests[i].token]
=============================================================================
