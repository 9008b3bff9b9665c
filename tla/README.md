# A TLA+ model of the PolySimulator SDK

The repository is the Python client of PolySimulator, a paper-trading service
with Polymarket's interfaces. Three packages share one transport:

- `polysim_sdk`: the native clients (`client.py`, `aio.py`) over a retrying HTTP
  transport (`_http.py`), WebSocket and server-sent event streams (`ws.py`,
  `sse.py`), pagination, the market warm-up retry;
- `polysim_clob_client`: a drop-in for py-clob-client over the native client;
- `polysim_polymarket`: a drop-in for the Polymarket SDK: secure and public
  clients, adapters, and stream subscriptions over the native streams.

None of it keeps anything on disk and no two processes share anything; what is
hard is the network (a request whose response is lost has happened), the
interleaving of asyncio tasks around one subscription or one client, loops whose
exits and counters have to be right in combinations no test enumerates, and the
same idea (a token, a time-in-force, the best of a book) written out in several
places that have to agree.

This directory holds modules for those parts, the TLC configurations that check
them and proofs checked by TLAPS. Everything is translated from the source;
`PROJECT.json` maps each definition to its lines, and lists the runs, the
hazards, the findings and the theorems.

## Inventory

| Component | State | Operations | Interacts with |
|---|---|---|---|
| Subscription handle, pump (`streams/_handle.py`, `_runner.py`) | bounded queue, `_ended`, `_end_error`, `_terminated`, `_dropped`, `_closing`; the pump task; the source generator | `__anext__`, `close`, `_push`, `_end`, `on_close` | consumer tasks, callers of `close()`, one of the streams below |
| HTTP transport (`_http.py`) | attempt, `last_error`, `last_status`; `_last_request_ts`, the pace lock (async) | `request`, `_pace` | every client method; the server |
| Order placement (`client.py`, `aio.py`) | none between calls; a key per order and call | `place_order`, `place_orders` | transport; the server's memory of keys |
| Warm-up retry (`retry.py`) | attempt | `retry_on_market_warmup` | any zero-argument call |
| Streams (`ws.py`, `sse.py`) | `attempts`, `backoff`, the token, the line buffer | the async generator, its synchronous bridge | transport (token mint), the server, the pump |
| CLOB drop-in (`polysim_clob_client/client.py`) | token and tick-size caches, credentials | orders, cancels, books, estimates, cursor-walked reads | native client |
| Pagination (`polysim_sdk/pagination.py`, `polysim_polymarket/pagination.py`) | offset or cursor, rows handed out | iterate, page, resume | native client, a listing that changes meanwhile |
| Stream specs, openers, adapters (`_specs.py`, `_stream_open.py`, `_adapt.py`, the event modules) | none | checks, dispatch, frame to events, filters | pump |
| Trading adapters (`clients/_trade.py`, `_common.py`, `_account.py`) | none | check and build orders, read answers, cancels, positions, books | secure clients, drop-in |
| Secure and public clients (`clients/*.py`) | one native client; the cache of looked-up tokens | orders, cancels, balances, reads, listings, subscriptions | native clients |
| Up/Down helpers (`updown.py`), RFQ stubs, models, constants | none | pure functions | |

### What makes each part correct

- **Subscription.** A slow consumer loses the oldest events, never the order,
  never the newest, and every loss is counted. The stream ends once; its
  outcome is the first one and every later `__anext__` repeats it. `close()`
  returns and leaves no task, no open generator and no blocked consumer.
- **Transport and orders.** An order is placed once although its request may be
  sent several times, arrive late, or be answered with an error after the work
  was done. What the caller is told is what the attempts amount to.
- **Streams.** Every connection has a token of its own; the wait follows the
  errors in a row and is capped; the limit is exact; an event is never put
  together from two connections; once the server is back so is the stream.
- **Pacing.** Two requests of one transport are never closer than the floor,
  nobody waits longer than that takes, and everyone is served.
- **Pagination.** Over a listing that does not change every row comes once; over
  one that does, as many rows go wrong as the listing moved. Every walk ends.
- **Trading.** An order lands on the outcome its token stands for and says what
  the bot asked, alone or in a batch. What the bot is told of orders and cancels
  is what became of them; a balance holds the fills.
- **Books.** The book read is that of the outcome meant; quotes are of its best
  levels; an order sent with an estimate fills while the book stands; a cached
  tick size is dropped when it is cleared.
- **Subscriptions' events.** A price told is the present one; a trade told took
  place; a token told can be traded with; the fills of an account and the updates
  of an exchange are told whole; a stream ends only at something it asked for that
  cannot be told.

### Behaviours that are hard

Tasks interleaving at every `await` of one subscription, and of one client whose
cache is read before an await and written after it; cancellation of a task that
others wait for; a queue at its limit with the end sentinel still to fit;
requests lost, delayed and repeated; retry inside retry (transport, warm-up
helper, application), each with its own idea of identity; a cancel repeated by
the transport after it has worked; variables that outlive the attempt they
describe; connections that end in the middle of an event; outages longer than a
retry budget; books that move between the reads of one call; frames that arrive
with a field missing; cursors that come again.

## Modules

| Module | What it is |
|---|---|
| `StreamHandle` | one subscription: handle, pump, `close()`, consumers |
| `LossyStream` | what a subscription promises; `StreamHandle` implements it |
| `OrderRequests` | order placement through the retrying transport, network and server external |
| `OrderOnce` | what a keyed order promises; `OrderRequests` implements it |
| `Reconnect` | the loop of the WebSocket and server-sent event streams |
| `Pacing` | the floor between two requests of a transport |
| `OffsetWalk` | the walks over listings, by offset and by cursor |
| `Tokens` | how orders, books and streams take a token id apart |
| `OrderShape` | what an order turns into on its way to the wire, and its answer row on the way back |
| `Trading` | a bot's orders, cancels and balances through the three trading clients; uses the two above |
| `Books` | reads, quotes and estimates of order books through the five clients; uses `Tokens` |
| `Streams` | specs, feeds, frames and the events a subscription tells; uses `Tokens` |
| `StreamHandleProofs`, `OrderRequestsProofs`, `ReconnectProofs`, `PacingProofs`, `OffsetWalkProofs`, `TradingProofs`, `BooksProofs`, `StreamsProofs` | their theorems |
| `MC...` | the instances TLC checks |

How they meet: a bot's call in `Trading` is one or several calls of
`OrderRequests`, whose retries appear there as answers that are lost after the work
was done; each of them goes through `Pacing`. The events of `Streams` are what
`StreamHandle` queues as numbers, and its generator is `Reconnect`, whose breaks
appear in `Streams` as `Drop` and in `StreamHandle` as frames that do not come.
`Tokens` is shared, since the point of it is that orders, reads and events
agree on what a token means.

Each module carries *mutants*: operators named after the definition they would
replace, wrong as a plausible bug would be. Replacing the definition by its
mutant must make TLC refute the property `PROJECT.json` pairs with it; they are
not part of the specification.

### StreamHandle

| Variable | Code |
|---|---|
| `queue`, `ended`, `endError`, `dropped`, `terminated` | the handle's attributes of the same names |
| `closing` | the task `_closing`, by the await it is at: scheduled, waiting for the pump, waiting for the generator's `aclose`, done, cancelled |
| `closer` | each caller of `close()` (or `__aexit__`) |
| `consumer`, `delivered` | each task calling `__anext__`, and what it got |
| `pump`, `batch` | the pump task; the events of the present frame it has not pushed yet |
| `source`, `produced` | the generator; the number of events made so far |

asyncio runs a task up to its next `await`, so an action is such a step. The
loop over `adapt(frame, spec)` does not await: it is a run of `Push` steps during
which `LoopFree` disables everything else. An event is its position in the
stream, which is enough for order, loss and repetition. `EndHandle` is `_end`
with its early return; `MakeRoom` the eviction `_push` and `_end` share.
The inner `except QueueEmpty` and second `except QueueFull` of the code cannot
happen on one loop and have no counterpart.

*Cancellation.* `close()` awaits the closing task without a shield.
`CancelBeforeStart` is a caller cancelled before the task's first step;
`CancelDuringAclose` one cancelled while the generator unwinds, where
`suppress(Exception)` does not hold the `CancelledError`. While the pump is
awaited the code suppresses it, and nothing changes.

*Simplification.* `run_stream` schedules the pump's first step before anyone can
schedule a `close()`, and asyncio's ready queue is first-in first-out: the pump
is in the generator before `_do_close` runs.

### OrderRequests

| Variable | Code |
|---|---|
| `req[i]` | the locals of `request()` (`attempt`, `last_error`, `last_status`), where it is, how it ended, and the counters of the callers around it |
| `heard`, `doubt` | history: outcomes of the attempts of this call; whether an attempt of any call left open what the server did |
| `wire`, `answer` | external: requests that may still arrive, the response on its way |
| `known`, `fired` | external: keys the server has accepted, how often each order took effect |

`Send` is the pace and the request; `TransportFails`, `ReceiveTransient`,
`ReceiveTooMany`, `ReceiveError` and `ReceiveOk` are the branches of the loop in
its order; `AfterSleep` is the `continue` after a sleep, or the fall through the
end of the loop into `BudgetSpent`. `PlaceOrder`, `WarmupRetry` and `CallAgain`
start a call: by the application, by `retry_on_market_warmup`, by an application
that repeats what failed. `Cancel` is a timeout around an awaited call of the
async client.

*Keys.* A key is the pair of an order and a call number; 0 stands for a key of
the caller's own, the same in every call. `place_order` puts it in the
`Idempotency-Key` header and `place_orders` in each entry's `client_order_id`;
both are made before `request()` is entered, and so shared by its attempts.

*The server and the network* are not in the repository. The model takes from the
docstrings what they rely on, that a repeated key is not executed again, and
otherwise allows everything: a batch accepted in part, an error answered after
the work was done, no answer, a request that arrives after its attempt was
abandoned. Three answers are taken at their word: success means all orders are
accepted; `MARKET_NOT_FOUND` and 429 mean none is.

Only the 404 of a warming market is kept apart; every other error status is
`Refused`. `place_order`'s own `ValueError` precedes any request and is left out.

### Reconnect

One module for both kinds of stream: the record `stream`, picked at the start from the
constant `Streams`, says which one runs and with what limits. `phase` is the place in
the loop, the other variables are the loop's locals. `Connect` is the accepted
connection, which resets `backoff` and, in `sse.py`, the buffer; `Failed` is the
`except` branch shared by `ConnectFails` and `Drop`. A WebSocket takes a refused
handshake for an error like any other; in `sse.py` a permanent status ends the
stream (`Refused`), as a refused key ends the mint. Times are in half seconds.
`server` is external, "down" standing for whatever the code retries.

`buf` keeps, for each line, whether it came on this connection: all that is
needed to tell whether an event is whole.

### Pacing

`age` is `time.monotonic() - _last_request_ts`, `left` what is left of a sleep,
`lock` and `waiting` the `asyncio.Lock` with its queue; `locked`, chosen at the
start, tells the tasks of an `AsyncTransport` from the threads of a
`SyncTransport`. `Enter` takes the lock when it is free and nobody is before the
caller, `Queue` waits for it, `Acquire` is its turn; `Read`, `Wake` and `Stamp` are
the reading of the stamp, the end of the sleep and the new stamp, after which the
request is sent. `Cancel` is a timeout at either of the two awaits. `since` and
`tooClose` are history: when each caller last sent, and who sent too soon after
whom. `Tick` is time; for the threads every interleaving of these steps is
possible (each step itself being indivisible), for the tasks more than a loop
would produce.

Threads that share a client read the same stamp and send together. No document
says they may share one, so that is not a finding; `OwnSendsSpaced` states what
remains, and `SpacedSends` what the lock adds.

### OffsetWalk

`walker` says which of nine walks it is: the iterators of `polysim_sdk`, the
iteration over a `Paginator` of `list_markets` (and its async twin), a bot that
follows the cursors of `list_markets` page by page with `from_cursor`, one that
follows those of the drop-in's `get_markets` until they are the end cursor, one
that follows them until a page is empty, the drop-in's `get_orders` and
`get_trades`, which collect, and the Paginators over the account's listings (and
their async twin). The page past the end differs: `list_markets` gives it no
cursor, `get_markets` the end cursor again (`PastEnd`), so that a bot must stop at
one or at the other.
`place` is the loop's `offset` or the cursor of the next page; `page` the rows of
the page at hand that the consumer has not taken; `more` what the code does
after them; `seen` the collector's guard against a cursor that comes again. The
six `FetchBy` actions and `Collect`, `FetchAccount` are one call of `fetch` each; `Hand` is one
`yield`, `Turn` the code after the page. `FetchFails` is a client that raises,
`Resume` a `from_cursor` with the last page's cursor, which a generator cannot do.
`Insert` and `Delete` are external and happen between any two steps; so is an odd
cursor of the server, missing, empty or one that was asked with. A cursor is an
offset, `<<n>>`; `Paginator`'s error for `has_more` without a cursor cannot happen,
since both of its makers set the two together.

The Paginator over the data API has no guard against a server that sends it back:
with an unbounded number of such cursors it would not end. The model allows a
bounded number, and the collector's guard is what `ShiftsAreBounded` tests.

### Tokens and OrderShape

A token id is the sequence of its parts between colons. `SplitToken`,
`BookRoute`, `SplitConditionId` and `MakeToken` are four pieces of code that take
it apart or put it together, for orders, books, the source of a price feed and an
event. `OrderShape` has the checks of `polysim_polymarket` (`Valid...`), the bodies
it builds (`...Body`), the payloads of the drop-in (`Clob...`), the guards on the
time-in-force as `_submit` and as `post_orders` write them (`Submit`, `BatchEntry`)
and the reading of the answer row. Prices are cents and every argument that is
not given is `None`.

### Trading

| Variable | Code |
|---|---|
| `coordinates` | `_token_coordinates` of the secure clients and of the drop-in |
| `task[t]` | where a call is: resolving a token, asking the server for it, ready to send, waiting for the answer, done; what it has `built`, `tried`, is `told` |
| `orders` | external: the server's orders, with what was on the wire |
| `lost`, `existing`, `filled` | history: whether an answer was lost; what there was when the call began |

`SecureResolve`, `AsyncResolve`/`AsyncResolved` and `ClobResolve` are the three
resolutions, one token at a time; the first and the third are one step because
nothing else runs meanwhile, the second yields where it has to ask, and another
task may ask for the same token then. `Proceed` checks and builds; an order with a
bad argument is refused only after its token was looked up, as in the code.
`...Post`, `...Cancel`, `...Sweep` and `...Balance` send; of the async client
`AsyncPosted`, `AsyncCanceled` and `AsyncSwept` are what it does when the answer is
there, from which point another task may have changed the orders. Cancelling a
list is one DELETE after the other, each tallied.

*External.* `Serve`, `Delete` and `Sweep` are what the requests may come to: nothing,
the work done and answered, or the work done and the answer lost (the transport's
retries then end with an error, and are one step here). A row that is refused says
so in three ways. What a token stands for (`Addressed`) and the ways the
server names a market (`MarketOf`, `Answers`) are parameters.

### Books

`books` is the server's; `call` and `out` the call under way and the answers of its
reads so far, one per GET, and `BookMoves` comes between any two. `TypedRead`
stands for the reads of the four clients of `polysim_polymarket`, `EstimateOf` for
`estimate_market_price`, `ClobRead`, `ClobLast` and `ClobAverage` for the drop-in's.
`ticks` is `_tick_sizes`; `GetTickSize` fills it, from the book or with the default
when the read fails, and `ClearTickSizeCache` drops one token or all. `PlaceFok`
is the bot sending a FOK order with the estimate as its worst price. The walks
over the levels are recursive functions, `Sorted` is Python's stable sort, and
`None` is a value of its own, since a spread can be any number: a book may be
crossed, and have several levels of one price. The properties do not walk. They
count units: `Count` is the number of shares, or of cents, that a set of levels
has, whatever their order, and what an order can trade with up to a price is
counted so (`Opposite`, `UpTo`, `Better`). A book must have every level as often as
it was listed, an estimate is compared with what is held up to each price, and an
average with the shares better than a price and those at it.

### Streams

`spec` is what the bot subscribes with; `Subscribe` checks it, normalises it and
opens its feed or refuses it. `Pump` takes a frame, turns it into events
(`AdaptPricesFrame`, `AdaptExecutionFrame`, `AdaptSpotFrame`) and pushes them; a
frame of which an event cannot be made ends the subscription, which is what an
exception of an event's validators does to the pump (`EntryCanBeMade`,
`FillCanBeMade`, `CryptoEventFor`): a price that is no number, a side other than BUY
and SELL, a time out of range or of a wrong type. What is missing is left out or
made up before it gets there, and so is a time of most wrong types (`Emitted`,
`FilledAt`). A price stands for the sizes, best bid and best ask that are read with
it and fail alike; a frame is taken to be an object whose lists are lists. `blob` is the server's latest of each
market, broadcast whole, with the side and size of the market's last trade:
`keeps` leaves open whether it goes on showing an outcome's last trade once
another outcome has traded. `Drop` is a reconnect. `happened`, `missed` and
`taken` are history. The kinds of a frame's time are those the three validators tell
apart; "huge" is a whole number out of range, for a blob a negative one too.

## Runs

| Run | Question | Instance |
|---|---|---|
| `stream_handle` | is every interleaving of pushes, reads, failures, closes and cancellations right; does the end arrive, does `close()` return and release | 2 consumers, 2 cancellable closers, 2 slots, frames of up to 2 events |
| `handle_cancelled_close` | violation: `close()` does not always leave the handle terminal | 1 consumer, 1 closer |
| `order_requests` | do keys keep orders single, is the verdict right, when can an unkeyed order double, does every call end | a single order under the warm-up retry and a batch of two, one keyed by the caller, async and cancellable |
| `order_status` | violation: exhaustion does not always keep the status | 1 call |
| `reconnect` | back-off, tokens, limit, events and connections; does the stream come back | a WebSocket with a limit, an SSE stream without one from an interval of 0, one whose interval is above the cap |
| `reconnect_mint` | violation: a lost connection is not always retried | WebSocket, no limit, 3 errors |
| `pacing` | is the floor kept and not exceeded, is everyone served | 3 tasks or 3 threads, floor of 3 |
| `offset_walk` | which rows are missed or repeated, does every walk end | all 9 walkers; up to 3 rows, pages of 2, 2 inserts, 1 removal, 1 failure, 1 odd cursor |
| `offset_walk_capped` | violation: an iterator does not always yield every row | 5 rows, page size 3, server cap of 2 |
| `trading` | do orders land and say what was asked, is the bot told the truth, does the balance hold the fills | 2 markets, 3 forms of tokens, 2 tasks with one call each out of some thirty pairs |
| `books` | is the right book read, are quotes and estimates right, does the tick cache forget | 2 outcomes, 3 books, 5 clients, 3 calls, 1 move |
| `streams` | are events current, true, tradable, whole; what ends a stream | 2 markets, 11 specs, 2 events (3 of a crypto feed) |

Several properties are conjunctions of parts that are named and commented in the
module: `EventsAreKept` (order, newest kept, losses counted), `EndsAsRecorded`
(the end is last, the pump gone first, what a finished close leaves, the outcome
honest), `CloseReleases`, `KeysFireOnce` (the caller's keys, minted keys),
`VerdictIsTrue`, `ConnectionsAreApart` (tokens, lines), `FloorIsKept`,
`ShiftsAreBounded` (misses, repeats), `OrdersSayWhatWasAsked`, `AnswersAreTrue`,
`CancelsAreTrue`, `QuotesAreOfTheBestLevels`, `EstimatesCanBeTradedAt`,
`WhatIsToldIsSo`, `FeedsAreToldWhole`.

The others say one thing each: `RefinesLossyStream` and `KeyedOrdersPlacedOnce` are
the refinements towards `LossyStream` and `OrderOnce`, `DoubledOnlyInDoubt` confines
double placement to unkeyed orders in doubt, `BackoffFollowsFailures` ties the wait
to the errors in a row, `GivesUpAtTheLimit` is the limit, `StableWalkIsTheListing`
the walk over an unmoved listing, `OrdersLandWhereAddressed` and
`ReadsTheOutcomeMeant` are about the outcome a token stands for,
`BalanceHoldsTheFills` about the account, `ClearedTickIsReadAgain` about the tick
cache, `PricesAreCurrent` about prices told, `EndsAtWhatItAskedFor` about what ends a
subscription, and what does not. `ImplementsPromise`, `CallReturns`, `StreamComesBack`,
`EveryCallerServed` and `WalkEnds` are the liveness properties. `TypeOK` is each
module's type invariant. `CloseLeavesTerminal`, `ExhaustionKeepsStatus`,
`LostConnectionIsRetried` and, with a server cap, `StableWalkIsTheListing` are what
the four findings refute.

*Bounds.* Two slots and frames of two fill the queue, overflow it by a frame and
by the sentinel, and empty it again; a third slot adds no kind of state. Two
closers are needed for one to be cancelled while the other waits. Two calls make a
late request of the first meet the second. Two transient statuses tell "the last
status" from "a status". The caps and intervals of `reconnect` put the wait below
the cap, cut by it and at it, and more errors are allowed than the limit. Three
callers have one in its sleep, one first and one second in the queue; a floor of 3
leaves several values for the rest of it. Zero to three rows in pages of two are
an empty listing, one that ends with a full page and one that ends with a short
one, and two inserts with a removal combine both shifts. Two tasks suffice for
every pair of calls to interleave: nothing in the code relates three calls. The
calls of `trading` are every operation with every form of token, good and bad
arguments, an id twice and an empty id; two markets with two outcomes make a wrong
market differ from a wrong outcome. The books have levels out of order, one that
cannot be read, two of one price, an empty side and a coarse tick; one move falls
before, between or after two reads. Two events at the server make a later one meet an earlier one
lost, kept or in flight; crypto feeds have three, and batches that mix exchanges.
`MaxRows`, `MaxInserts`, `MaxRemovals`, `MaxFailures`, `MaxOdd`, `MaxEvents`,
`MaxPerFrame`, `MaxCalls`, `MaxMoves`, `MaxLines`, `MaxErrors`, `Transient`, the
`Plans`, `Calls`, `Specs` and `Batches` are the only bounds that the code does not
have.

*Deadlock* is checked except for the order runs, where a call that is over and an
application that does not call again is the normal end, and for the walks, which
end. `Trading`, `Books` and `Streams` say with `Done` where a bot has nothing more
to do: anywhere else a call that cannot go on is an error.

*Fairness.* `StreamHandle`: the loop runs ready tasks (weak fairness of the pump's
pushes and of its cancellation, of the closing task and of the wake-up of callers),
an iterating consumer keeps calling `__anext__`, and a generator's clean-up ends.
Frames, failures, timeouts and calls of `close()` are not fair. `OrderRequests`:
`time.sleep` and `asyncio.sleep` end and httpx gives every attempt a timeout
(`_http.py:219`); neither the server nor the application is fair. `Reconnect`: a
sleep ends, and a mint or a connection attempt has a result, by the timeouts of
httpx and of the websockets library. `Pacing`: time passes and the loop runs what is
ready; nobody has to begin a request or to be cancelled. `OffsetWalk`: the consumer
goes on and resumes what failed; the listing changes a bounded number of times.
`Trading`, `Books` and `Streams` state no liveness: their calls are straight lines
of requests, whose ending is `CallReturns`, and the pump's is `StreamHandle`'s.

## Findings

1. `close()` can leave a handle that is neither terminal nor closable, against
   `_handle.py:151`: a caller cancelled before the shared closing task has run
   cancels that task, and every later `close()` awaits the dead task.
2. A transport error early in a call hides the transient status that exhausted
   it (`_http.py:294`), against the intent stated in
   `tests/test_retry_pacing.py:89-91`.
3. A token mint that fails ends a WebSocket stream (`ws.py:82`), against
   `ws.py:8-9`; an SSE stream survives the same outage.
4. `iter_markets` with a `page_size` above 100 stops after the first page
   (`polysim_sdk/pagination.py:37`), against its docstring: the server's cut page is
   taken for a short one. `list_markets` of `polysim_polymarket` clamps.

Noticed while modelling, without a run of their own:

- A fill whose `filled_at` is a float ends the subscription: `_adapt.py:350-353`
  passes it on, since "the validator accepts these as-is", but the validator
  (`_validators.py:83-102`) refuses a float. A whole number out of range ends a
  subscription too, to prices as to fills, against the docstring `_adapt.py:184-186`.
  `EndsAtWhatItAskedFor` asserts both as the code has them (`NoTimes`): the
  subscription does end, at that frame, and the run shows it.
- If the server goes on showing an outcome's last trade after another outcome
  traded, the event has that trade's side and size (`keeps` in `Streams`; what
  `TradesToldTookPlace` asserts of them is only asserted where it does not).
- A `MarketSpec` with a lower-case label, or with a bare digit id, opens its feed
  and never delivers: events carry the upper-case colon form.
- The docstring of `_split_token` (`_adapt.py:117-120`) speaks of YES and NO; the
  code it describes takes UP and DOWN too.
- An order's token is looked up before its other arguments are checked, so a call
  refused for its arguments may have made a request.
- `calculate_market_price` of the drop-in takes a BUY amount for shares, where the
  typed clients take it for dollars.
- The drop-in's fallback for a missing last trade asks the market's record, which
  has one price whatever the outcome; its `get_prices` and
  `get_last_trades_prices` are keyed by token alone, so that a second side of a token
  overwrites the first; its `tick_size_ttl` is never read.
- `adapt_execution_frame` tells a missing side as BUY and a missing price as 0, and
  the typed last trade is always a BUY.
- `_EmptyPaginator` is documented to yield one empty page
  (`polysim_polymarket/pagination.py:103`) and yields none.

## Proofs

The theorems hold for every value of the constants that the named assumptions
allow. Each component has an inductive invariant, proved by one lemma per action
or kind of action, from which its properties follow.

**StreamHandleProofs.** From `HandleAssumption` (at least one slot, cancellable
closers are closers). The safety properties together are nearly inductive: that
the queue holds the newest events needs that the sentinel is last, the exact
count of losses needs both, and what the closing task leaves behind needs to know
where the pump and the source are at each of its awaits. `SafetyTheorem` is that
invariant; `NoSilentLoss`, `NewestKept`, `OrderedDelivery`, `EndOnceAndLast`,
`HonestOutcome`, `CleanClose`, `OutcomeStands` are read off it, `EventsKept` and
`EndRecorded` join them into the properties the run checks, and `Refinement` shows
with it that every step is one of `LossyStream` or a stutter.

**OrderRequestsProofs.** From `RequestAssumption` (intents have disjoint orders).
No property is inductive alone. The invariant says which keys there can be (each
belongs to its order, and to a call already made or to the caller), that the
messages on the wire and the keys the server knows are such keys, that an order
took effect as often as the server knows keys of its, and that a final answer on
its way tells the truth about the server; for the verdict, that `lastError` and
`lastStatus` say of the attempts heard what `VerdictOf` reads from them. Then
`AtMostOnce`, `ReturnIsHonest`, `VerdictIsRight`, and `Refinement` towards
`OrderOnce`.

Two invariants more are about several calls of one order. `CallInv` counts:
the keys the server knows of an order are among those of the calls begun, one per
call, so that a minted key cannot make it fire more often than it was called for
(`OncePerCall`, and with `AtMostOnce`: `KeysAreOnce`). `DoubtInv` says what is known
while nothing is in doubt: only the present attempt is on the wire, and nothing
took effect that is not answered or returned. A second effect therefore needs an
attempt whose outcome the client could not know (`TwiceOnlyInDoubt`), which is
what makes an unkeyed retry by the application safe after a clear refusal and
unsafe after a timeout.

**ReconnectProofs.** From `ReconnectAssumption`. The loop's counter is the number
of errors, a stream that is not over is within its limit, every line in the
buffer is of this connection, and a broken WebSocket had used its token. Then
`FreshTokens`, `WholeEvents`, together `ApartConnections`, and `ExactLimit`.
`BackoffIsExponential` ties the loop variable to the number of errors since the last
connection: `BackoffInv` has it at the first interval doubled as often and capped,
while the stream runs. That an interval doubled and then capped is one capped,
doubled and capped again needs that powers of two are whole, positive and double,
by induction (see below).

**PacingProofs.** From `PacingAssumption`, for tasks and threads. That the floor is
kept is not inductive: the stamp must be as new as every caller's last request
(`StampIsNewest`), a sleeper must have let the floor pass since its own
(`OwnFloorPasses`), and, behind the lock, since the stamp (`FloorPasses`): nobody
else may have stamped while it slept, which is what the lock is for
(`LockGuards`). Then `FloorHolds`, `OwnFloorHolds`, `FloorCostsNoMore`, together
`FloorKept`. `TypeCorrect` adds the lock's queue, out of whose middle a cancelled
caller may go.

**OffsetWalkProofs.** From `WalkAssumption`. `StableWalk` is about a listing that
does not move, and has the premise `PagesAreServed`: those who count in steps of
what they ask for are served pages of that size. That is the clamp of the
Paginators; finding 4 is what happens without it, and its run has an instance
where the premise is false. The invariant is that rows handed out and rows at hand
are a prefix of the listing, that the next page begins behind it, and that a
collector's `seen` lies before it, so that its guard stops no honest walk.

`BoundedShifts` is about a listing that moves, and has the premise
`EveryPageIsServed`, the same of every walker: then every place is a whole number of
pages from the start. That the rows had twice are no more than the inserts is not
inductive, because an insert before the place takes effect only when the next page
is read. `MovingInv` counts ahead: rows had twice, together with the rows behind the
place that were had already and will come again, are no more than were inserted;
rows that were there all along, lie before the place and were not had are no more
than were removed. For a collector it also has that every smaller multiple of the page size
was asked for before the place, so that an odd cursor that leads back stops it.

**TradingProofs.** The first half is from `TradingAssumption`: what the three forms
of a token stand for, which the parameters must agree on and which does not mention
the code's functions; that a post has an order; that resting orders are nobody's.
`Inv` follows a pair from the lookup through the cache and the order built for it to
the order placed: every cached pair leads where its token stands for, every order
built leads where the token in its place of the call does, and so does every order
placed. `OrdersLand` is for any number of tasks, interleaved anywhere.
`BatchPostsAsSubmit` shows that the two copies of the time-in-force guards are one
function.

The second half follows the call. `CallsInv` says of each task, whatever the others
do meanwhile, which requests are built, tried and answered, which of the server's
orders are its own and say what was asked, what its reply says of them, and what
there was at the server when it began. The lemmas that carry it are about one task:
what it says survives any step of another (`Moves`: nothing that has come to rest
changes, and what is new or cancelled is of those who act). From it come
`OrdersSay`, `AnswersHold`, `CancelsHold`, `BalanceHolds` and `TypesHold`. The further
assumptions are about what the bot asks for and are those of the runs:
`CallsAssumption` (numbers are numbers), `ClobAssumption` (what the drop-in leaves
unchecked, py-clob's argument classes require: a limit order has a price and a size, a
market order an amount and FOK or FAK), `SweepAssumption` (a market that is swept
is one the server has) and `BalanceAssumption` (a balance is asked for by the id
positions are listed under; an alias would be compared as a text and find none).

**BooksProofs.** From `BooksAssumption`, every cached tick was shown to the client
for that token since it was last cleared (`IInv`), which `ClearedTicksStayAway` reads
off. With `RequestsAssumption` (a colon token stands for the outcome it names) and
`SnapshotsAssumption` (a tick size is positive, or absent), `BInv` joins the types
of a call under way, the server's books and the answers so far: `ReadsAreMeant`,
`TypesHold`. A book moves between the GETs of one call, so that the statement is
about an answer at the time it is given.

The quotes follow from what is computed of one book, for every book of readable and
unreadable levels, crossed or not, with any number of levels of one price. Positions
of a list that come before one another by key, and by place among equal keys, are in
an order without ties, so that each has a rank of its own and `Sorted` is a
rearrangement (`RanksAreAll`, `SortedIs`): hence `AdaptedIs`, that a book is told
with all its levels, and `BestIs`. That rearrangement also carries the units of the
levels up to a price onto those of the first so many levels of the sorted side
(`MovedCount`, `Reach`), whose number is the running total of the walk (`PrefixCount`,
`HeldIs`). So the level where `marginal_price` stops is the worst that has to be
touched (`MarginalIs`, `TouchedIsTheWorst`). What is held up to it costs, share by
share, no more than that price (`CostIsBounded`), so that the target divided by the
estimate is a number of shares that the book has within the cap: `EstimateFills`.
For the average, what the walk takes of a level is what the level adds to what is
filled (`TakeIs`), and what it has spent once it stops inside the levels of some
price is what the better ones cost and that price for every share behind them
(`SpentIs`, `AverageIs`). `QInv` says of every answer of a call that it is such a
value of the book it was read from, and that no FOK order was killed; it is
inductive with `IInv` and `BInv`, and gives `QuotesAreBest` and
`EstimatesAreExact`. The assumptions are `SnapshotsAssumption` (prices and sizes are
numbers of cents and shares, `None` is no number) and `TargetsAssumption` (a target
is a number; of an average, which nothing in the code checks, it is not negative).

**StreamsProofs.** From `LabelsAssumption` (labels of a market differ whatever their
case, which is what makes a token name one outcome), `SpecsAssumption` and
`BatchesAssumption` (the forms of a time, and which source labels are whose: an
update is of Binance or of Chainlink if and only if it has one of that exchange's
labels). What an adapter flattens is what it made of each entry, by induction over
the entries (`Flattened`, `FlattenedMore`). Then six invariants.
`TypesInv` says what can be in flight under each kind of spec: `TypesHold`. `SoInv` has a trade behind every last trade of a blob, of a frame in
flight and of an event (`ToldIsSo`); the side and size need that the blob keeps no
trade of another outcome. `CurrentInv` is what `PricesCurrent` needs: the last frame
of a market that is in flight says its present prices, and if none is and none
was lost, what was last told of each token does. It holds because every market of
a token that was asked for is among the condition ids the feed was opened with,
and because the tokens of two outcomes are never the same.

`TopicInv` has what a crypto topic was told equal to what was asked for of the
frames taken, the frame that ended the subscription left out (`FlattenedMore` is the
step of the pump). `FillInv` numbers the fills of an account: every fill in flight
is later than all that was told, what is told is told by exactly two events, one
behind the other, and a fill that is asked for and not lost is in flight or told.
`FeedsHold` joins what follows from the two.

`EndsHold` is about every frame that can be in flight, with any prices, sides and
times: an adapter makes its events if and only if nothing of the frame that was
asked for is one that cannot be told (`PricesFail`, `FillFails`, `SpotFails`; the
adapter goes by the token it derives, the property by the market's label, and a
topic by its source label where the property goes by the exchange). `EndsInv` then
has the frames taken so far: the one that cannot be told, if any, is the last, and
has ended the subscription.

*Induction.* The library's induction theorems take an operator and cannot be used
here. Where a proof needs induction (`PowersDouble`, `Flattened`, the running totals
of `BooksProofs`) it goes by sets: a
set of numbers with no least member is empty, by `NatLessThanWellFounded` and
`WFMin`, hence one with zero and every successor is `Nat` (`Least`, `Induct`); a
recursive function, which is a CHOOSE, is shown to be its table because tables
exist and agree.

*Only model-checked.* Liveness, and `ImplementsPromise`, the refinement with
fairness (TLAPS has no ENABLED here): its steps are proved, by the `Refinement`
theorems, its fairness is not. Every safety invariant and action property of the passing
runs is proved.

## Not modelled, and why

- **Two consumers on one handle, liveness.** Safety is checked with two, but the
  sentinel is single, so that a second consumer already waiting when the first
  takes it waits for ever; liveness is stated for an iterating one.
- **The private event loop of the synchronous stream bridge**, which only runs
  while the consumer asks for an event: its effect is on pings, inside the
  websockets library.
- **Cancellation of a task that iterates a raw stream during a sleep**: the
  generator ends, nothing is left.
- **Methods that are one GET and one adapter** (markets, events, keys, price
  history, leaderboards): no state and no order to get wrong; what their requests
  go through is `OrderRequests` and `Pacing`.
- **On-chain, rewards and builder stubs, RFQ**: they validate and answer a fixed
  handle, or raise; there is no chain behind them.
- **`updown.py`**: pure reads of a market row; **models, environments, errors,
  constants**: data; **example scripts**.
- **Formatting**: headers, url joining, error bodies, decimal coercion of fields,
  the fields of an event that no filter or property reads, the `hash` of a book.
- **Non-finite numbers and precision.** Prices and sizes are integers.

Every hazard of `PROJECT.json` has a property that some run checks; where it covers the
hazard in part, a note there says which part is left and why.
