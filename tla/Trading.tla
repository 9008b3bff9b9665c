------------------------------- MODULE Trading --------------------------------
(***************************************************************************)
(* A bot trades through one of the three clients: SecureClient, its async   *)
(* twin, or the py-clob drop-in.  A task makes one call: it posts orders,   *)
(* singly or in a batch, cancels some, a market's or all, or reads the      *)
(* balance of an outcome.  A call first finds the market and the outcome    *)
(* its token stands for, in the client's cache or from the server, then     *)
(* sends what it has to send, and tells the bot what became of it.          *)
(*                                                                         *)
(* The tasks of the async client interleave at every await; the other two   *)
(* clients run in one thread, and a call of theirs ends before the next.    *)
(* An answer may be lost after the server has done the work: the transport  *)
(* tries again and gives up (that is OrderRequests), and what a second try  *)
(* finds is what the first one left.                                        *)
(***************************************************************************)
EXTENDS OrderShape, FiniteSets, SequencesExt

CONSTANTS
    Clients,     (* the kinds of client: of "secure", "async", "clob"       *)
    Tasks,       (* the tasks of the bot                                    *)
    Plans,       (* client -> what the bot may do: a call for each task     *)
    Addressed,   (* token -> the market and the outcome it stands for       *)
    MarketOf,    (* market id -> the condition id of the market it names    *)
    Answers,     (* token -> what GET /v1/markets-by-token may answer       *)
    Resting      (* the orders that rest at the start: id -> order          *)

CallsOf(c) == UNION {{plan[t] : t \in Tasks} : plan \in Plans[c]}
PlannedCalls == UNION {CallsOf(c) : c \in Clients}
PlannedTokens ==
    {call.token : call \in PlannedCalls} \cup
    UNION {{call.args[i].token : i \in DOMAIN call.args} : call \in PlannedCalls}

OrderKeys == {"market", "outcome", "status", "by", "place", "wire"}

(* What the three forms of a token stand for: the outcome it names, the YES   *)
(* of a market, and what every answer to a lookup agrees on.  A post has an   *)
(* order, and what rests at the start is nobody's.                           *)
ASSUME TradingAssumption ==
    /\ \A token \in PlannedTokens :
         /\ NamesOutcome(token) /\ MarketPart(token) \in DOMAIN MarketOf =>
              Addressed[token] = <<MarketOf[MarketPart(token)], Upper(LabelPart(token))>>
         /\ ~NamesOutcome(token) /\ ~NeedsReverseResolution(token)
            /\ token \in DOMAIN MarketOf =>
              Addressed[token] = <<MarketOf[token], "YES">>
         /\ NeedsReverseResolution(token) =>
              \A answer \in Answers[token] :
                LET outcome == IF answer.outcome = "" THEN "YES" ELSE Upper(answer.outcome)
                IN  \A id \in {answer.condition, answer.market, token} \cap DOMAIN MarketOf :
                      Addressed[token] = <<MarketOf[id], outcome>>
    /\ \A call \in PlannedCalls :
         call.op = "post" => /\ Len(call.args) \in Nat \ {0}
                             /\ DOMAIN call.args = 1..Len(call.args)
    /\ IsFiniteSet(DOMAIN Resting)
    /\ \A id \in DOMAIN Resting :
         /\ id[1] \notin Tasks /\ DOMAIN Resting[id] = OrderKeys
         /\ Resting[id].status \in {"open", "filled", "cancelled"}
         /\ Resting[id].by \notin Tasks

(* The clients there are, and what a call consists of: an operation, ids in a *)
(* sequence, orders whose numbers are numbers.                               *)
ASSUME CallsAssumption ==
    /\ Clients \subseteq {"secure", "async", "clob"}
    /\ \A call \in PlannedCalls :
         /\ call.op \in {"post", "cancel", "cancelMarket", "cancelAll", "balance"}
         /\ call.ids \in Seq(ToSet(call.ids))
         /\ call.postOnly \in BOOLEAN
         /\ \A i \in DOMAIN call.args :
              LET a == call.args[i]
              IN  /\ {"price", "size", "amount", "expiration"} \subseteq DOMAIN a
                  /\ {a.price, a.size, a.amount, a.maxSpend, a.maxPrice, a.minPrice,
                      a.expiration} \subseteq Int

(* What the drop-in does not check, its bots get right: OrderArgs have a      *)
(* price and a size, MarketOrderArgs an amount and a type, neither has the    *)
(* ceilings of the other clients, and GTD is asked for what expires.  It is   *)
(* not asked for balances here.                                              *)
ASSUME ClobAssumption ==
    "clob" \in Clients =>
      \A call \in CallsOf("clob") :
        /\ call.op # "balance"
        /\ \A i \in DOMAIN call.args :
             LET a == call.args[i]
             IN  /\ a.kind = "limit" => a.price > 0 /\ Given(a.size) /\ ~Given(a.amount)
                 /\ a.kind # "limit" => Given(a.amount) /\ a.tif \in {"FOK", "FAK"}
                 /\ ~Given(a.maxSpend) /\ ~Given(a.maxPrice) /\ ~Given(a.minPrice)
                 /\ call.asked = "GTD" => a.kind = "limit" /\ a.expiration > 0

(* The pairs a token may lead to. *)
Pairs(token) ==
    IF NeedsReverseResolution(token)
    THEN {FromPayload(token, answer) : answer \in Answers[token]}
    ELSE {SplitToken(token)}

(* A market that is swept is one the server has.                             *)
ASSUME SweepAssumption ==
    \A call \in PlannedCalls : call.op = "cancelMarket" =>
        IF ~IsEmpty(call.market) THEN call.market \in DOMAIN MarketOf
        ELSE IsEmpty(call.token) \/
             \A pair \in Pairs(call.token) : pair[1] \in DOMAIN MarketOf

(* A balance is asked for by the id that positions are listed under: they are *)
(* compared with the market of the token as it is.                           *)
ASSUME BalanceAssumption ==
    \A call \in PlannedCalls : call.op = "balance" =>
        IsEmpty(call.token) \/
        \A pair \in Pairs(call.token) :
            pair[1] \in DOMAIN MarketOf /\ MarketOf[pair[1]] = pair[1]

VARIABLES
    client,       (* the client in use                                      *)
    coordinates,  (* token -> resolved pair: _token_coordinates             *)
    orders,       (* the server: id -> order                                *)
    task          (* task -> where its call is                              *)

vars == <<client, coordinates, orders, task>>
-----------------------------------------------------------------------------
NoPair == <<>>
Untold == [kind |-> "none", rows |-> <<>>, canceled |-> {}, missed |-> {},
           shares |-> 0]
NoReply == [orders |-> <<>>, ok |-> FALSE, rows |-> <<>>, ids |-> {},
            lost |-> FALSE]

Filled == {id \in DOMAIN orders : orders[id].status = "filled"}
Bought == {id \in Filled : orders[id].wire.side = "BUY"}
Open == {id \in DOMAIN orders : orders[id].status = "open"}

Init ==
    /\ client \in Clients
    /\ coordinates = <<>>
    /\ orders = Resting
    /\ \E plan \in Plans[client] :
         task = [t \in Tasks |->
                   [phase |-> "idle", call |-> plan[t], built |-> <<>>,
                    pair |-> NoPair, tried |-> 0, reply |-> NoReply,
                    told |-> Untold, lost |-> FALSE, existing |-> {},
                    filled |-> {}]]

Is(t, kind, phase) == client = kind /\ task[t].phase = phase
Op(t) == task[t].call.op

(* One thread: a call ends before the next begins. *)
Runs(t) ==
    client = "async" \/ \A u \in Tasks \ {t} : task[u].phase \in {"idle", "done"}

(* A bot cancels what it has been told of.  existing and filled remember,    *)
(* for the properties, what was there.                                       *)
Begin(t) ==
    /\ task[t].phase = "idle"
    /\ Runs(t)
    /\ ToSet(task[t].call.ids) \subseteq DOMAIN orders \cup {NoId}
    /\ task' = [task EXCEPT ![t] =
         [@ EXCEPT !.existing = DOMAIN orders, !.filled = Bought,
                   !.phase = IF Op(t) \in {"cancel", "cancelAll"}
                             THEN "ready" ELSE "resolving"]]
    /\ UNCHANGED <<client, coordinates, orders>>

Returned(k, told) == [k EXCEPT !.phase = "done", !.told = told, !.reply = NoReply]
Raised(k, error) == Returned(k, [Untold EXCEPT !.kind = error])
-----------------------------------------------------------------------------
(* Where a token leads. *)

Asked(k) ==
    IF k.call.op = "post" THEN k.call.args[Len(k.built) + 1].token ELSE k.call.token

Remembered(token, pair) ==
    [t \in DOMAIN coordinates \cup {token} |-> IF t = token THEN pair ELSE coordinates[t]]

(* Mutant: local answers are cached with the others. *)
ResolveCachingAll(token) ==
    IF token \in DOMAIN coordinates
    THEN {[pair |-> coordinates[token], cache |-> coordinates]}
    ELSE {[pair |-> p, cache |-> Remembered(token, p)] :
            p \in IF NeedsReverseResolution(token)
                  THEN {FromPayload(token, answer) : answer \in Answers[token]}
                  ELSE {SplitToken(token)}}

(* The pair and the cache after a lookup, one for each answer.  A bare digit *)
(* id is looked up once, everything else resolves locally.                   *)
ResolveCoordinates(token) ==
    IF ~NeedsReverseResolution(token)
    THEN {[pair |-> SplitToken(token), cache |-> coordinates]}
    ELSE IF token \in DOMAIN coordinates
    THEN {[pair |-> coordinates[token], cache |-> coordinates]}
    ELSE {[pair |-> FromPayload(token, answer),
           cache |-> Remembered(token, FromPayload(token, answer))] :
             answer \in Answers[token]}

(* _resolve_token of the drop-in: the colon form is never looked up. *)
ResolveToken(token) ==
    IF HasColon(token) \/ token \notin ClobTokens
    THEN {[pair |-> SplitToken(token), cache |-> coordinates]}
    ELSE ResolveCoordinates(token)

LookedUp(token) ==
    NeedsReverseResolution(token) /\ token \notin DOMAIN coordinates

(* The task once its token is resolved: the order is built, the checks of    *)
(* polysim_polymarket coming only now, or the call has its market.           *)
Proceed(k, pair) ==
    LET a == k.call.args[Len(k.built) + 1]
        order == IF client = "clob" THEN ClobOrder(a, pair) ELSE Body(a, pair)
    IN  IF k.call.op # "post"
        THEN [k EXCEPT !.pair = pair, !.phase = "ready"]
        ELSE IF client # "clob" /\ ~Valid(a)
        THEN Raised(k, "input")
        ELSE [k EXCEPT !.built = Append(@, order),
                       !.phase = IF Len(k.built) + 1 = Len(k.call.args)
                                 THEN "ready" ELSE "resolving"]

(* A market given as such needs no token; with neither, nothing is sent.     *)
ScopedByMarket(k) == k.call.op = "cancelMarket" /\ ~IsEmpty(k.call.market)

SecureResolve(t) ==
    /\ Is(t, "secure", "resolving")
    /\ LET k == task[t]
           token == Asked(k)
       IN  \/ /\ ScopedByMarket(k)
              /\ task' = [task EXCEPT ![t] = Proceed(k, <<k.call.market, "">>)]
              /\ UNCHANGED coordinates
           \/ /\ ~ScopedByMarket(k) /\ ~ValidToken(token)
              /\ task' = [task EXCEPT ![t] = Raised(k, "input")]
              /\ UNCHANGED coordinates
           \/ /\ ~ScopedByMarket(k) /\ ValidToken(token)
              /\ \E r \in ResolveCoordinates(token) :
                   /\ coordinates' = r.cache
                   /\ task' = [task EXCEPT ![t] = Proceed(k, r.pair)]
           \/ /\ ~ScopedByMarket(k) /\ LookedUp(token)
              /\ task' = [task EXCEPT ![t] = Raised(k, "error")]
              /\ UNCHANGED coordinates
    /\ UNCHANGED <<client, orders>>

ClobResolve(t) ==
    /\ Is(t, "clob", "resolving")
    /\ LET k == task[t]
           token == Asked(k)
           unscoped == Op(t) = "cancelMarket" /\ IsEmpty(token)
       IN  \/ /\ ScopedByMarket(k)
              /\ task' = [task EXCEPT ![t] = Proceed(k, <<k.call.market, "">>)]
              /\ UNCHANGED coordinates
           \/ /\ ~ScopedByMarket(k) /\ ~unscoped
              /\ \E r \in ResolveToken(token) :
                   /\ coordinates' = r.cache
                   /\ task' = [task EXCEPT ![t] = Proceed(k, r.pair)]
           \/ /\ ~ScopedByMarket(k) /\ (unscoped \/ LookedUp(token))
              /\ task' = [task EXCEPT ![t] = Raised(k, "error")]
              /\ UNCHANGED coordinates
    /\ UNCHANGED <<client, orders>>

(* The async client yields where it has to ask, and two tasks may ask for    *)
(* one token: both remember what they are told.                              *)
AsyncResolve(t) ==
    /\ Is(t, "async", "resolving")
    /\ LET k == task[t]
           token == Asked(k)
       IN  task' = [task EXCEPT ![t] =
             IF ScopedByMarket(k) THEN Proceed(k, <<k.call.market, "">>)
             ELSE IF ~ValidToken(token) THEN Raised(k, "input")
             ELSE IF LookedUp(token) THEN [k EXCEPT !.phase = "asking"]
             ELSE IF token \in DOMAIN coordinates
             THEN Proceed(k, coordinates[token])
             ELSE Proceed(k, SplitToken(token))]
    /\ UNCHANGED <<client, coordinates, orders>>

AsyncResolved(t) ==
    /\ Is(t, "async", "asking")
    /\ LET k == task[t]
           token == Asked(k)
       IN  \/ \E answer \in Answers[token] :
                LET pair == FromPayload(token, answer)
                IN  /\ coordinates' = Remembered(token, pair)
                    /\ task' = [task EXCEPT ![t] = Proceed(k, pair)]
           \/ /\ task' = [task EXCEPT ![t] = Raised(k, "error")]
              /\ UNCHANGED coordinates
    /\ UNCHANGED <<client, orders>>
-----------------------------------------------------------------------------
(* External: the server takes orders.  It places what names a market it      *)
(* knows, fills it or lets a limit order rest, and answers a row for each    *)
(* order; a row that places nothing says so in one of several ways.          *)

RefusedRows ==
    {[status |-> "rejected", success |-> "absent", id |-> NoId, error |-> TRUE],
     [status |-> "live", success |-> "false", id |-> NoId, error |-> FALSE],
     [status |-> "fok_not_filled", success |-> "absent", id |-> NoId,
      error |-> FALSE]}

Verdicts(wire) ==
    {"refused"} \cup
    IF wire.market \notin DOMAIN MarketOf THEN {}
    ELSE IF wire.type = "market" THEN {"filled"} ELSE {"filled", "open"}

PlacedOrders(t, wires, verdict) ==
    [id \in {<<t, i>> : i \in {j \in DOMAIN wires : verdict[j] # "refused"}} |->
       LET i == id[2]
       IN  [market |-> MarketOf[wires[i].market], outcome |-> Upper(wires[i].outcome),
            status |-> verdict[i], by |-> t, place |-> i, wire |-> wires[i]]]

Joined(placed) ==
    [id \in DOMAIN placed \cup DOMAIN orders |->
       IF id \in DOMAIN placed THEN placed[id] ELSE orders[id]]

(* What POST /v1/orders or /v1/orders/batch may come to.                      *)
Serve(t, wires) ==
    LET verdicts == {v \in [DOMAIN wires -> {"refused", "filled", "open"}] :
                       \A i \in DOMAIN wires : v[i] \in Verdicts(wires[i])}
        Row(v, refused, i) ==
          IF v[i] = "refused" THEN refused
          ELSE [status |-> IF v[i] = "filled" THEN "filled" ELSE "live",
                success |-> "absent", id |-> <<t, i>>, error |-> FALSE]
        Done(v, refused, ok) ==
          [NoReply EXCEPT !.orders = Joined(PlacedOrders(t, wires, v)),
                          !.ok = ok, !.lost = ~ok,
                          !.rows = IF ok THEN [i \in DOMAIN wires |-> Row(v, refused, i)]
                                   ELSE <<>>]
    IN  {[NoReply EXCEPT !.orders = orders]} \cup
        {Done(d.verdict, d.refused, d.ok) :
           d \in [verdict : verdicts, refused : RefusedRows, ok : BOOLEAN]}

(* The server cancels.  A DELETE is tried again like any other request: when *)
(* the first answer is lost the order is gone already, and the retry says so *)
(* with an error.                                                            *)
Cancelled(t, ids) ==
    [id \in DOMAIN orders |->
       IF id \in ids THEN [orders[id] EXCEPT !.status = "cancelled", !.by = t]
       ELSE orders[id]]

Delete(t, id) ==
    {[NoReply EXCEPT !.orders = orders]} \cup
    IF id \in Open
    THEN {[NoReply EXCEPT !.orders = Cancelled(t, {id}), !.ok = ok, !.lost = ~ok] :
            ok \in BOOLEAN}
    ELSE {}

(* A sweep answers the ids or a bare count; tried again, it finds nothing.   *)
Sweep(t, ids) ==
    {[NoReply EXCEPT !.orders = orders]} \cup
    {[NoReply EXCEPT !.orders = Cancelled(t, ids), !.ok = a.ok, !.lost = ~a.ok,
                     !.ids = a.listed] : a \in [ok : BOOLEAN, listed : {ids, {}}]}

InMarket(market) ==
    {id \in Open : market \in DOMAIN MarketOf /\ orders[id].market = MarketOf[market]}
-----------------------------------------------------------------------------
(* Posting.  polysim_polymarket sends the bodies it built and reads the rows *)
(* onto AcceptedOrder or RejectedOrder; the drop-in settles the time-in-     *)
(* force and hands the rows on as they are.                                  *)

Adapted(reply) ==
    IF reply.ok
    THEN [Untold EXCEPT !.kind = "rows",
            !.rows = [i \in DOMAIN reply.rows |-> AdaptOrderResponse(reply.rows[i])]]
    ELSE [Untold EXCEPT !.kind = "error"]

SecurePost(t) ==
    /\ Is(t, "secure", "ready") /\ Op(t) = "post"
    /\ \E reply \in Serve(t, task[t].built) :
         /\ orders' = reply.orders
         /\ task' = [task EXCEPT ![t] = [Returned(@, Adapted(reply)) EXCEPT
                                          !.lost = reply.lost]]
    /\ UNCHANGED <<client, coordinates>>

ClobPost(t) ==
    /\ Is(t, "clob", "ready") /\ Op(t) = "post"
    /\ LET call  == task[t].call
           wires == [i \in DOMAIN task[t].built |->
                       IF call.batch
                       THEN BatchEntry(task[t].built[i], call.asked, call.postOnly)
                       ELSE Submit(task[t].built[i], call.asked, call.postOnly)]
       IN  \E reply \in Serve(t, wires) :
             /\ orders' = reply.orders
             /\ task' = [task EXCEPT ![t] = [Returned(@,
                  [Untold EXCEPT !.kind = IF reply.ok THEN "raw" ELSE "error"])
                  EXCEPT !.lost = reply.lost]]
    /\ UNCHANGED <<client, coordinates>>

(* What the async client sends, and what it has when the answer is there.    *)
Sent(t, reply) ==
    /\ orders' = reply.orders
    /\ task' = [task EXCEPT ![t] =
         [@ EXCEPT !.phase = "waiting", !.lost = task[t].lost \/ reply.lost,
                   !.reply = [reply EXCEPT !.orders = <<>>]]]
    /\ UNCHANGED <<client, coordinates>>

AsyncPost(t) ==
    /\ Is(t, "async", "ready") /\ Op(t) = "post"
    /\ \E reply \in Serve(t, task[t].built) : Sent(t, reply)

AsyncPosted(t) ==
    /\ Is(t, "async", "waiting") /\ Op(t) = "post"
    /\ task' = [task EXCEPT ![t] = Returned(@, Adapted(@.reply))]
    /\ UNCHANGED <<client, coordinates, orders>>
-----------------------------------------------------------------------------
(* Cancelling by id: one DELETE after the other, each noted as it is         *)
(* answered.  polysim_polymarket refuses the whole call for one bad id.      *)

BadIds(k) == k.call.ids = <<>> \/ NoId \in ToSet(k.call.ids)

NextId(k) == k.call.ids[k.tried + 1]

(* Mutant: an id is noted as cancelled as soon as its DELETE is sent. *)
TalliedWhenSent(k, ok) ==
    LET told == [k.told EXCEPT !.canceled = @ \cup {NextId(k)}]
        next == [k EXCEPT !.tried = @ + 1, !.phase = "ready", !.told = told]
    IN  IF next.tried = Len(k.call.ids)
        THEN Returned(next, [told EXCEPT !.kind = "tally"]) ELSE next

Tallied(k, ok) ==
    LET told == IF ok THEN [k.told EXCEPT !.canceled = @ \cup {NextId(k)}]
                ELSE [k.told EXCEPT !.missed = @ \cup {NextId(k)}]
        next == [k EXCEPT !.tried = @ + 1, !.phase = "ready", !.told = told]
    IN  IF next.tried = Len(k.call.ids)
        THEN Returned(next, [told EXCEPT !.kind = "tally"]) ELSE next

SecureCancel(t) ==
    /\ Is(t, "secure", "ready") /\ Op(t) = "cancel"
    /\ IF BadIds(task[t])
       THEN /\ task' = [task EXCEPT ![t] = Raised(@, "input")]
            /\ UNCHANGED orders
       ELSE \E reply \in Delete(t, NextId(task[t])) :
              /\ orders' = reply.orders
              /\ task' = [task EXCEPT ![t] = [Tallied(@, reply.ok) EXCEPT
                                              !.lost = task[t].lost \/ reply.lost]]
    /\ UNCHANGED <<client, coordinates>>

ClobCancel(t) ==
    /\ Is(t, "clob", "ready") /\ Op(t) = "cancel"
    /\ IF task[t].call.ids = <<>>
       THEN /\ task' = [task EXCEPT ![t] = Returned(@, [Untold EXCEPT !.kind = "tally"])]
            /\ UNCHANGED orders
       ELSE \E reply \in Delete(t, NextId(task[t])) :
              /\ orders' = reply.orders
              /\ task' = [task EXCEPT ![t] = [Tallied(@, reply.ok) EXCEPT
                                              !.lost = task[t].lost \/ reply.lost]]
    /\ UNCHANGED <<client, coordinates>>

AsyncCancel(t) ==
    /\ Is(t, "async", "ready") /\ Op(t) = "cancel"
    /\ IF BadIds(task[t])
       THEN /\ task' = [task EXCEPT ![t] = Raised(@, "input")]
            /\ UNCHANGED <<client, coordinates, orders>>
       ELSE \E reply \in Delete(t, NextId(task[t])) : Sent(t, reply)

AsyncCanceled(t) ==
    /\ Is(t, "async", "waiting") /\ Op(t) = "cancel"
    /\ task' = [task EXCEPT ![t] = Tallied(@, @.reply.ok)]
    /\ UNCHANGED <<client, coordinates, orders>>
-----------------------------------------------------------------------------
(* Cancelling a market, both of its outcomes, or everything.                 *)

Scope(k) == IF k.call.op = "cancelAll" THEN Open ELSE InMarket(k.pair[1])

AdaptCancelResponse(reply) ==
    IF reply.ok THEN [Untold EXCEPT !.kind = "swept", !.canceled = reply.ids]
    ELSE [Untold EXCEPT !.kind = "error"]

Sweeps(t) == Op(t) \in {"cancelMarket", "cancelAll"}

SecureSweep(t) ==
    /\ Is(t, "secure", "ready") /\ Sweeps(t)
    /\ \E reply \in Sweep(t, Scope(task[t])) :
         /\ orders' = reply.orders
         /\ task' = [task EXCEPT ![t] = [Returned(@, AdaptCancelResponse(reply))
                                         EXCEPT !.lost = reply.lost]]
    /\ UNCHANGED <<client, coordinates>>

ClobSweep(t) ==
    /\ Is(t, "clob", "ready") /\ Sweeps(t)
    /\ \E reply \in Sweep(t, Scope(task[t])) :
         /\ orders' = reply.orders
         /\ task' = [task EXCEPT ![t] = [Returned(@, AdaptCancelResponse(reply))
                                         EXCEPT !.lost = reply.lost]]
    /\ UNCHANGED <<client, coordinates>>

AsyncSweep(t) ==
    /\ Is(t, "async", "ready") /\ Sweeps(t)
    /\ \E reply \in Sweep(t, Scope(task[t])) : Sent(t, reply)

AsyncSwept(t) ==
    /\ Is(t, "async", "waiting") /\ Sweeps(t)
    /\ task' = [task EXCEPT ![t] = Returned(@, AdaptCancelResponse(@.reply))]
    /\ UNCHANGED <<client, coordinates, orders>>
-----------------------------------------------------------------------------
(* The conditional balance: the positions that match the pair.  The server   *)
(* lists a position by its market's condition id; here each buy that filled  *)
(* is one share of it, and sells are left out.                               *)

(* Mutant: positions list outcomes in title case, and case counts. *)
ConditionalBalanceCased(pair) ==
    Cardinality({id \in Bought : /\ orders[id].market = pair[1]
                                 /\ orders[id].outcome = pair[2]})

ConditionalBalance(pair) ==
    Cardinality({id \in Bought : /\ orders[id].market = pair[1]
                                 /\ orders[id].outcome = Upper(pair[2])})

ReadBalance(t) ==
    \/ task' = [task EXCEPT ![t] = Returned(@, [Untold EXCEPT !.kind = "balance",
                                     !.shares = ConditionalBalance(task[t].pair)])]
    \/ task' = [task EXCEPT ![t] = Raised(@, "error")]

SecureBalance(t) ==
    /\ Is(t, "secure", "ready") /\ Op(t) = "balance"
    /\ ReadBalance(t)
    /\ UNCHANGED <<client, coordinates, orders>>

(* The await on the token is AsyncResolve's; from here on nothing is kept     *)
(* across the one on the positions but the pair.                             *)
AsyncBalance(t) ==
    /\ Is(t, "async", "ready") /\ Op(t) = "balance"
    /\ ReadBalance(t)
    /\ UNCHANGED <<client, coordinates, orders>>
-----------------------------------------------------------------------------
(* A resting order fills on its own. *)
ServerFills ==
    /\ \E id \in Open : orders' = [orders EXCEPT ![id].status = "filled"]
    /\ UNCHANGED <<client, coordinates, task>>

Step(t) ==
    \/ SecureResolve(t) \/ ClobResolve(t) \/ AsyncResolve(t) \/ AsyncResolved(t)
    \/ SecurePost(t) \/ ClobPost(t) \/ AsyncPost(t) \/ AsyncPosted(t)
    \/ SecureCancel(t) \/ ClobCancel(t) \/ AsyncCancel(t) \/ AsyncCanceled(t)
    \/ SecureSweep(t) \/ ClobSweep(t) \/ AsyncSweep(t) \/ AsyncSwept(t)
    \/ SecureBalance(t) \/ AsyncBalance(t)

Done ==
    /\ \A t \in Tasks : task[t].phase \in {"idle", "done"}
    /\ UNCHANGED vars

Next ==
    \/ \E t \in Tasks : Begin(t) \/ Step(t)
    \/ ServerFills
    \/ Done

Spec == Init /\ [][Next]_vars
-----------------------------------------------------------------------------
(* Properties. *)

(* Types: the server's orders, and where each task is with its call.         *)
TypeOK ==
    /\ client \in Clients
    /\ DOMAIN coordinates \subseteq ClobTokens
    /\ \A id \in DOMAIN orders :
         /\ DOMAIN orders[id] = OrderKeys
         /\ orders[id].status \in {"open", "filled", "cancelled"}
    /\ \A t \in Tasks :
         /\ task[t].phase \in {"idle", "resolving", "asking", "ready",
                              "waiting", "done"}
         /\ task[t].tried \in Nat
         /\ task[t].told.kind \in {"none", "rows", "raw", "error", "input",
                                  "tally", "swept", "balance"}
         /\ task[t].told.canceled \cup task[t].told.missed \subseteq
              DOMAIN orders \cup {NoId}

Own(t) == {id \in DOMAIN orders : id[1] = t}
ArgsOf(id) == task[id[1]].call.args[id[2]]

(* What the server places is an order on the market and the outcome the      *)
(* token of the call stands for, whatever form the token has and however     *)
(* the lookup was answered (_resolve_coordinates, _resolve_token).           *)
OrdersLandWhereAddressed ==
    \A t \in Tasks : \A id \in Own(t) :
        <<orders[id].market, orders[id].outcome>> = Addressed[ArgsOf(id).token]

(* Nothing reaches the server that does more than the bot asked: a market    *)
(* order has a worst price and is never left to rest, a buy spends no more   *)
(* than its amount and its ceiling, a sell names shares and no dollars, and  *)
(* an expiration is never sent with GTC (the build functions, _submit).      *)
NothingBeyondTheCall ==
    \A t \in Tasks : \A id \in Own(t) :
        LET a == ArgsOf(id)
            w == orders[id].wire
            market == w.type = "market"
        IN  /\ w.side = Upper(a.side) /\ w.price > 0
            /\ Given(w.amount) # Given(w.quantity)
            /\ Given(w.amount) => market /\ w.side = "BUY" /\ w.amount <= a.amount
            /\ market /\ Given(a.maxSpend) => w.amount <= a.maxSpend
            /\ market /\ w.side = "BUY" /\ Given(a.maxPrice) => w.price <= a.maxPrice
            /\ market /\ w.side = "SELL" /\ Given(a.minPrice) => w.price >= a.minPrice
            /\ market => w.tif # "GTC"
            /\ Given(a.expiration) /\ a.expiration > 0 => w.tif # "GTC"
            /\ w.tif = "GTD" => Given(w.expiration)

Terms(wire) == [wire EXCEPT !.market = <<>>, !.outcome = ""]

(* An order goes onto the wire the same, posted alone or in a batch (the     *)
(* guards of _submit are written out a second time in post_orders); only the *)
(* spelling of its market may differ, as lookups answer it.                  *)
BatchSendsTheSame ==
    \A t, u \in Tasks : \A id \in Own(t), other \in Own(u) :
        /\ ArgsOf(id) = ArgsOf(other)
        /\ task[t].call.asked = task[u].call.asked
        /\ task[t].call.postOnly = task[u].call.postOnly
        => Terms(orders[id].wire) = Terms(orders[other].wire)

(* Together: an order says what the bot asked for, however it is posted.     *)
OrdersSayWhatWasAsked == NothingBeyondTheCall /\ BatchSendsTheSame

(* A bot that is told its orders were accepted has them, at their places of  *)
(* the batch, and of what it is told was rejected nothing was placed.        *)
ToldWhatWasPlaced ==
    \A t \in Tasks :
        task[t].told.kind = "rows" =>
          /\ Len(task[t].told.rows) = Len(task[t].call.args)
          /\ \A i \in DOMAIN task[t].told.rows :
               LET row == task[t].told.rows[i]
               IN  /\ row.ok <=> <<t, i>> \in DOMAIN orders
                   /\ row.ok => row.id = <<t, i>>

(* The tally of a cancel covers every id; what it calls cancelled is not     *)
(* live any more, and what this call cancelled without saying so is a        *)
(* cancel whose answer was lost.                                             *)
TallyIsTrue ==
    \A t \in Tasks :
        LET told == task[t].told
        IN  /\ told.kind = "tally" =>
                 ToSet(task[t].call.ids) = told.canceled \cup told.missed
            /\ \A id \in told.canceled : orders[id].status = "cancelled"
            /\ task[t].phase = "done" /\ ~task[t].lost =>
                 \A id \in (told.missed \ told.canceled) \cap DOMAIN orders :
                   orders[id].by # t

(* A sweep that is reported done leaves nothing open of what was there when  *)
(* it was called, and it touches no other market than the one meant.         *)
SweepsTheMarketMeant ==
    \A t \in Tasks :
        Op(t) = "cancelMarket" =>
          LET c == task[t].call
              meant == IF ~IsEmpty(c.market) THEN MarketOf[c.market]
                       ELSE Addressed[c.token][1]
          IN  /\ \A id \in DOMAIN orders :
                   orders[id].by = t /\ orders[id].status = "cancelled"
                     => orders[id].market = meant
              /\ task[t].told.kind = "swept" =>
                   \A id \in task[t].existing :
                     orders[id].market = meant => orders[id].status # "open"

(* A call refused for its arguments has sent no order and cancelled nothing, *)
(* though it may have looked a token up.                                     *)
BadInputChangesNothing ==
    \A t \in Tasks :
        task[t].told.kind = "input" =>
          /\ Own(t) = {}
          /\ \A id \in DOMAIN orders : orders[id].by # t

(* Together: what the bot hears of its orders is what became of them.        *)
AnswersAreTrue == ToldWhatWasPlaced /\ BadInputChangesNothing

(* Together: what is told of a cancel was cancelled, and nothing else was.   *)
CancelsAreTrue == TallyIsTrue /\ SweepsTheMarketMeant

(* A balance holds every fill there was when it was asked for, and none of   *)
(* another outcome, whichever form of the token the orders were placed with. *)
BalanceHoldsTheFills ==
    \A t \in Tasks :
        task[t].told.kind = "balance" =>
          LET mine(ids) == {id \in ids : <<orders[id].market, orders[id].outcome>> =
                                          Addressed[task[t].call.token]}
          IN  /\ Cardinality(mine(task[t].filled)) <= task[t].told.shares
              /\ task[t].told.shares <= Cardinality(mine(Bought))
=============================================================================
