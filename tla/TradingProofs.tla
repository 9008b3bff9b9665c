---------------------------- MODULE TradingProofs -----------------------------
(***************************************************************************)
(* What the bot's calls come to, for any tokens, markets, answers to        *)
(* lookups, calls, batches and tasks, and whichever tasks interleave.       *)
(*                                                                         *)
(* The first half follows the token: what is looked up, remembered, built   *)
(* and sent stays what the token meant (Inv), so orders land where they     *)
(* were addressed.  The second follows the call: what it has at the server, *)
(* what it has heard and what it tells (CallsInv), so orders say what was   *)
(* asked, answers, cancels and sweeps are told as they happened, and a      *)
(* balance counts the fills of its own outcome.                             *)
(***************************************************************************)
EXTENDS Trading, FiniteSetTheorems, TLAPS

TaskKeys == {"phase", "call", "built", "pair", "tried", "reply", "told", "lost",
             "existing", "filled"}
WireKeys == {"market", "outcome", "side", "type", "tif", "price", "quantity",
             "amount", "expiration", "postOnly"}

(* A pair, if it names a market, names what the token stands for. *)
Leads(token, pair) ==
    pair[1] \in DOMAIN MarketOf =>
        <<MarketOf[pair[1]], Upper(pair[2])>> = Addressed[token]

RightWire(wire, token) ==
    DOMAIN wire = WireKeys /\ Leads(token, <<wire.market, wire.outcome>>)

Building == {"idle", "resolving", "asking"}

RightBuilt(k) ==
    /\ \E S : k.built \in Seq(S)
    /\ Len(k.built) <= Len(k.call.args)
    /\ k.phase \in Building => Len(k.built) < Len(k.call.args)
    /\ \A i \in 1..Len(k.built) : RightWire(k.built[i], k.call.args[i].token)

(* What is built is built for the orders of the call, in their places. *)
RightTask(k) ==
    /\ DOMAIN k = TaskKeys /\ k.call \in PlannedCalls
    /\ k.call.op = "post" => RightBuilt(k)
    /\ k.phase = "asking" => NeedsReverseResolution(Asked(k))

RightCache(cache) == \A token \in DOMAIN cache : Leads(token, cache[token])

(* An order of a task is where the token in its place of the call says.       *)
RightOrders(placed, tasks) ==
    \A id \in DOMAIN placed :
        /\ DOMAIN placed[id] = OrderKeys
        /\ id[1] \in Tasks =>
             <<placed[id].market, placed[id].outcome>> =
                 Addressed[tasks[id[1]].call.args[id[2]].token]

Inv ==
    /\ task = [t \in Tasks |-> task[t]]
    /\ \A t \in Tasks : RightTask(task[t])
    /\ RightCache(coordinates)
    /\ RightOrders(orders, task)
-----------------------------------------------------------------------------
(* Tokens. *)

LEMMA UpperOfUpper ==
    ASSUME NEW label, Upper(label) \in Outcomes
    PROVE  Upper(Upper(label)) = Upper(label)
BY DEF Upper, Outcomes

LEMMA UpperYes == Upper("YES") = "YES"
BY DEF Upper

(* Taken apart, a token leads where it stands for, without a lookup.          *)
LEMMA SplitLeads ==
    ASSUME NEW token \in PlannedTokens, ~NeedsReverseResolution(token)
    PROVE  Leads(token, SplitToken(token))
<1>1. CASE NamesOutcome(token)
    <2>1. Upper(Upper(LabelPart(token))) = Upper(LabelPart(token))
        BY <1>1, UpperOfUpper DEF NamesOutcome
    <2>2. QED
        BY <1>1, <2>1, TradingAssumption DEF Leads, SplitToken
<1>2. CASE ~NamesOutcome(token)
    BY <1>2, UpperYes, TradingAssumption DEF Leads, SplitToken
<1>3. QED
    BY <1>1, <1>2

(* A looked-up token leads where it stands for, by any answer. *)
LEMMA PayloadLeads ==
    ASSUME NEW token \in PlannedTokens, NeedsReverseResolution(token),
           NEW answer \in Answers[token]
    PROVE  Leads(token, FromPayload(token, answer))
<1> DEFINE pair == FromPayload(token, answer)
<1>1. pair[1] \in {answer.condition, answer.market, token}
    BY DEF FromPayload
<1>2. Upper(pair[2]) = IF answer.outcome = "" THEN "YES" ELSE Upper(answer.outcome)
    BY UpperYes DEF FromPayload
<1>3. \A id \in {answer.condition, answer.market, token} \cap DOMAIN MarketOf :
        Addressed[token] = <<MarketOf[id], IF answer.outcome = "" THEN "YES"
                                           ELSE Upper(answer.outcome)>>
    BY TradingAssumption
<1>4. Leads(token, pair)
    <2> HIDE DEF pair
    <2>1. QED
        BY <1>1, <1>2, <1>3 DEF Leads
<1>5. QED
    BY <1>4

LEMMA RememberedLeads ==
    ASSUME RightCache(coordinates), NEW token, NEW pair, Leads(token, pair)
    PROVE  RightCache(Remembered(token, pair))
BY DEF RightCache, Remembered

(* Whatever a resolution comes to leads right, and so does what it remembers. *)
LEMMA ResolutionLeads ==
    ASSUME RightCache(coordinates), NEW token \in PlannedTokens,
           NEW r \in ResolveCoordinates(token)
    PROVE  Leads(token, r.pair) /\ RightCache(r.cache)
<1>1. CASE ~NeedsReverseResolution(token)
    BY <1>1, SplitLeads DEF ResolveCoordinates
<1>2. CASE NeedsReverseResolution(token) /\ token \in DOMAIN coordinates
    BY <1>2 DEF ResolveCoordinates, RightCache
<1>3. CASE NeedsReverseResolution(token) /\ token \notin DOMAIN coordinates
    <2>1. PICK answer \in Answers[token] :
            r = [pair |-> FromPayload(token, answer),
                 cache |-> Remembered(token, FromPayload(token, answer))]
        BY <1>3 DEF ResolveCoordinates
    <2>2. QED
        BY <1>3, <2>1, PayloadLeads, RememberedLeads
<1>4. QED
    BY <1>1, <1>2, <1>3

LEMMA ClobResolutionLeads ==
    ASSUME RightCache(coordinates), NEW token \in PlannedTokens,
           NEW r \in ResolveToken(token)
    PROVE  Leads(token, r.pair) /\ RightCache(r.cache)
<1>1. CASE HasColon(token) \/ token \notin ClobTokens
    BY <1>1, SplitLeads DEF ResolveToken, NeedsReverseResolution
<1>2. CASE ~(HasColon(token) \/ token \notin ClobTokens)
    BY <1>2, ResolutionLeads DEF ResolveToken
<1>3. QED
    BY <1>1, <1>2
-----------------------------------------------------------------------------
(* Building. *)

(* An order is built for the pair it is given. *)
LEMMA BuiltForPair ==
    ASSUME NEW a, NEW pair
    PROVE  /\ DOMAIN ClobOrder(a, pair) = WireKeys /\ DOMAIN Body(a, pair) = WireKeys
           /\ ClobOrder(a, pair).market = pair[1] /\ ClobOrder(a, pair).outcome = pair[2]
           /\ Body(a, pair).market = pair[1] /\ Body(a, pair).outcome = pair[2]
BY DEF ClobOrder, ClobLimitOrder, ClobMarketOrder, OrderPayload, Body, LimitBody,
    MarketBody, WireKeys

(* Posting changes neither market nor outcome. *)
LEMMA PostedForPair ==
    ASSUME NEW order, DOMAIN order = WireKeys, NEW asked, NEW postOnly
    PROVE  /\ Submit(order, asked, postOnly).market = order.market
           /\ Submit(order, asked, postOnly).outcome = order.outcome
           /\ BatchEntry(order, asked, postOnly).market = order.market
           /\ BatchEntry(order, asked, postOnly).outcome = order.outcome
BY DEF Submit, BatchEntry, WireKeys

(* _submit and post_orders: the two copies of the guards say the same, so an  *)
(* order goes out of the drop-in the same, posted alone or in a batch.        *)
THEOREM BatchPostsAsSubmit ==
    ASSUME NEW order, DOMAIN order = WireKeys, order.postOnly \in BOOLEAN,
           NEW asked, NEW postOnly \in BOOLEAN
    PROVE  BatchEntry(order, asked, postOnly) = Submit(order, asked, postOnly)
<1> DEFINE tif  == IF Given(order.expiration) /\ asked = "GTC" THEN "GTD" ELSE asked
           kept == order.type = "market" /\ tif = "GTC" /\ order.tif \in {"FOK", "FAK"}
<1>1. (IF postOnly THEN TRUE ELSE order.postOnly) = (order.postOnly \/ postOnly)
    OBVIOUS
<1>2. BatchEntry(order, asked, postOnly) =
        [order EXCEPT !.tif = IF kept THEN order.tif ELSE tif,
                      !.postOnly = order.postOnly \/ postOnly]
    BY <1>1 DEF BatchEntry
<1>3. QED
    BY <1>2 DEF Submit

LEMMA Appended ==
    ASSUME NEW S, NEW s \in Seq(S), NEW e
    PROVE  /\ \E T : Append(s, e) \in Seq(T)
           /\ Len(s) \in Nat
           /\ Len(Append(s, e)) = Len(s) + 1
           /\ \A i \in 1..Len(s) : Append(s, e)[i] = s[i]
           /\ Append(s, e)[Len(s) + 1] = e
<1>1. s \in Seq(S \cup {e}) /\ e \in S \cup {e}
    OBVIOUS
<1>2. QED
    BY <1>1

LEMMA PostHasOrders ==
    ASSUME NEW call \in PlannedCalls, call.op = "post"
    PROVE  Len(call.args) \in Nat \ {0} /\ DOMAIN call.args = 1..Len(call.args)
BY TradingAssumption

(* What is asked about is a token of the call. *)
LEMMA AskedIsPlanned ==
    ASSUME NEW k, RightTask(k), k.phase \in Building
    PROVE  Asked(k) \in PlannedTokens
<1>1. k.call \in PlannedCalls
    BY DEF RightTask
<1>2. CASE k.call.op # "post"
    BY <1>1, <1>2 DEF Asked, PlannedTokens
<1>3. CASE k.call.op = "post"
    <2>1. Len(k.built) \in Nat /\ Len(k.built) < Len(k.call.args)
        BY <1>3 DEF RightTask, RightBuilt
    <2>2. Len(k.built) + 1 \in DOMAIN k.call.args
        BY <1>1, <1>3, <2>1, PostHasOrders
    <2>3. QED
        BY <1>1, <1>3, <2>2 DEF Asked, PlannedTokens
<1>4. QED
    BY <1>2, <1>3
-----------------------------------------------------------------------------
(* One task. *)

(* A task that only moves on: its call and what it built stay. *)
LEMMA MovesOn ==
    ASSUME NEW k, RightTask(k), NEW j,
           DOMAIN j = DOMAIN k, j.call = k.call, j.built = k.built,
           j.phase \notin Building \/ k.phase \in Building,
           j.phase = "asking" => NeedsReverseResolution(Asked(k))
    PROVE  RightTask(j)
BY DEF RightTask, RightBuilt, Asked

(* The next order is built for the pair its token leads to. *)
LEMMA ProceedsRight ==
    ASSUME NEW k, RightTask(k), k.phase \in Building,
           NEW pair, k.call.op = "post" => Leads(Asked(k), pair)
    PROVE  /\ RightTask(Proceed(k, pair))
           /\ Proceed(k, pair).call = k.call
<1> DEFINE a == k.call.args[Len(k.built) + 1]
           order == IF client = "clob" THEN ClobOrder(a, pair) ELSE Body(a, pair)
           next == [k EXCEPT !.built = Append(@, order),
                             !.phase = IF Len(k.built) + 1 = Len(k.call.args)
                                       THEN "ready" ELSE "resolving"]
<1>1. CASE k.call.op # "post"
    <2>1. Proceed(k, pair) = [k EXCEPT !.pair = pair, !.phase = "ready"]
        BY <1>1 DEF Proceed
    <2>2. QED
        BY <1>1, <2>1 DEF RightTask, TaskKeys
<1>2. CASE k.call.op = "post" /\ client # "clob" /\ ~Valid(a)
    <2>1. Proceed(k, pair) = Raised(k, "input")
        BY <1>2 DEF Proceed
    <2>2. QED
        BY <1>2, <2>1 DEF Raised, Returned, RightTask, RightBuilt, TaskKeys
<1>3. CASE k.call.op = "post" /\ ~(client # "clob" /\ ~Valid(a))
    <2>1. Proceed(k, pair) = next
        BY <1>3 DEF Proceed
    <2>2. PICK S : k.built \in Seq(S)
        BY <1>3 DEF RightTask, RightBuilt
    <2>3. /\ \E T : Append(k.built, order) \in Seq(T)
          /\ Len(k.built) \in Nat
          /\ Len(Append(k.built, order)) = Len(k.built) + 1
          /\ \A i \in 1..Len(k.built) : Append(k.built, order)[i] = k.built[i]
          /\ Append(k.built, order)[Len(k.built) + 1] = order
        <3> HIDE DEF order
        <3>1. QED
            BY <2>2, Appended
    <2>4. /\ next.built = Append(k.built, order) /\ next.call = k.call
          /\ DOMAIN next = TaskKeys
          /\ next.phase = IF Len(k.built) + 1 = Len(k.call.args)
                          THEN "ready" ELSE "resolving"
        <3> HIDE DEF order
        <3>1. QED
            BY DEF RightTask, TaskKeys
    <2>5. RightWire(order, a.token)
        <3>1. order.market = pair[1] /\ order.outcome = pair[2] /\ DOMAIN order = WireKeys
            BY BuiltForPair
        <3>2. Leads(a.token, pair)
            BY <1>3 DEF Asked
        <3>3. QED
            <4> HIDE DEF order, a
            <4>1. QED
                BY <3>1, <3>2 DEF RightWire, Leads
    <2>6. Len(k.call.args) \in Nat \ {0} /\ Len(k.built) < Len(k.call.args)
        BY <1>3, PostHasOrders DEF RightTask, RightBuilt
    <2>7. RightBuilt(next)
        <3>1. /\ \E T : next.built \in Seq(T)
              /\ Len(next.built) <= Len(next.call.args)
              /\ next.phase \in Building => Len(next.built) < Len(next.call.args)
            <4> HIDE DEF next, order
            <4>1. QED
                BY <2>3, <2>4, <2>6 DEF Building
        <3>2. ASSUME NEW i \in 1..Len(next.built)
              PROVE  RightWire(next.built[i], next.call.args[i].token)
            <4>1. CASE i = Len(k.built) + 1
                <5>1. next.built[i] = order /\ next.call.args[i] = a
                    <6> HIDE DEF next, order
                    <6>1. QED
                        BY <2>3, <2>4, <4>1
                <5>2. QED
                    <6> HIDE DEF next, order, a
                    <6>1. QED
                        BY <2>5, <5>1
            <4>2. CASE i # Len(k.built) + 1
                <5>1. i \in 1..Len(k.built)
                    <6> HIDE DEF next, order
                    <6>1. QED
                        BY <2>3, <2>4, <3>2, <4>2
                <5>2. next.built[i] = k.built[i] /\ next.call = k.call
                    <6> HIDE DEF next, order
                    <6>1. QED
                        BY <2>3, <2>4, <5>1
                <5>3. QED
                    <6> HIDE DEF next, order
                    <6>1. QED
                        BY <1>3, <5>1, <5>2 DEF RightTask, RightBuilt
            <4>3. QED
                BY <4>1, <4>2
        <3>3. QED
            <4> HIDE DEF next
            <4>1. QED
                BY <3>1, <3>2 DEF RightBuilt
    <2>8. QED
        <3> HIDE DEF next
        <3>1. QED
            BY <1>3, <2>1, <2>4, <2>7 DEF RightTask
<1>4. QED
    BY <1>1, <1>2, <1>3
-----------------------------------------------------------------------------
(* The server. *)

LEMMA ServedPlaces ==
    ASSUME NEW t, NEW wires, NEW reply \in Serve(t, wires)
    PROVE  \/ reply.orders = orders
           \/ \E v : /\ \A i \in DOMAIN wires : v[i] \in Verdicts(wires[i])
                    /\ reply.orders = Joined(PlacedOrders(t, wires, v))
<1>1. CASE reply = [NoReply EXCEPT !.orders = orders]
    BY <1>1 DEF NoReply
<1>2. CASE reply # [NoReply EXCEPT !.orders = orders]
    <2>1. PICK v \in {w \in [DOMAIN wires -> {"refused", "filled", "open"}] :
                       \A i \in DOMAIN wires : w[i] \in Verdicts(wires[i])} :
            \E ok, rows : reply = [NoReply EXCEPT
                          !.orders = Joined(PlacedOrders(t, wires, v)),
                          !.ok = ok, !.lost = ~ok, !.rows = rows]
        BY <1>2 DEF Serve
    <2>2. reply.orders = Joined(PlacedOrders(t, wires, v))
        BY <2>1 DEF NoReply
    <2>3. QED
        BY <2>1, <2>2
<1>3. QED
    BY <1>1, <1>2

(* What is placed is where its token says, next to what was there. *)
LEMMA PlacedRight ==
    ASSUME RightOrders(orders, task), NEW t \in Tasks, RightTask(task[t]),
           task[t].call.op = "post", NEW wires,
           DOMAIN wires = DOMAIN task[t].built,
           \A i \in DOMAIN wires : /\ wires[i].market = task[t].built[i].market
                                  /\ wires[i].outcome = task[t].built[i].outcome,
           NEW reply \in Serve(t, wires)
    PROVE  RightOrders(reply.orders, task)
<1>1. CASE reply.orders = orders
    BY <1>1
<1>2. ASSUME NEW v, \A i \in DOMAIN wires : v[i] \in Verdicts(wires[i]),
             reply.orders = Joined(PlacedOrders(t, wires, v))
      PROVE  RightOrders(reply.orders, task)
    <2> DEFINE placed == PlacedOrders(t, wires, v)
    <2>1. ASSUME NEW id \in DOMAIN placed
          PROVE  /\ DOMAIN placed[id] = OrderKeys
                 /\ <<placed[id].market, placed[id].outcome>> =
                        Addressed[task[id[1]].call.args[id[2]].token]
        <3>1. PICK i \in DOMAIN wires : v[i] # "refused" /\ id = <<t, i>>
            BY DEF PlacedOrders
        <3>2. wires[i].market \in DOMAIN MarketOf
            BY <1>2, <3>1 DEF Verdicts
        <3>3. /\ DOMAIN placed[id] = OrderKeys
              /\ placed[id].market = MarketOf[wires[i].market]
              /\ placed[id].outcome = Upper(wires[i].outcome)
            BY <3>1 DEF PlacedOrders, OrderKeys
        <3>4. i \in 1..Len(task[t].built)
            <4>1. PICK S : task[t].built \in Seq(S)
                BY DEF RightTask, RightBuilt
            <4>2. QED
                BY <4>1
        <3>5. Leads(task[t].call.args[i].token, <<wires[i].market, wires[i].outcome>>)
            BY <3>4 DEF RightTask, RightBuilt, RightWire
        <3>6. QED
            BY <3>1, <3>2, <3>3, <3>5 DEF Leads
    <2>2. reply.orders = Joined(placed)
        BY <1>2
    <2>3. QED
        <3> HIDE DEF placed
        <3>1. QED
            BY <2>1, <2>2 DEF RightOrders, Joined
<1>3. QED
    BY <1>1, <1>2, ServedPlaces

LEMMA CancelledRight ==
    ASSUME RightOrders(orders, task), NEW t, NEW ids
    PROVE  RightOrders(Cancelled(t, ids), task)
BY DEF RightOrders, Cancelled, OrderKeys

LEMMA DeletedRight ==
    ASSUME RightOrders(orders, task), NEW t, NEW id, NEW reply \in Delete(t, id)
    PROVE  RightOrders(reply.orders, task)
<1>1. reply.orders = orders \/ reply.orders = Cancelled(t, {id})
    BY DEF Delete, NoReply
<1>2. QED
    BY <1>1, CancelledRight

LEMMA SweptRight ==
    ASSUME RightOrders(orders, task), NEW t, NEW ids, NEW reply \in Sweep(t, ids)
    PROVE  RightOrders(reply.orders, task)
<1>1. reply.orders = orders \/ reply.orders = Cancelled(t, ids)
    <2>1. \/ reply = [NoReply EXCEPT !.orders = orders]
          \/ \E ok, listed :
               reply = [NoReply EXCEPT !.orders = Cancelled(t, ids), !.ok = ok,
                                       !.lost = ~ok, !.ids = listed]
        BY DEF Sweep
    <2>2. QED
        BY <2>1 DEF NoReply
<1>2. QED
    BY <1>1, CancelledRight
-----------------------------------------------------------------------------
(* The steps. *)

(* A step of one task that keeps it right, and what it touches. *)
LEMMA TaskStep ==
    ASSUME Inv, NEW t \in Tasks, NEW j, RightTask(j), j.call = task[t].call,
           task' = [task EXCEPT ![t] = j],
           RightCache(coordinates'), RightOrders(orders', task)
    PROVE  Inv'
<1>1. /\ task' = [u \in Tasks |-> task'[u]] /\ task'[t] = j
      /\ \A u \in Tasks \ {t} : task'[u] = task[u]
    BY DEF Inv
<1>2. \A u \in Tasks : RightTask(task'[u]) /\ task'[u].call = task[u].call
    BY <1>1 DEF Inv
<1>3. RightOrders(orders', task')
    BY <1>2 DEF RightOrders
<1>4. QED
    BY <1>1, <1>2, <1>3 DEF Inv

LEMMA InitRight == Init => Inv
<1> SUFFICES ASSUME Init PROVE Inv
    OBVIOUS
<1>1. PICK plan \in Plans[client] :
         task = [t \in Tasks |->
                   [phase |-> "idle", call |-> plan[t], built |-> <<>>,
                    pair |-> NoPair, tried |-> 0, reply |-> NoReply,
                    told |-> Untold, lost |-> FALSE, existing |-> {},
                    filled |-> {}]]
    BY DEF Init
<1>2. task = [t \in Tasks |-> task[t]]
    BY <1>1
<1>3. ASSUME NEW t \in Tasks PROVE RightTask(task[t])
    <2>1. /\ DOMAIN task[t] = TaskKeys /\ task[t].call = plan[t]
          /\ task[t].built = <<>> /\ task[t].phase = "idle"
        BY <1>1 DEF TaskKeys
    <2>2. plan[t] \in PlannedCalls
        BY <1>1 DEF Init, PlannedCalls, CallsOf
    <2>3. task[t].built \in Seq({}) /\ Len(task[t].built) = 0
        BY <2>1
    <2>4. task[t].call.op = "post" => RightBuilt(task[t])
        BY <2>1, <2>2, <2>3, PostHasOrders DEF RightBuilt
    <2>5. QED
        BY <2>1, <2>2, <2>4 DEF RightTask
<1>4. RightCache(coordinates) /\ RightOrders(orders, task)
    <2>1. \A id \in DOMAIN Resting : id[1] \notin Tasks /\ DOMAIN Resting[id] = OrderKeys
        BY TradingAssumption
    <2>2. RightCache(<<>>)
        BY DEF RightCache
    <2>3. RightOrders(Resting, task)
        BY <2>1 DEF RightOrders
    <2>4. QED
        BY <2>2, <2>3 DEF Init
<1>5. QED
    BY <1>2, <1>3, <1>4 DEF Inv

LEMMA BeginRight ==
    ASSUME Inv, NEW t \in Tasks, Begin(t)
    PROVE  Inv'
<1> DEFINE j == [task[t] EXCEPT !.existing = DOMAIN orders, !.filled = Bought,
                   !.phase = IF Op(t) \in {"cancel", "cancelAll"}
                             THEN "ready" ELSE "resolving"]
<1>1. task' = [task EXCEPT ![t] = j] /\ UNCHANGED <<coordinates, orders>>
    BY DEF Begin
<1>2. RightTask(task[t]) /\ task[t].phase \in Building
    BY DEF Inv, Begin, Building
<1>3. DOMAIN j = DOMAIN task[t] /\ j.call = task[t].call /\ j.built = task[t].built
    BY <1>2 DEF RightTask, TaskKeys
<1>4. RightTask(j)
    <2>1. j.phase # "asking"
        BY <1>2 DEF RightTask, TaskKeys
    <2>2. QED
        <3> HIDE DEF j
        <3>1. QED
            BY <1>2, <1>3, <2>1, MovesOn
<1>5. QED
    <2> HIDE DEF j
    <2>1. QED
        BY <1>1, <1>3, <1>4, TaskStep DEF Inv

(* A call that ends, with whatever it tells. *)
LEMMA Returns ==
    ASSUME NEW k, RightTask(k), NEW told, NEW lost
    PROVE  /\ RightTask(Returned(k, told)) /\ Returned(k, told).call = k.call
           /\ LET j == [Returned(k, told) EXCEPT !.lost = lost]
              IN  RightTask(j) /\ j.call = k.call
           /\ RightTask(Raised(k, told)) /\ Raised(k, told).call = k.call
<1>1. DOMAIN k = TaskKeys
    BY DEF RightTask
<1>2. \A x : LET j == Returned(k, x)
             IN  /\ DOMAIN j = DOMAIN k /\ j.call = k.call /\ j.built = k.built
                 /\ j.phase = "done"
    BY <1>1 DEF Returned, TaskKeys
<1>3. \A x : RightTask(Returned(k, x)) /\ Returned(k, x).call = k.call
    BY <1>2, MovesOn DEF Building
<1>4. LET j == [Returned(k, told) EXCEPT !.lost = lost]
      IN  /\ DOMAIN j = DOMAIN k /\ j.call = k.call /\ j.built = k.built
          /\ j.phase = "done"
    BY <1>1, <1>2 DEF TaskKeys
<1>5. LET j == [Returned(k, told) EXCEPT !.lost = lost]
      IN  RightTask(j) /\ j.call = k.call
    BY <1>4, MovesOn DEF Building
<1>6. QED
    BY <1>3, <1>5 DEF Raised

LEMMA TalliesRight ==
    ASSUME NEW k, RightTask(k), NEW ok, NEW lost
    PROVE  /\ RightTask(Tallied(k, ok)) /\ Tallied(k, ok).call = k.call
           /\ LET j == [Tallied(k, ok) EXCEPT !.lost = lost]
              IN  RightTask(j) /\ j.call = k.call
<1> DEFINE told == IF ok THEN [k.told EXCEPT !.canceled = @ \cup {NextId(k)}]
                   ELSE [k.told EXCEPT !.missed = @ \cup {NextId(k)}]
           next == [k EXCEPT !.tried = @ + 1, !.phase = "ready", !.told = told]
<1>1. /\ DOMAIN next = DOMAIN k /\ next.call = k.call /\ next.built = k.built
      /\ next.phase = "ready"
    <2> HIDE DEF told
    <2>1. QED
        BY DEF RightTask, TaskKeys
<1>2. RightTask(next)
    <2> HIDE DEF next
    <2>1. QED
        BY <1>1, MovesOn DEF Building
<1>3. \/ Tallied(k, ok) = next
      \/ \E x : Tallied(k, ok) = Returned(next, x)
    BY DEF Tallied
<1>4. CASE Tallied(k, ok) = next
    <2>1. DOMAIN next = TaskKeys
        BY <1>2 DEF RightTask
    <2>2. LET j == [next EXCEPT !.lost = lost]
          IN  /\ DOMAIN j = DOMAIN next /\ j.call = next.call /\ j.built = next.built
              /\ j.phase = next.phase
        <3> HIDE DEF next
        <3>1. QED
            BY <2>1 DEF TaskKeys
    <2>3. LET j == [next EXCEPT !.lost = lost]
          IN  RightTask(j) /\ j.call = next.call
        <3> HIDE DEF next
        <3>1. QED
            BY <1>1, <1>2, <2>2, MovesOn DEF Building
    <2>4. QED
        <3> HIDE DEF next
        <3>1. QED
            BY <1>1, <1>2, <1>4, <2>3
<1>5. CASE \E x : Tallied(k, ok) = Returned(next, x)
    <2> HIDE DEF next
    <2>1. QED
        BY <1>1, <1>2, <1>5, Returns
<1>6. QED
    BY <1>3, <1>4, <1>5

(* Who is resolving moves on to what its token leads to, or gives up. *)
LEMMA ResolvesRight ==
    ASSUME Inv, NEW t \in Tasks, task[t].phase \in Building, UNCHANGED orders,
           \/ /\ \E pair : /\ task[t].call.op = "post" => Leads(Asked(task[t]), pair)
                           /\ task' = [task EXCEPT ![t] = Proceed(task[t], pair)]
              /\ RightCache(coordinates')
           \/ /\ \E error : task' = [task EXCEPT ![t] = Raised(task[t], error)]
              /\ UNCHANGED coordinates
    PROVE  Inv'
<1>1. RightTask(task[t]) /\ RightCache(coordinates) /\ RightOrders(orders, task)
    BY DEF Inv
<1>2. ASSUME NEW pair, task[t].call.op = "post" => Leads(Asked(task[t]), pair),
             task' = [task EXCEPT ![t] = Proceed(task[t], pair)],
             RightCache(coordinates')
      PROVE  Inv'
    BY <1>1, <1>2, ProceedsRight, TaskStep
<1>3. ASSUME NEW error, task' = [task EXCEPT ![t] = Raised(task[t], error)],
             UNCHANGED coordinates
      PROVE  Inv'
    BY <1>1, <1>3, Returns, TaskStep
<1>4. QED
    BY <1>2, <1>3

LEMMA ScopedIsNoPost == \A k : ScopedByMarket(k) => k.call.op # "post"
BY DEF ScopedByMarket

LEMMA SecureResolveRight ==
    ASSUME Inv, NEW t \in Tasks, SecureResolve(t)
    PROVE  Inv'
<1> DEFINE k == task[t]
           token == Asked(k)
<1>1. /\ k.phase \in Building /\ RightTask(k) /\ RightCache(coordinates)
      /\ UNCHANGED orders
    BY DEF Inv, SecureResolve, Is, Building
<1>2. token \in PlannedTokens
    BY <1>1, AskedIsPlanned
<1>3. CASE ScopedByMarket(k) /\ task' = [task EXCEPT ![t] = Proceed(k, <<k.call.market, "">>)]
           /\ UNCHANGED coordinates
    BY <1>1, <1>3, ScopedIsNoPost, ResolvesRight
<1>4. ASSUME NEW r \in ResolveCoordinates(token), coordinates' = r.cache,
             task' = [task EXCEPT ![t] = Proceed(k, r.pair)]
      PROVE  Inv'
    BY <1>1, <1>2, <1>4, ResolutionLeads, ResolvesRight
<1>5. ASSUME NEW error, task' = [task EXCEPT ![t] = Raised(k, error)],
             UNCHANGED coordinates
      PROVE  Inv'
    BY <1>1, <1>5, ResolvesRight
<1>6. QED
    BY <1>3, <1>4, <1>5 DEF SecureResolve

LEMMA ClobResolveRight ==
    ASSUME Inv, NEW t \in Tasks, ClobResolve(t)
    PROVE  Inv'
<1> DEFINE k == task[t]
           token == Asked(k)
<1>1. /\ k.phase \in Building /\ RightTask(k) /\ RightCache(coordinates)
      /\ UNCHANGED orders
    BY DEF Inv, ClobResolve, Is, Building
<1>2. token \in PlannedTokens
    BY <1>1, AskedIsPlanned
<1>3. CASE ScopedByMarket(k) /\ task' = [task EXCEPT ![t] = Proceed(k, <<k.call.market, "">>)]
           /\ UNCHANGED coordinates
    BY <1>1, <1>3, ScopedIsNoPost, ResolvesRight
<1>4. ASSUME NEW r \in ResolveToken(token), coordinates' = r.cache,
             task' = [task EXCEPT ![t] = Proceed(k, r.pair)]
      PROVE  Inv'
    BY <1>1, <1>2, <1>4, ClobResolutionLeads, ResolvesRight
<1>5. ASSUME NEW error, task' = [task EXCEPT ![t] = Raised(k, error)],
             UNCHANGED coordinates
      PROVE  Inv'
    BY <1>1, <1>5, ResolvesRight
<1>6. QED
    BY <1>3, <1>4, <1>5 DEF ClobResolve

LEMMA AsyncResolveRight ==
    ASSUME Inv, NEW t \in Tasks, AsyncResolve(t)
    PROVE  Inv'
<1> DEFINE k == task[t]
           token == Asked(k)
           asking == [k EXCEPT !.phase = "asking"]
<1>1. /\ k.phase \in Building /\ RightTask(k) /\ RightCache(coordinates)
      /\ UNCHANGED <<orders, coordinates>> /\ RightOrders(orders, task)
    BY DEF Inv, AsyncResolve, Is, Building
<1>2. token \in PlannedTokens
    BY <1>1, AskedIsPlanned
<1>3. CASE ScopedByMarket(k) /\ task' = [task EXCEPT ![t] = Proceed(k, <<k.call.market, "">>)]
    BY <1>1, <1>3, ScopedIsNoPost, ResolvesRight
<1>4. CASE task' = [task EXCEPT ![t] = Raised(k, "input")]
    BY <1>1, <1>4, ResolvesRight
<1>5. CASE LookedUp(token) /\ task' = [task EXCEPT ![t] = asking]
    <2>1. DOMAIN asking = DOMAIN k /\ asking.call = k.call /\ asking.built = k.built
        BY <1>1 DEF RightTask, TaskKeys
    <2>2. RightTask(asking)
        <3> HIDE DEF asking
        <3>1. QED
            BY <1>1, <1>5, <2>1, MovesOn DEF LookedUp
    <2>3. QED
        <3> HIDE DEF asking
        <3>1. QED
            BY <1>1, <1>5, <2>1, <2>2, TaskStep
<1>6. CASE token \in DOMAIN coordinates
           /\ task' = [task EXCEPT ![t] = Proceed(k, coordinates[token])]
    BY <1>1, <1>6, ResolvesRight DEF RightCache
<1>7. CASE ~LookedUp(token) /\ token \notin DOMAIN coordinates
           /\ task' = [task EXCEPT ![t] = Proceed(k, SplitToken(token))]
    BY <1>1, <1>2, <1>7, SplitLeads, ResolvesRight DEF LookedUp
<1>8. QED
    BY <1>3, <1>4, <1>5, <1>6, <1>7 DEF AsyncResolve

(* Whoever else has asked meanwhile, what this answer says is right. *)
LEMMA AsyncResolvedRight ==
    ASSUME Inv, NEW t \in Tasks, AsyncResolved(t)
    PROVE  Inv'
<1> DEFINE k == task[t]
           token == Asked(k)
<1>1. /\ k.phase \in Building /\ RightTask(k) /\ RightCache(coordinates)
      /\ UNCHANGED orders
    BY DEF Inv, AsyncResolved, Is, Building
<1>2. token \in PlannedTokens /\ NeedsReverseResolution(token)
    BY <1>1, AskedIsPlanned DEF RightTask, AsyncResolved, Is
<1>3. ASSUME NEW answer \in Answers[token],
             coordinates' = Remembered(token, FromPayload(token, answer)),
             task' = [task EXCEPT ![t] = Proceed(k, FromPayload(token, answer))]
      PROVE  Inv'
    BY <1>1, <1>2, <1>3, PayloadLeads, RememberedLeads, ResolvesRight
<1>4. ASSUME NEW error, task' = [task EXCEPT ![t] = Raised(k, error)],
             UNCHANGED coordinates
      PROVE  Inv'
    BY <1>1, <1>4, ResolvesRight
<1>5. QED
    BY <1>3, <1>4 DEF AsyncResolved

(* A step of a task whose orders are built. *)
LEMMA SentRight ==
    ASSUME Inv, NEW t \in Tasks, NEW reply, RightOrders(reply.orders, task), Sent(t, reply)
    PROVE  Inv'
<1> DEFINE j == [task[t] EXCEPT !.phase = "waiting", !.lost = task[t].lost \/ reply.lost,
                   !.reply = [reply EXCEPT !.orders = <<>>]]
<1>1. task' = [task EXCEPT ![t] = j] /\ orders' = reply.orders /\ UNCHANGED coordinates
    BY Zenon DEF Sent
<1>2. RightTask(task[t]) /\ DOMAIN task[t] = TaskKeys
    BY DEF Inv, RightTask
<1>3. /\ DOMAIN j = DOMAIN task[t] /\ j.call = task[t].call /\ j.built = task[t].built
      /\ j.phase = "waiting"
    BY <1>2 DEF TaskKeys
<1> HIDE DEF j
<1>4. RightTask(j)
    BY <1>2, <1>3, MovesOn DEF Building
<1>5. QED
    BY <1>1, <1>3, <1>4, TaskStep DEF Inv

LEMMA PostsRight ==
    ASSUME Inv, NEW t \in Tasks, SecurePost(t) \/ ClobPost(t) \/ AsyncPost(t) \/ AsyncPosted(t)
    PROVE  Inv'
<1> DEFINE k == task[t]
<1>1. /\ RightTask(k) /\ RightCache(coordinates) /\ RightOrders(orders, task)
      /\ k.call.op = "post"
    BY DEF Inv, SecurePost, ClobPost, AsyncPost, AsyncPosted, Op
<1>2. CASE SecurePost(t)
    <2>1. PICK reply \in Serve(t, k.built) :
            /\ orders' = reply.orders /\ UNCHANGED coordinates
            /\ task' = [task EXCEPT ![t] = [Returned(k, Adapted(reply)) EXCEPT
                                             !.lost = reply.lost]]
        BY <1>2 DEF SecurePost
    <2>2. RightOrders(orders', task)
        BY <1>1, <2>1, PlacedRight
    <2>3. QED
        BY <1>1, <2>1, <2>2, Returns, TaskStep
<1>3. CASE ClobPost(t)
    <2> DEFINE wires == [i \in DOMAIN k.built |->
                           IF k.call.batch
                           THEN BatchEntry(k.built[i], k.call.asked, k.call.postOnly)
                           ELSE Submit(k.built[i], k.call.asked, k.call.postOnly)]
    <2>1. PICK reply \in Serve(t, wires) :
            /\ orders' = reply.orders /\ UNCHANGED coordinates
            /\ \E told : task' = [task EXCEPT ![t] = [Returned(k, told) EXCEPT
                                                        !.lost = reply.lost]]
        BY <1>3 DEF ClobPost
    <2>2. \A i \in DOMAIN wires : /\ wires[i].market = k.built[i].market
                                 /\ wires[i].outcome = k.built[i].outcome
        <3>1. TAKE i \in DOMAIN wires
        <3>2. DOMAIN k.built[i] = WireKeys
            <4>1. PICK S : k.built \in Seq(S)
                BY <1>1 DEF RightTask, RightBuilt
            <4>2. i \in 1..Len(k.built)
                BY <4>1
            <4>3. QED
                BY <1>1, <4>2 DEF RightTask, RightBuilt, RightWire
        <3>3. QED
            BY <3>2, PostedForPair
    <2>3. RightOrders(orders', task)
        <3>1. DOMAIN wires = DOMAIN k.built
            OBVIOUS
        <3>2. QED
            <4> HIDE DEF wires
            <4>1. QED
                BY <1>1, <2>1, <2>2, <3>1, PlacedRight
    <2>4. PICK told : task' = [task EXCEPT ![t] = [Returned(k, told) EXCEPT
                                                   !.lost = reply.lost]]
        BY <2>1
    <2>5. QED
        <3> HIDE DEF wires
        <3>1. QED
            BY <1>1, <2>1, <2>3, <2>4, Returns, TaskStep
<1>4. CASE AsyncPost(t)
    <2>1. PICK reply \in Serve(t, k.built) : Sent(t, reply)
        BY <1>4 DEF AsyncPost
    <2>2. RightOrders(reply.orders, task)
        BY <1>1, PlacedRight
    <2>3. QED
        BY <2>1, <2>2, SentRight
<1>5. CASE AsyncPosted(t)
    <2>1. \E told : task' = [task EXCEPT ![t] = Returned(k, told)]
        BY <1>5 DEF AsyncPosted
    <2>2. QED
        BY <1>1, <1>5, <2>1, Returns, TaskStep DEF AsyncPosted
<1>6. QED
    BY <1>2, <1>3, <1>4, <1>5

LEMMA CancelsRight ==
    ASSUME Inv, NEW t \in Tasks,
           SecureCancel(t) \/ ClobCancel(t) \/ AsyncCancel(t) \/ AsyncCanceled(t)
    PROVE  Inv'
<1> DEFINE k == task[t]
<1>1. RightTask(k) /\ RightCache(coordinates) /\ RightOrders(orders, task)
    BY DEF Inv
<1>2. ASSUME NEW reply \in Delete(t, NextId(k)), orders' = reply.orders,
             UNCHANGED coordinates,
             task' = [task EXCEPT ![t] = [Tallied(k, reply.ok) EXCEPT
                                            !.lost = task[t].lost \/ reply.lost]]
      PROVE  Inv'
    <2>1. RightOrders(orders', task)
        BY <1>1, <1>2, DeletedRight
    <2>2. \E lost : task' = [task EXCEPT ![t] = [Tallied(k, reply.ok) EXCEPT !.lost = lost]]
        BY <1>2
    <2>3. QED
        BY <1>1, <1>2, <2>1, <2>2, TalliesRight, TaskStep
<1>3. ASSUME NEW told, task' = [task EXCEPT ![t] = Returned(k, told)],
             UNCHANGED <<orders, coordinates>>
      PROVE  Inv'
    BY <1>1, <1>3, Returns, TaskStep
<1>4. ASSUME NEW reply \in Delete(t, NextId(k)), Sent(t, reply)
      PROVE  Inv'
    BY <1>1, <1>4, DeletedRight, SentRight
<1>5. ASSUME NEW ok, task' = [task EXCEPT ![t] = Tallied(k, ok)],
             UNCHANGED <<orders, coordinates>>
      PROVE  Inv'
    BY <1>1, <1>5, TalliesRight, TaskStep
<1>6. CASE SecureCancel(t)
    <2>1. CASE BadIds(k)
        BY <1>3, <1>6, <2>1, Zenon DEF SecureCancel, Raised
    <2>2. CASE ~BadIds(k)
        BY <1>2, <1>6, <2>2, Zenon DEF SecureCancel
    <2>3. QED
        BY <2>1, <2>2
<1>7. CASE ClobCancel(t)
    <2>1. CASE k.call.ids = <<>>
        BY <1>3, <1>7, <2>1, Zenon DEF ClobCancel
    <2>2. CASE k.call.ids # <<>>
        BY <1>2, <1>7, <2>2, Zenon DEF ClobCancel
    <2>3. QED
        BY <2>1, <2>2
<1>8. CASE AsyncCancel(t)
    BY <1>3, <1>4, <1>8 DEF AsyncCancel, Raised
<1>9. CASE AsyncCanceled(t)
    BY <1>5, <1>9 DEF AsyncCanceled
<1>10. QED
    BY <1>6, <1>7, <1>8, <1>9

LEMMA SweepsRight ==
    ASSUME Inv, NEW t \in Tasks,
           SecureSweep(t) \/ ClobSweep(t) \/ AsyncSweep(t) \/ AsyncSwept(t)
    PROVE  Inv'
<1> DEFINE k == task[t]
<1>1. RightTask(k) /\ RightCache(coordinates) /\ RightOrders(orders, task)
    BY DEF Inv
<1>2. ASSUME NEW reply \in Sweep(t, Scope(k)), orders' = reply.orders,
             UNCHANGED coordinates, NEW told,
             task' = [task EXCEPT ![t] = [Returned(k, told) EXCEPT !.lost = reply.lost]]
      PROVE  Inv'
    <2>1. RightOrders(orders', task)
        BY <1>1, <1>2, SweptRight
    <2>2. QED
        BY <1>1, <1>2, <2>1, Returns, TaskStep
<1>3. ASSUME NEW told, task' = [task EXCEPT ![t] = Returned(k, told)],
             UNCHANGED <<orders, coordinates>>
      PROVE  Inv'
    BY <1>1, <1>3, Returns, TaskStep
<1>4. ASSUME NEW reply \in Sweep(t, Scope(k)), Sent(t, reply)
      PROVE  Inv'
    BY <1>1, <1>4, SweptRight, SentRight
<1>5. QED
    BY <1>2, <1>3, <1>4 DEF SecureSweep, ClobSweep, AsyncSweep, AsyncSwept

LEMMA BalancesRight ==
    ASSUME Inv, NEW t \in Tasks, SecureBalance(t) \/ AsyncBalance(t)
    PROVE  Inv'
<1>1. /\ UNCHANGED <<orders, coordinates>>
      /\ \E told : task' = [task EXCEPT ![t] = Returned(task[t], told)]
    BY DEF SecureBalance, AsyncBalance, ReadBalance, Raised
<1>2. PICK told : task' = [task EXCEPT ![t] = Returned(task[t], told)]
    BY <1>1
<1>3. RightTask(Returned(task[t], told)) /\ Returned(task[t], told).call = task[t].call
    BY Returns DEF Inv
<1>4. QED
    BY <1>1, <1>2, <1>3, TaskStep DEF Inv

LEMMA NextRight ==
    ASSUME Inv, [Next]_vars
    PROVE  Inv'
<1>1. ASSUME NEW t \in Tasks, Step(t) PROVE Inv'
    BY <1>1, SecureResolveRight, ClobResolveRight, AsyncResolveRight, AsyncResolvedRight,
        PostsRight, CancelsRight, SweepsRight, BalancesRight DEF Step
<1>2. CASE ServerFills
    <2>1. RightOrders(orders', task) /\ UNCHANGED <<coordinates, task>>
        <3>1. PICK id \in DOMAIN orders : orders' = [orders EXCEPT ![id].status = "filled"]
            BY <1>2 DEF ServerFills, Open
        <3>2. \A i \in DOMAIN orders :
                /\ DOMAIN orders'[i] = DOMAIN orders[i]
                /\ orders'[i].market = orders[i].market
                /\ orders'[i].outcome = orders[i].outcome
            BY <3>1 DEF Inv, RightOrders, OrderKeys
        <3>3. DOMAIN orders' = DOMAIN orders /\ UNCHANGED <<coordinates, task>>
            BY <1>2, <3>1 DEF ServerFills
        <3>4. QED
            BY <3>2, <3>3 DEF Inv, RightOrders
    <2>2. QED
        BY <2>1 DEF Inv, RightCache
<1>3. CASE UNCHANGED vars
    BY <1>3 DEF vars, Inv, RightCache, RightOrders
<1>4. QED
    BY <1>1, <1>2, <1>3, BeginRight DEF Next, Done

THEOREM TradingTheorem == Spec => []Inv
<1>1. Inv /\ [Next]_vars => Inv'
    BY NextRight
<1>2. QED
    BY <1>1, InitRight, PTL DEF Spec

(* Whatever form a token has, however its lookup is answered, whoever else    *)
(* asks, alone or in a batch: an order is on the market and the outcome the   *)
(* bot's token stands for.                                                   *)
THEOREM OrdersLand == Spec => []OrdersLandWhereAddressed
<1>1. Inv => OrdersLandWhereAddressed
    BY DEF Inv, RightOrders, OrdersLandWhereAddressed, Own, ArgsOf
<1>2. QED
    BY <1>1, TradingTheorem, PTL
-----------------------------------------------------------------------------
(* What a call has come to.  The invariant of the rest of the properties: for *)
(* each task, what it has at the server, what it has heard and what it has    *)
(* told.  c is the client, k the task t, o the server's orders.              *)

LEMMA IdsAreListed ==
    ASSUME NEW call \in PlannedCalls
    PROVE  /\ Len(call.ids) \in Nat /\ DOMAIN call.ids = 1..Len(call.ids)
           /\ call.ids # <<>> => Len(call.ids) > 0
<1> DEFINE S == ToSet(call.ids)
<1>1. call.ids \in Seq(S)
    BY CallsAssumption
<1> HIDE DEF S
<1>2. QED
    BY <1>1

(* An order as it is built, and as it is posted. *)
OrderOf(c, a, pair) == IF c = "clob" THEN ClobOrder(a, pair) ELSE Body(a, pair)

WireOf(c, call, a, pair) ==
    IF c = "clob" THEN Submit(ClobOrder(a, pair), call.asked, call.postOnly)
    ELSE Body(a, pair)

Checked(c, a) == c # "clob" => Valid(a)

PairOf(wire) == <<wire.market, wire.outcome>>

(* What is kept of a lookup is one of the pairs its token may lead to.        *)
CacheIsOfLookups(cache) ==
    \A token \in DOMAIN cache :
        /\ token \in ClobTokens /\ NeedsReverseResolution(token)
        /\ cache[token] \in Pairs(token)

OrdersAreKept(o) ==
    /\ IsFiniteSet(DOMAIN o)
    /\ \A id \in DOMAIN o : /\ DOMAIN o[id] = OrderKeys
                          /\ o[id].status \in {"open", "filled", "cancelled"}

BoughtIn(o) == {id \in DOMAIN o : o[id].status = "filled" /\ o[id].wire.side = "BUY"}

ToldKeys == {"kind", "rows", "canceled", "missed", "shares"}
Phases == {"idle", "resolving", "asking", "ready", "waiting", "done"}
Kinds == {"none", "rows", "raw", "error", "input", "tally", "swept", "balance"}

(* The call is one of the client in use, and tells what it has to at its end. *)
CallGoes(c, k, o) ==
    /\ c \in Clients /\ k.call \in CallsOf(c)
    /\ k.phase \in Phases /\ k.tried \in Nat
    /\ DOMAIN k.told = ToldKeys /\ k.told.kind \in Kinds
    /\ k.phase = "idle" => k.tried = 0
    /\ k.phase # "done" => k.told.kind = "none"
    /\ k.phase = "done" => k.told.kind # "none"
    /\ k.told.kind = "tally" => k.call.op = "cancel"
    /\ k.told.kind = "balance" => k.call.op = "balance"
    /\ k.call.op # "cancel" => k.told.missed = {}
    /\ k.call.op \notin {"cancel", "cancelMarket", "cancelAll"} => k.told.canceled = {}
    /\ k.phase # "idle" =>
          /\ k.existing \subseteq DOMAIN o /\ k.filled \subseteq BoughtIn(o)
          /\ ToSet(k.call.ids) \subseteq DOMAIN o \cup {NoId}

(* Each order is built as it was asked for, once it has been checked. *)
BuiltAsAsked(c, k) ==
    k.call.op = "post" =>
        /\ k.phase = "ready" => Len(k.built) = Len(k.call.args)
        /\ \A i \in 1..Len(k.built) :
             /\ k.built[i] = OrderOf(c, k.call.args[i], PairOf(k.built[i]))
             /\ Checked(c, k.call.args[i])

(* A task has orders at the server only once its post is sent, as asked.      *)
HasPosted(c, t, k, o) ==
    \A id \in DOMAIN o :
        id[1] = t =>
            /\ k.call.op = "post" /\ k.phase \in {"waiting", "done"}
            /\ k.told.kind # "input"
            /\ id[2] \in 1..Len(k.call.args)
            /\ o[id].wire = WireOf(c, k.call, k.call.args[id[2]], PairOf(o[id].wire))
            /\ Checked(c, k.call.args[id[2]])

(* Nor has it cancelled any before. *)
HasActed(c, t, k, o) ==
    \A id \in DOMAIN o :
        o[id].by = t =>
            /\ k.told.kind # "input"
            /\ k.phase \in {"waiting", "done"} \/ (k.phase = "ready" /\ k.call.op = "cancel")
            /\ k.call.op = "cancel" => c = "clob" \/ ~BadIds(k)

(* The rows of an answer are those of the orders, each placed or not. *)
RowsFit(t, rows, o) ==
    \A i \in DOMAIN rows :
        /\ Accepted(rows[i]) <=> <<t, i>> \in DOMAIN o
        /\ Accepted(rows[i]) => rows[i].id = <<t, i>>

ToldRowsFit(t, rows, o) ==
    \A i \in DOMAIN rows :
        /\ rows[i].ok <=> <<t, i>> \in DOMAIN o
        /\ rows[i].ok => rows[i].id = <<t, i>>

Counts(rows, n) == Len(rows) = n /\ DOMAIN rows = 1..n
Rows(k, rows) == Counts(rows, Len(k.call.args))

RowsAreTrue(t, k, o) ==
    /\ k.phase = "waiting" /\ k.call.op = "post" /\ k.reply.ok =>
          Rows(k, k.reply.rows) /\ RowsFit(t, k.reply.rows, o)
    /\ k.told.kind = "rows" =>
          Rows(k, k.told.rows) /\ ToldRowsFit(t, k.told.rows, o)

Gone(ids, o) == \A id \in ids : id \in DOMAIN o /\ o[id].status = "cancelled"

(* The tally holds the ids that were tried; this call cancelled no others,    *)
(* unless it has lost an answer.                                             *)
Tallies(t, k, o) ==
    k.call.op = "cancel" =>
        /\ k.phase \in {"idle", "ready", "waiting", "done"}
        /\ k.call.ids = <<>> => k.tried = 0
        /\ k.phase # "done" /\ k.call.ids # <<>> => k.tried < Len(k.call.ids)
        /\ k.phase = "waiting" => ~BadIds(k)
        /\ k.told.kind \in {"none", "tally", "input"}
        /\ k.told.kind # "input" =>
             k.told.canceled \cup k.told.missed = {k.call.ids[j] : j \in 1..k.tried}
        /\ k.told.kind = "tally" => k.tried = Len(k.call.ids)
        /\ k.told.kind = "input" => k.told.canceled = {} /\ k.told.missed = {}
        /\ Gone(k.told.canceled, o)
        /\ k.phase = "waiting" /\ k.reply.ok => Gone({NextId(k)}, o)
        /\ ~k.lost =>
             \A id \in DOMAIN o :
                o[id].by = t =>
                    \/ id \in k.told.canceled
                    \/ k.phase = "waiting" /\ k.reply.ok /\ id = NextId(k)

MeantMarket(call) ==
    IF ~IsEmpty(call.market) THEN MarketOf[call.market] ELSE Addressed[call.token][1]

(* A sweep leaves none open of those that were there, and no other market's   *)
(* orders are touched.                                                       *)
SweepsRightly(t, k, o) ==
    /\ k.call.op \in {"cancelMarket", "cancelAll"} =>
         /\ k.phase # "done" => k.told.canceled = {}
         /\ Gone(k.told.canceled, o)
         /\ k.phase = "waiting" /\ k.reply.ok => Gone(k.reply.ids, o)
    /\ k.call.op = "cancelMarket" =>
         /\ k.phase = "asking" => ~ScopedByMarket(k)
         /\ k.phase \in {"ready", "waiting"} =>
              k.pair[1] \in DOMAIN MarketOf /\ MarketOf[k.pair[1]] = MeantMarket(k.call)
         /\ \A id \in DOMAIN o : o[id].by = t => o[id].market = MeantMarket(k.call)
         /\ (k.phase = "waiting" /\ k.reply.ok) \/ k.told.kind = "swept" =>
              \A id \in k.existing :
                o[id].market = MeantMarket(k.call) => o[id].status # "open"

Mine(ids, token, o) ==
    {id \in ids : <<o[id].market, o[id].outcome>> = Addressed[token]}

(* A balance is read of the pair its token leads to. *)
BalancesRightly(k, o) ==
    k.call.op = "balance" =>
        /\ k.phase = "ready" => <<k.pair[1], Upper(k.pair[2])>> = Addressed[k.call.token]
        /\ k.told.kind = "balance" =>
             /\ k.told.shares \in Nat
             /\ Cardinality(Mine(k.filled, k.call.token, o)) <= k.told.shares
             /\ k.told.shares <= Cardinality(Mine(BoughtIn(o), k.call.token, o))

CallInv(c, t, k, o) ==
    /\ CallGoes(c, k, o) /\ BuiltAsAsked(c, k)
    /\ HasPosted(c, t, k, o) /\ HasActed(c, t, k, o) /\ RowsAreTrue(t, k, o)
    /\ Tallies(t, k, o) /\ SweepsRightly(t, k, o) /\ BalancesRightly(k, o)

CallsInv ==
    /\ client \in Clients
    /\ CacheIsOfLookups(coordinates) /\ OrdersAreKept(orders)
    /\ \A t \in Tasks : CallInv(client, t, task[t], orders)
-----------------------------------------------------------------------------
(* How the server's orders may move while the tasks of a set act: nothing     *)
(* that has come to rest changes, and what is new or cancelled is theirs.    *)
Moves(acting, o, new) ==
    /\ OrdersAreKept(new)
    /\ DOMAIN o \subseteq DOMAIN new
    /\ \A id \in DOMAIN o :
         /\ new[id].market = o[id].market /\ new[id].outcome = o[id].outcome
         /\ new[id].wire = o[id].wire
         /\ o[id].status # "open" => new[id].status = o[id].status
         /\ new[id].by = o[id].by \/ new[id].by \in acting
    /\ \A id \in DOMAIN new \ DOMAIN o : id[1] \in acting /\ new[id].by \in acting

LEMMA BoughtStay ==
    ASSUME NEW acting, NEW o, NEW new, Moves(acting, o, new)
    PROVE  BoughtIn(o) \subseteq BoughtIn(new)
BY DEF Moves, BoughtIn

LEMMA GoneStay ==
    ASSUME NEW acting, NEW o, NEW new, Moves(acting, o, new), NEW ids, Gone(ids, o)
    PROVE  Gone(ids, new)
BY DEF Moves, Gone

LEMMA MineFinite ==
    ASSUME NEW o, OrdersAreKept(o), NEW ids \in SUBSET DOMAIN o, NEW token
    PROVE  /\ IsFiniteSet(Mine(ids, token, o))
           /\ Cardinality(Mine(ids, token, o)) \in Nat
<1>1. Mine(ids, token, o) \subseteq DOMAIN o
    BY DEF Mine
<1>2. QED
    BY <1>1, FS_Subset, FS_CardinalityType DEF OrdersAreKept

LEMMA MineGrow ==
    ASSUME NEW acting, NEW o, NEW new, Moves(acting, o, new), NEW token
    PROVE  Cardinality(Mine(BoughtIn(o), token, o)) <= Cardinality(Mine(BoughtIn(new), token, new))
<1>1. Mine(BoughtIn(o), token, o) \subseteq Mine(BoughtIn(new), token, new)
    BY DEF Moves, Mine, BoughtIn
<1>2. BoughtIn(new) \in SUBSET DOMAIN new
    BY DEF BoughtIn
<1>3. QED
    BY <1>1, <1>2, MineFinite, FS_Subset DEF Moves

(* What the others do leaves a call where it is. *)
LEMMA OthersKeep ==
    ASSUME NEW acting, NEW c, NEW t, t \notin acting, NEW k, NEW o, NEW new,
           CallInv(c, t, k, o), OrdersAreKept(o), Moves(acting, o, new)
    PROVE  CallInv(c, t, k, new)
<1>1. CallGoes(c, k, new) /\ BuiltAsAsked(c, k)
    BY BoughtStay DEF CallInv, CallGoes, Moves
<1>2. HasPosted(c, t, k, new)
    BY DEF CallInv, HasPosted, Moves
<1>3. HasActed(c, t, k, new)
    BY DEF CallInv, HasActed, Moves
<1>4. RowsAreTrue(t, k, new)
    <2>1. \A i : <<t, i>> \in DOMAIN o <=> <<t, i>> \in DOMAIN new
        BY DEF Moves
    <2>2. QED
        BY <2>1 DEF CallInv, RowsAreTrue, RowsFit, ToldRowsFit
<1>5. Tallies(t, k, new)
    <2>1. k.call.op = "cancel" => Gone(k.told.canceled, new)
        BY GoneStay DEF CallInv, Tallies
    <2>2. k.call.op = "cancel" /\ k.phase = "waiting" /\ k.reply.ok => Gone({NextId(k)}, new)
        BY GoneStay DEF CallInv, Tallies
    <2>3. \A id \in DOMAIN new : new[id].by = t => id \in DOMAIN o /\ o[id].by = t
        BY DEF Moves
    <2>4. QED
        BY <2>1, <2>2, <2>3 DEF CallInv, Tallies
<1>6. SweepsRightly(t, k, new)
    <2>1. k.call.op \in {"cancelMarket", "cancelAll"} => Gone(k.told.canceled, new)
        BY GoneStay DEF CallInv, SweepsRightly
    <2>2. k.call.op \in {"cancelMarket", "cancelAll"} /\ k.phase = "waiting" /\ k.reply.ok =>
            Gone(k.reply.ids, new)
        BY GoneStay DEF CallInv, SweepsRightly
    <2>3. \A id \in DOMAIN new : new[id].by = t =>
            id \in DOMAIN o /\ o[id].by = t /\ new[id].market = o[id].market
        BY DEF Moves
    <2>4. k.phase # "idle" => \A id \in k.existing :
            /\ id \in DOMAIN o /\ new[id].market = o[id].market
            /\ o[id].status # "open" => new[id].status # "open"
        BY DEF CallInv, CallGoes, Moves
    <2>5. (k.phase = "waiting" /\ k.reply.ok) \/ k.told.kind = "swept" => k.phase # "idle"
        BY DEF CallInv, CallGoes
    <2>6. QED
        BY <2>1, <2>2, <2>3, <2>4, <2>5 DEF CallInv, SweepsRightly
<1>7. BalancesRightly(k, new)
    <2>1. SUFFICES ASSUME k.call.op = "balance", k.told.kind = "balance"
                   PROVE  /\ k.told.shares \in Nat
                          /\ Cardinality(Mine(k.filled, k.call.token, new)) <= k.told.shares
                          /\ k.told.shares <=
                               Cardinality(Mine(BoughtIn(new), k.call.token, new))
        BY DEF CallInv, BalancesRightly
    <2>2. k.filled \subseteq BoughtIn(o)
        BY <2>1 DEF CallInv, CallGoes
    <2>3. Mine(k.filled, k.call.token, new) = Mine(k.filled, k.call.token, o)
        BY <2>2 DEF Mine, Moves, BoughtIn
    <2>4. /\ k.told.shares \in Nat
          /\ Cardinality(Mine(k.filled, k.call.token, o)) <= k.told.shares
          /\ k.told.shares <= Cardinality(Mine(BoughtIn(o), k.call.token, o))
        BY <2>1 DEF CallInv, BalancesRightly
    <2>5. BoughtIn(o) \in SUBSET DOMAIN o /\ BoughtIn(new) \in SUBSET DOMAIN new
        BY DEF BoughtIn
    <2>6. /\ Cardinality(Mine(BoughtIn(o), k.call.token, o)) \in Nat
          /\ Cardinality(Mine(BoughtIn(new), k.call.token, new)) \in Nat
        BY <2>5, MineFinite DEF Moves
    <2>7. QED
        BY <2>3, <2>4, <2>6, MineGrow
<1>8. QED
    BY <1>1, <1>2, <1>3, <1>4, <1>5, <1>6, <1>7 DEF CallInv
-----------------------------------------------------------------------------
(* A step of a call, by what it leaves of the record of its task. *)

SameCall(j, k) ==
    /\ DOMAIN j = DOMAIN k
    /\ j.call = k.call /\ j.existing = k.existing /\ j.filled = k.filled

(* A call that ends with what it tells, having lost an answer or not. *)
Ends(j, k, told, lost) ==
    /\ SameCall(j, k) /\ j.phase = "done" /\ j.tried = k.tried
    /\ j.built = k.built /\ j.told = told /\ j.lost = lost

LEMMA ReturnedEnds ==
    ASSUME NEW k, DOMAIN k = TaskKeys, NEW told, NEW lost
    PROVE  /\ Ends(Returned(k, told), k, told, k.lost)
           /\ Ends([Returned(k, told) EXCEPT !.lost = lost], k, told, lost)
<1>1. LET j == Returned(k, told)
      IN  /\ DOMAIN j = TaskKeys
          /\ j.call = k.call /\ j.existing = k.existing /\ j.filled = k.filled
          /\ j.phase = "done" /\ j.tried = k.tried /\ j.built = k.built
          /\ j.told = told /\ j.lost = k.lost
    BY DEF Returned, TaskKeys
<1>2. \A j : DOMAIN j = TaskKeys =>
        LET i == [j EXCEPT !.lost = lost]
        IN  /\ DOMAIN i = TaskKeys
            /\ i.call = j.call /\ i.existing = j.existing /\ i.filled = j.filled
            /\ i.phase = j.phase /\ i.tried = j.tried /\ i.built = j.built
            /\ i.told = j.told /\ i.lost = lost
    BY DEF TaskKeys
<1>3. QED
    BY <1>1, <1>2 DEF Ends, SameCall

(* What a task tells, one kind at a time. *)
LEMMA Telling ==
    /\ DOMAIN Untold = ToldKeys /\ Untold.kind = "none"
    /\ Untold.canceled = {} /\ Untold.missed = {}
    /\ \A kind : LET told == [Untold EXCEPT !.kind = kind]
                 IN  /\ DOMAIN told = ToldKeys /\ told.kind = kind
                     /\ told.canceled = {} /\ told.missed = {}
BY DEF Untold, ToldKeys

(* Nothing of a task is at the server before its call is ready. *)
NothingDone(t, o) == \A id \in DOMAIN o : id[1] # t /\ o[id].by # t

LEMMA NothingBefore ==
    ASSUME NEW c, NEW t, NEW k, NEW o, CallInv(c, t, k, o),
           \/ k.phase \in Building
           \/ k.phase = "ready" /\ k.call.op # "cancel"
           \/ k.phase = "ready" /\ c # "clob" /\ BadIds(k)
    PROVE  NothingDone(t, o)
<1>1. k.phase \notin {"waiting", "done"}
    BY DEF Building
<1>2. \A id \in DOMAIN o : id[1] # t
    BY <1>1 DEF CallInv, HasPosted
<1>3. \A id \in DOMAIN o : o[id].by # t
    BY <1>1 DEF CallInv, HasActed, Building
<1>4. QED
    BY <1>2, <1>3 DEF NothingDone

(* A call that gives up: for its arguments or for an error. *)
LEMMA GivesUp ==
    ASSUME NEW c, NEW t, NEW k, NEW o, CallInv(c, t, k, o), NothingDone(t, o),
           NEW error \in {"input", "error"},
           k.phase # "idle", k.call.op = "cancel" => error = "input",
           NEW j, Ends(j, k, [Untold EXCEPT !.kind = error], k.lost)
    PROVE  CallInv(c, t, j, o)
<1>1. /\ j.call = k.call /\ j.existing = k.existing /\ j.filled = k.filled
      /\ j.phase = "done" /\ j.tried = k.tried /\ j.built = k.built
      /\ j.told.kind = error /\ j.told.canceled = {} /\ j.told.missed = {}
      /\ DOMAIN j.told = ToldKeys
    BY Telling DEF Ends, SameCall
<1>2. CallGoes(c, j, o) /\ BuiltAsAsked(c, j)
    BY <1>1 DEF CallInv, CallGoes, BuiltAsAsked, Phases, Kinds
<1>3. HasPosted(c, t, j, o) /\ HasActed(c, t, j, o)
    BY DEF NothingDone, HasPosted, HasActed
<1>4. RowsAreTrue(t, j, o) /\ BalancesRightly(j, o)
    BY <1>1 DEF RowsAreTrue, BalancesRightly
<1>5. Tallies(t, j, o)
    BY <1>1 DEF CallInv, Tallies, Gone, NothingDone
<1>6. SweepsRightly(t, j, o)
    BY <1>1 DEF SweepsRightly, Gone, NothingDone
<1>7. QED
    BY <1>2, <1>3, <1>4, <1>5, <1>6 DEF CallInv

(* A call begins, and remembers what there was. *)
LEMMA Begins ==
    ASSUME NEW c, NEW t, NEW k, NEW o, CallInv(c, t, k, o), k.phase = "idle",
           ToSet(k.call.ids) \subseteq DOMAIN o \cup {NoId},
           NEW j, j.call = k.call, j.told = k.told, j.tried = k.tried,
           j.built = k.built, j.lost = k.lost,
           j.existing = DOMAIN o, j.filled = BoughtIn(o),
           j.phase = IF k.call.op \in {"cancel", "cancelAll"} THEN "ready" ELSE "resolving"
    PROVE  CallInv(c, t, j, o)
<1>1. NothingDone(t, o)
    BY NothingBefore DEF Building
<1>2. CallGoes(c, j, o)
    BY DEF CallInv, CallGoes, Phases
<1>3. BuiltAsAsked(c, j)
    BY DEF CallInv, BuiltAsAsked
<1>4. HasPosted(c, t, j, o) /\ HasActed(c, t, j, o)
    BY <1>1 DEF NothingDone, HasPosted, HasActed
<1>5. RowsAreTrue(t, j, o) /\ BalancesRightly(j, o)
    BY DEF CallInv, CallGoes, RowsAreTrue, BalancesRightly
<1>6. Tallies(t, j, o)
    BY <1>1 DEF CallInv, CallGoes, Tallies, NothingDone
<1>7. SweepsRightly(t, j, o)
    BY <1>1 DEF CallInv, CallGoes, SweepsRightly, NothingDone
<1>8. QED
    BY <1>2, <1>3, <1>4, <1>5, <1>6, <1>7 DEF CallInv
-----------------------------------------------------------------------------
(* Resolving. *)

LEMMA OrderOfPair ==
    ASSUME NEW c, NEW a, NEW pair
    PROVE  OrderOf(c, a, PairOf(OrderOf(c, a, pair))) = OrderOf(c, a, pair)
<1>1. PairOf(OrderOf(c, a, pair)) = <<pair[1], pair[2]>>
    BY BuiltForPair DEF OrderOf, PairOf
<1>2. /\ ClobOrder(a, <<pair[1], pair[2]>>) = ClobOrder(a, pair)
      /\ Body(a, <<pair[1], pair[2]>>) = Body(a, pair)
    BY DEF ClobOrder, ClobLimitOrder, ClobMarketOrder, OrderPayload, Body, LimitBody,
        MarketBody
<1>3. QED
    BY <1>1, <1>2 DEF OrderOf

(* A call that has its market goes on; a post has one more order built.       *)
LEMMA GoesOn ==
    ASSUME NEW c, NEW t, NEW k, NEW o, CallInv(c, t, k, o), k.phase \in Building,
           k.phase # "idle",
           NEW j, SameCall(j, k), j.told = k.told, j.tried = k.tried, j.lost = k.lost,
           j.phase \in {"resolving", "asking", "ready"}, BuiltAsAsked(c, j),
           k.call.op = "cancelMarket" /\ j.phase = "asking" => ~ScopedByMarket(k),
           k.call.op = "cancelMarket" /\ j.phase = "ready" =>
               j.pair[1] \in DOMAIN MarketOf /\ MarketOf[j.pair[1]] = MeantMarket(k.call),
           k.call.op = "balance" /\ j.phase = "ready" =>
               <<j.pair[1], Upper(j.pair[2])>> = Addressed[k.call.token]
    PROVE  CallInv(c, t, j, o)
<1>1. NothingDone(t, o)
    BY NothingBefore
<1>2. CallGoes(c, j, o)
    BY DEF CallInv, CallGoes, Phases, SameCall, Building
<1>4. HasPosted(c, t, j, o) /\ HasActed(c, t, j, o)
    BY <1>1 DEF NothingDone, HasPosted, HasActed
<1>5. RowsAreTrue(t, j, o) /\ BalancesRightly(j, o)
    BY DEF CallInv, CallGoes, RowsAreTrue, BalancesRightly, SameCall, Building
<1>6. Tallies(t, j, o)
    BY DEF CallInv, Tallies, SameCall, Building
<1>7. SweepsRightly(t, j, o)
    BY <1>1 DEF CallInv, CallGoes, SweepsRightly, NothingDone, SameCall, Building,
        ScopedByMarket
<1>8. QED
    BY <1>2, <1>4, <1>5, <1>6, <1>7 DEF CallInv

LEMMA BuiltOneMore ==
    ASSUME NEW c, NEW k, BuiltAsAsked(c, k), RightBuilt(k), k.call.op = "post",
           k.phase \in Building, NEW pair,
           Checked(c, k.call.args[Len(k.built) + 1]),
           NEW j, j.call = k.call,
           j.built = Append(k.built, OrderOf(c, k.call.args[Len(k.built) + 1], pair)),
           j.phase = "ready" => Len(k.built) + 1 = Len(k.call.args)
    PROVE  BuiltAsAsked(c, j)
<1> DEFINE order == OrderOf(c, k.call.args[Len(k.built) + 1], pair)
<1>1. PICK S : k.built \in Seq(S)
    BY DEF RightBuilt
<1>2. /\ Len(k.built) \in Nat
      /\ Len(j.built) = Len(k.built) + 1
      /\ \A i \in 1..Len(k.built) : j.built[i] = k.built[i]
      /\ j.built[Len(k.built) + 1] = order
    <2> HIDE DEF order
    <2>1. j.built = Append(k.built, order)
        BY DEF order
    <2>2. QED
        BY <1>1, <2>1, Appended
<1>3. order = OrderOf(c, k.call.args[Len(k.built) + 1], PairOf(order))
    BY OrderOfPair
<1> HIDE DEF order
<1>4. ASSUME NEW i \in 1..Len(j.built)
      PROVE  /\ j.built[i] = OrderOf(c, j.call.args[i], PairOf(j.built[i]))
             /\ Checked(c, j.call.args[i])
    <2>1. CASE i \in 1..Len(k.built)
        BY <1>2, <2>1 DEF BuiltAsAsked
    <2>2. CASE i = Len(k.built) + 1
        BY <1>2, <1>3, <2>2
    <2>3. QED
        BY <1>2, <2>1, <2>2
<1>5. QED
    BY <1>2, <1>4 DEF BuiltAsAsked
-----------------------------------------------------------------------------
LEMMA PairsLead ==
    ASSUME NEW token \in PlannedTokens, NEW pair \in Pairs(token)
    PROVE  Leads(token, pair)
BY SplitLeads, PayloadLeads DEF Pairs

(* How a call comes by its pair: a market given as such, or a token's. *)
LedTo(c, k, pair) ==
    \/ ScopedByMarket(k) /\ pair = <<k.call.market, "">>
    \/ /\ ~ScopedByMarket(k) /\ pair \in Pairs(Asked(k))
       /\ (c = "clob" /\ k.call.op # "cancelMarket") \/ ~IsEmpty(Asked(k))

LEMMA LedToMarket ==
    ASSUME NEW c, NEW k, RightTask(k), k.phase \in Building,
           k.call.op = "cancelMarket", NEW pair, LedTo(c, k, pair)
    PROVE  pair[1] \in DOMAIN MarketOf /\ MarketOf[pair[1]] = MeantMarket(k.call)
<1>1. k.call \in PlannedCalls
    BY DEF RightTask
<1>2. CASE ~IsEmpty(k.call.market)
    <2>1. pair = <<k.call.market, "">>
        BY <1>2 DEF LedTo, ScopedByMarket
    <2>2. k.call.market \in DOMAIN MarketOf
        BY <1>1, <1>2, SweepAssumption
    <2>3. QED
        BY <1>2, <2>1, <2>2 DEF MeantMarket
<1>3. CASE IsEmpty(k.call.market)
    <2>1. ~IsEmpty(k.call.token) /\ pair \in Pairs(k.call.token)
        BY <1>3 DEF LedTo, ScopedByMarket, Asked
    <2>2. pair[1] \in DOMAIN MarketOf
        BY <1>1, <1>3, <2>1, SweepAssumption
    <2>3. Leads(k.call.token, pair)
        BY <2>1, <1>1, PairsLead DEF PlannedTokens
    <2>4. QED
        BY <1>3, <2>2, <2>3 DEF Leads, MeantMarket
<1>4. QED
    BY <1>2, <1>3

LEMMA LedToBalance ==
    ASSUME NEW c \in Clients, NEW k, RightTask(k), k.call \in CallsOf(c),
           k.phase \in Building,
           k.call.op = "balance", NEW pair, LedTo(c, k, pair)
    PROVE  <<pair[1], Upper(pair[2])>> = Addressed[k.call.token]
<1>1. k.call \in PlannedCalls
    BY DEF RightTask
<1>2. c # "clob"
    BY ClobAssumption
<1>3. ~IsEmpty(k.call.token) /\ pair \in Pairs(k.call.token)
    BY <1>2 DEF LedTo, ScopedByMarket, Asked
<1>4. pair[1] \in DOMAIN MarketOf /\ MarketOf[pair[1]] = pair[1]
    BY <1>1, <1>3, BalanceAssumption
<1>5. Leads(k.call.token, pair)
    BY <1>3, <1>1, PairsLead DEF PlannedTokens
<1>6. QED
    BY <1>4, <1>5 DEF Leads

LEMMA Proceeds ==
    ASSUME NEW t, NEW k, RightTask(k), CallInv(client, t, k, orders),
           k.phase \in {"resolving", "asking"}, NEW pair, LedTo(client, k, pair)
    PROVE  CallInv(client, t, Proceed(k, pair), orders)
<1> DEFINE a == k.call.args[Len(k.built) + 1]
           order == OrderOf(client, a, pair)
           next == [k EXCEPT !.built = Append(@, order),
                             !.phase = IF Len(k.built) + 1 = Len(k.call.args)
                                       THEN "ready" ELSE "resolving"]
<1>1. /\ k.phase \in Building /\ k.phase # "idle" /\ DOMAIN k = TaskKeys
      /\ NothingDone(t, orders)
    BY NothingBefore DEF Building, RightTask
<1>2. CASE k.call.op # "post"
    <2> DEFINE j == [k EXCEPT !.pair = pair, !.phase = "ready"]
    <2>1. Proceed(k, pair) = j
        BY <1>2 DEF Proceed
    <2>2. /\ SameCall(j, k) /\ j.told = k.told /\ j.tried = k.tried /\ j.lost = k.lost
          /\ j.phase = "ready" /\ j.pair = pair
        BY <1>1 DEF SameCall, TaskKeys
    <2>3. BuiltAsAsked(client, j)
        BY <1>2, <2>2 DEF BuiltAsAsked, SameCall
    <2>4. client \in Clients /\ k.call \in CallsOf(client)
        BY DEF CallInv, CallGoes
    <2>5. k.call.op = "cancelMarket" =>
            pair[1] \in DOMAIN MarketOf /\ MarketOf[pair[1]] = MeantMarket(k.call)
        BY <1>1, LedToMarket
    <2>6. k.call.op = "balance" => <<pair[1], Upper(pair[2])>> = Addressed[k.call.token]
        BY <1>1, <2>4, LedToBalance
    <2>7. QED
        <3> HIDE DEF j
        <3>1. QED
            BY <1>1, <2>1, <2>2, <2>3, <2>5, <2>6, GoesOn
<1>3. CASE k.call.op = "post" /\ client # "clob" /\ ~Valid(a)
    <2>1. Proceed(k, pair) = Returned(k, [Untold EXCEPT !.kind = "input"])
        BY <1>3 DEF Proceed, Raised
    <2>2. QED
        BY <1>1, <1>3, <2>1, ReturnedEnds, GivesUp
<1>4. CASE k.call.op = "post" /\ ~(client # "clob" /\ ~Valid(a))
    <2>1. Proceed(k, pair) = next
        BY <1>4 DEF Proceed, OrderOf
    <2>2. /\ SameCall(next, k) /\ next.told = k.told /\ next.tried = k.tried
          /\ next.lost = k.lost /\ next.built = Append(k.built, order)
          /\ next.phase = IF Len(k.built) + 1 = Len(k.call.args)
                          THEN "ready" ELSE "resolving"
        <3> HIDE DEF order
        <3>1. QED
            BY <1>1 DEF SameCall, TaskKeys
    <2>3. RightBuilt(k) /\ Checked(client, a)
        BY <1>4 DEF RightTask, Checked
    <2>4. BuiltAsAsked(client, next)
        <3>1. BuiltAsAsked(client, k) /\ next.call = k.call
            BY <2>2 DEF CallInv, SameCall
        <3>2. next.built = Append(k.built, OrderOf(client, k.call.args[Len(k.built) + 1], pair))
            BY <2>2
        <3>3. Checked(client, k.call.args[Len(k.built) + 1])
            BY <2>3
        <3>4. next.phase = "ready" => Len(k.built) + 1 = Len(k.call.args)
            BY <2>2
        <3>5. QED
            <4> HIDE DEF next, a, order
            <4>1. QED
                BY <1>1, <1>4, <2>3, <3>1, <3>2, <3>3, <3>4, BuiltOneMore
    <2>5. QED
        <3> HIDE DEF next, order, a
        <3>1. QED
            BY <1>1, <1>4, <2>1, <2>2, <2>4, GoesOn
<1>5. QED
    BY <1>2, <1>3, <1>4
-----------------------------------------------------------------------------
(* The step of a task keeps its own call, and leaves those of the others.     *)
LEMMA TaskActs ==
    ASSUME CallsInv, Inv, NEW t \in Tasks, NEW j, CallInv(client, t, j, orders'),
           task' = [task EXCEPT ![t] = j], UNCHANGED client,
           Moves({t}, orders, orders'), CacheIsOfLookups(coordinates')
    PROVE  CallsInv'
<1>1. task'[t] = j /\ \A u \in Tasks \ {t} : task'[u] = task[u]
    BY DEF Inv
<1>2. ASSUME NEW u \in Tasks PROVE CallInv(client, u, task'[u], orders')
    <2>1. CASE u = t
        BY <1>1, <2>1
    <2>2. CASE u # t
        BY <1>1, <2>2, OthersKeep DEF CallsInv
    <2>3. QED
        BY <2>1, <2>2
<1>3. OrdersAreKept(orders')
    BY DEF Moves
<1>4. QED
    BY <1>2, <1>3 DEF CallsInv

LEMMA NothingMoves ==
    ASSUME NEW o, OrdersAreKept(o), NEW acting
    PROVE  Moves(acting, o, o)
BY DEF Moves

LEMMA TaskActsAlone ==
    ASSUME CallsInv, Inv, NEW t \in Tasks, NEW j, CallInv(client, t, j, orders),
           task' = [task EXCEPT ![t] = j], UNCHANGED <<client, orders>>,
           CacheIsOfLookups(coordinates')
    PROVE  CallsInv'
<1>1. Moves({t}, orders, orders') /\ CallInv(client, t, j, orders')
    BY NothingMoves DEF CallsInv
<1>2. QED
    BY <1>1, TaskActs

LEMMA ResolutionPairs ==
    ASSUME CacheIsOfLookups(coordinates), NEW token
    PROVE  /\ \A r \in ResolveCoordinates(token) :
                r.pair \in Pairs(token) /\ CacheIsOfLookups(r.cache)
           /\ \A r \in ResolveToken(token) :
                r.pair \in Pairs(token) /\ CacheIsOfLookups(r.cache)
<1>1. ASSUME NeedsReverseResolution(token), NEW answer \in Answers[token]
      PROVE  CacheIsOfLookups(Remembered(token, FromPayload(token, answer)))
    BY <1>1 DEF CacheIsOfLookups, Remembered, Pairs, NeedsReverseResolution
<1>2. ASSUME NEW r \in ResolveCoordinates(token)
      PROVE  r.pair \in Pairs(token) /\ CacheIsOfLookups(r.cache)
    <2>1. CASE ~NeedsReverseResolution(token)
        BY <1>2, <2>1 DEF ResolveCoordinates, Pairs
    <2>2. CASE NeedsReverseResolution(token) /\ token \in DOMAIN coordinates
        BY <1>2, <2>2 DEF ResolveCoordinates, CacheIsOfLookups
    <2>3. CASE NeedsReverseResolution(token) /\ token \notin DOMAIN coordinates
        <3>1. PICK answer \in Answers[token] :
                r = [pair |-> FromPayload(token, answer),
                     cache |-> Remembered(token, FromPayload(token, answer))]
            BY <1>2, <2>3 DEF ResolveCoordinates
        <3>2. QED
            BY <1>1, <2>3, <3>1 DEF Pairs
    <2>4. QED
        BY <2>1, <2>2, <2>3
<1>3. ASSUME NEW r \in ResolveToken(token)
      PROVE  r.pair \in Pairs(token) /\ CacheIsOfLookups(r.cache)
    <2>1. CASE HasColon(token) \/ token \notin ClobTokens
        BY <1>3, <2>1 DEF ResolveToken, NeedsReverseResolution, Pairs
    <2>2. CASE ~(HasColon(token) \/ token \notin ClobTokens)
        BY <1>2, <1>3, <2>2 DEF ResolveToken
    <2>3. QED
        BY <2>1, <2>2
<1>4. QED
    BY <1>2, <1>3

(* Who is resolving goes on with what its token leads to, or gives up. *)
LEMMA ResolvesOn ==
    ASSUME CallsInv, Inv, NEW t \in Tasks, task[t].phase \in {"resolving", "asking"},
           UNCHANGED <<client, orders>>, CacheIsOfLookups(coordinates'),
           \/ \E pair : /\ LedTo(client, task[t], pair)
                        /\ task' = [task EXCEPT ![t] = Proceed(task[t], pair)]
           \/ \E error \in {"input", "error"} :
                task' = [task EXCEPT ![t] = Raised(task[t], error)]
    PROVE  CallsInv'
<1>1. RightTask(task[t]) /\ CallInv(client, t, task[t], orders)
    BY DEF Inv, CallsInv
<1>2. ASSUME NEW pair, LedTo(client, task[t], pair),
             task' = [task EXCEPT ![t] = Proceed(task[t], pair)]
      PROVE  CallsInv'
    BY <1>1, <1>2, Proceeds, TaskActsAlone
<1>3. ASSUME NEW error \in {"input", "error"},
             task' = [task EXCEPT ![t] = Raised(task[t], error)]
      PROVE  CallsInv'
    <2>1. NothingDone(t, orders)
        BY <1>1, NothingBefore DEF Building
    <2>2. Ends(Raised(task[t], error), task[t], [Untold EXCEPT !.kind = error], task[t].lost)
        BY <1>1, ReturnedEnds DEF Raised, RightTask
    <2>3. task[t].call.op # "cancel"
        BY <1>1 DEF CallInv, Tallies
    <2>4. CallInv(client, t, Raised(task[t], error), orders)
        BY <1>1, <2>1, <2>2, <2>3, GivesUp
    <2>5. QED
        BY <1>3, <2>4, TaskActsAlone
<1>4. QED
    BY <1>2, <1>3

LEMMA LookedUpIsNotEmpty ==
    ASSUME NEW token, NeedsReverseResolution(token)
    PROVE  ~IsEmpty(token)
<1>1. Len(token) = 1 /\ token # <<"">>
    BY TokenAssumption, Zenon DEF NeedsReverseResolution
<1>2. token # <<>>
    <2>1. SUFFICES ASSUME token = <<>> PROVE FALSE
        OBVIOUS
    <2>2. Len(token) = 0
        <3>1. token \in Seq({})
            BY <2>1
        <3>2. QED
            BY <2>1, <3>1
    <2>3. 0 # 1
        OBVIOUS
    <2>4. QED
        BY <1>1, <2>2, <2>3, Zenon
<1>3. QED
    BY <1>1, <1>2 DEF IsEmpty

LEMMA AskingIsUnscoped ==
    ASSUME NEW t, NEW k, NEW o, SweepsRightly(t, k, o), k.phase = "asking"
    PROVE  ~ScopedByMarket(k)
<1>1. k.call.op = "cancelMarket" => ~ScopedByMarket(k)
    BY Zenon DEF SweepsRightly
<1>2. QED
    BY <1>1 DEF ScopedByMarket

LEMMA ResolvesRightly ==
    ASSUME CallsInv, Inv, NEW t \in Tasks,
           SecureResolve(t) \/ ClobResolve(t) \/ AsyncResolve(t) \/ AsyncResolved(t)
    PROVE  CallsInv'
<1> DEFINE k == task[t]
           token == Asked(k)
<1>1. /\ k.phase \in {"resolving", "asking"} /\ UNCHANGED <<client, orders>>
      /\ CacheIsOfLookups(coordinates)
    BY DEF SecureResolve, ClobResolve, AsyncResolve, AsyncResolved, Is, CallsInv
<1>2. ASSUME ScopedByMarket(k), UNCHANGED coordinates,
             task' = [task EXCEPT ![t] = Proceed(k, <<k.call.market, "">>)]
      PROVE  CallsInv'
    BY <1>1, <1>2, ResolvesOn DEF LedTo
<1>3. ASSUME NEW error \in {"input", "error"}, UNCHANGED coordinates,
             task' = [task EXCEPT ![t] = Raised(k, error)]
      PROVE  CallsInv'
    BY <1>1, <1>3, ResolvesOn
<1>4. CASE SecureResolve(t)
    <2>1. ASSUME ~ScopedByMarket(k), ~IsEmpty(token), NEW r \in ResolveCoordinates(token),
                 coordinates' = r.cache, task' = [task EXCEPT ![t] = Proceed(k, r.pair)]
          PROVE  CallsInv'
        BY <1>1, <2>1, ResolutionPairs, ResolvesOn DEF LedTo
    <2>2. QED
        BY <1>2, <1>3, <1>4, <2>1 DEF SecureResolve, ValidToken
<1>5. CASE ClobResolve(t)
    <2>1. client = "clob"
        BY <1>5 DEF ClobResolve, Is
    <2>2. ASSUME ~ScopedByMarket(k), ~(k.call.op = "cancelMarket" /\ IsEmpty(token)),
                 NEW r \in ResolveToken(token),
                 coordinates' = r.cache, task' = [task EXCEPT ![t] = Proceed(k, r.pair)]
          PROVE  CallsInv'
        BY <1>1, <2>1, <2>2, ResolutionPairs, ResolvesOn DEF LedTo
    <2>3. QED
        BY <1>2, <1>3, <1>5, <2>2 DEF ClobResolve, Op
<1>6. CASE AsyncResolve(t)
    <2> DEFINE asking == [k EXCEPT !.phase = "asking"]
    <2>1. CASE ~ScopedByMarket(k) /\ LookedUp(token) /\ task' = [task EXCEPT ![t] = asking]
        <3>1. RightTask(k) /\ CallInv(client, t, k, orders)
            BY DEF Inv, CallsInv
        <3>2. /\ SameCall(asking, k) /\ asking.told = k.told /\ asking.tried = k.tried
              /\ asking.lost = k.lost /\ asking.phase = "asking" /\ asking.built = k.built
            BY <3>1 DEF SameCall, RightTask, TaskKeys
        <3> HIDE DEF asking
        <3>3. BuiltAsAsked(client, asking)
            BY <3>1, <3>2 DEF BuiltAsAsked, CallInv, SameCall
        <3>4. CallInv(client, t, asking, orders)
            BY <1>1, <2>1, <3>1, <3>2, <3>3, GoesOn DEF Building
        <3>5. QED
            BY <1>1, <1>6, <2>1, <3>4, TaskActsAlone DEF AsyncResolve
    <2>2. ASSUME ~ScopedByMarket(k), ~IsEmpty(token), ~LookedUp(token),
                 UNCHANGED coordinates,
                 task' = [task EXCEPT ![t] =
                            Proceed(k, IF token \in DOMAIN coordinates
                                       THEN coordinates[token] ELSE SplitToken(token))]
          PROVE  CallsInv'
        <3>1. (IF token \in DOMAIN coordinates THEN coordinates[token] ELSE SplitToken(token))
                \in Pairs(token)
            BY <1>1, <2>2 DEF CacheIsOfLookups, LookedUp, Pairs
        <3>2. QED
            BY <1>1, <2>2, <3>1, ResolvesOn DEF LedTo
    <2>3. UNCHANGED coordinates
        BY <1>6 DEF AsyncResolve
    <2>4. QED
        BY <1>2, <1>3, <1>6, <2>1, <2>2, <2>3 DEF AsyncResolve, ValidToken
<1>7. CASE AsyncResolved(t)
    <2>1. RightTask(k) /\ k.phase = "asking" /\ client = "async"
        BY <1>7 DEF Inv, AsyncResolved, Is
    <2>2. NeedsReverseResolution(token) /\ ~IsEmpty(token) /\ ~ScopedByMarket(k)
        <3>1. NeedsReverseResolution(token)
            BY <2>1 DEF RightTask
        <3>2. ~ScopedByMarket(k)
            BY <2>1, AskingIsUnscoped DEF CallsInv, CallInv
        <3>3. ~IsEmpty(token)
            BY <3>1, LookedUpIsNotEmpty
        <3>4. QED
            BY <3>1, <3>2, <3>3
    <2>3. ASSUME NEW answer \in Answers[token],
                 coordinates' = Remembered(token, FromPayload(token, answer)),
                 task' = [task EXCEPT ![t] = Proceed(k, FromPayload(token, answer))]
          PROVE  CallsInv'
        <3>1. FromPayload(token, answer) \in Pairs(token)
            BY <2>2, <2>3 DEF Pairs
        <3>2. CacheIsOfLookups(coordinates')
            BY <1>1, <2>2, <2>3, <3>1 DEF CacheIsOfLookups, Remembered, NeedsReverseResolution
        <3>3. QED
            BY <1>1, <2>2, <2>3, <3>1, <3>2, ResolvesOn DEF LedTo
    <2>4. QED
        BY <1>3, <1>7, <2>3 DEF AsyncResolved
<1>8. QED
    BY <1>4, <1>5, <1>6, <1>7
-----------------------------------------------------------------------------
(* The server, and how its orders move. *)

LEMMA LenOfRows ==
    ASSUME NEW n \in Nat, NEW S, NEW f \in [1..n -> S]
    PROVE  Len(f) = n
OBVIOUS

(* What is new at the places of a task is what it sent for them. *)
PlacedAsSent(t, wires, o) ==
    \A id \in DOMAIN o :
        id[1] = t => id[2] \in DOMAIN wires /\ o[id].wire = wires[id[2]]

(* The places that are taken are those of the orders not refused. *)
TakenAs(t, v, o) ==
    \A i \in DOMAIN v : <<t, i>> \in DOMAIN o <=> v[i] # "refused"

LEMMA PlacesFew ==
    ASSUME NEW t, NEW n \in Nat, NEW v
    PROVE  IsFiniteSet({<<t, i>> : i \in {j \in 1..n : v[j] # "refused"}})
<1> DEFINE J == {j \in 1..n : v[j] # "refused"}
           T == {<<t, i>> : i \in J}
           f == [i \in J |-> <<t, i>>]
<1>1. f \in Surjection(J, T)
    BY DEF Surjection
<1>2. IsFiniteSet(J)
    <2>1. IsFiniteSet(1..n)
        BY FS_Interval
    <2>2. J \in SUBSET (1..n)
        OBVIOUS
    <2>3. QED
        <3> HIDE DEF J
        <3>1. QED
            BY <2>1, <2>2, FS_Subset
<1>3. QED
    <2> HIDE DEF J, T, f
    <2>1. IsFiniteSet(T)
        BY <1>1, <1>2, FS_Surjection
    <2>2. QED
        BY <2>1 DEF J, T

LEMMA ServedIsKept ==
    ASSUME OrdersAreKept(orders), NEW t, \A id \in DOMAIN orders : id[1] # t,
           NEW n \in Nat, NEW wires, DOMAIN wires = 1..n,
           NEW v \in [1..n -> {"refused", "filled", "open"}],
           NEW new, new = Joined(PlacedOrders(t, wires, v))
    PROVE  /\ Moves({t}, orders, new) /\ PlacedAsSent(t, wires, new)
           /\ TakenAs(t, v, new)
<1> DEFINE placed == PlacedOrders(t, wires, v)
<1>1. DOMAIN placed = {<<t, i>> : i \in {j \in 1..n : v[j] # "refused"}}
    BY DEF PlacedOrders
<1>2. IsFiniteSet(DOMAIN placed)
    <2>1. IsFiniteSet({<<t, i>> : i \in {j \in 1..n : v[j] # "refused"}})
        BY PlacesFew
    <2> HIDE DEF placed
    <2>2. QED
        BY <1>1, <2>1
<1>3. ASSUME NEW i \in 1..n, v[i] # "refused"
      PROVE  /\ placed[<<t, i>>].status \in {"filled", "open"}
             /\ DOMAIN placed[<<t, i>>] = OrderKeys
             /\ placed[<<t, i>>].by = t /\ placed[<<t, i>>].wire = wires[i]
    <2>1. v[i] \in {"filled", "open"}
        BY <1>3
    <2>2. <<t, i>> \in DOMAIN placed
        BY <1>1, <1>3
    <2>3. placed[<<t, i>>] = [market |-> MarketOf[wires[i].market],
                              outcome |-> Upper(wires[i].outcome), status |-> v[i],
                              by |-> t, place |-> i, wire |-> wires[i]]
        BY <2>2 DEF PlacedOrders
    <2>4. QED
        BY <2>1, <2>3 DEF OrderKeys
<1>4. /\ DOMAIN new = DOMAIN placed \cup DOMAIN orders
      /\ \A id \in DOMAIN new :
           new[id] = IF id \in DOMAIN placed THEN placed[id] ELSE orders[id]
    <2>1. new = Joined(placed)
        OBVIOUS
    <2> HIDE DEF placed
    <2>2. QED
        BY <2>1 DEF Joined
<1>5. \A id \in DOMAIN placed :
        \E i \in 1..n : v[i] # "refused" /\ id = <<t, i>>
    BY <1>1
<1>6. DOMAIN placed \cap DOMAIN orders = {}
    BY <1>5
<1> HIDE DEF placed
<1>7. IsFiniteSet(DOMAIN new)
    <2>1. IsFiniteSet(DOMAIN orders)
        BY DEF OrdersAreKept
    <2>2. IsFiniteSet(DOMAIN placed \cup DOMAIN orders)
        BY <1>2, <2>1, FS_Union
    <2>3. QED
        BY <1>4, <2>2
<1>8. OrdersAreKept(new)
    BY <1>3, <1>4, <1>5, <1>7 DEF OrdersAreKept
<1>9. Moves({t}, orders, new)
    BY <1>3, <1>4, <1>5, <1>6, <1>8 DEF Moves
<1>10. PlacedAsSent(t, wires, new)
    BY <1>3, <1>4, <1>5 DEF PlacedAsSent
<1>11. ASSUME NEW i \in 1..n
       PROVE  <<t, i>> \in DOMAIN new <=> v[i] # "refused"
    <2>1. <<t, i>> \notin DOMAIN orders
        OBVIOUS
    <2>2. <<t, i>> \in DOMAIN placed <=> v[i] # "refused"
        BY <1>1
    <2>3. QED
        BY <1>4, <2>1, <2>2
<1>12. QED
    BY <1>9, <1>10, <1>11 DEF TakenAs

ReplyKeys == {"orders", "ok", "rows", "ids", "lost"}

(* An answer that comes has a row for each order, and says what was placed.   *)
LEMMA ServedRows ==
    ASSUME OrdersAreKept(orders), NEW t, \A id \in DOMAIN orders : id[1] # t,
           NEW n \in Nat, NEW wires, DOMAIN wires = 1..n, NEW reply \in Serve(t, wires)
    PROVE  /\ Moves({t}, orders, reply.orders) /\ PlacedAsSent(t, wires, reply.orders)
           /\ DOMAIN reply = ReplyKeys
           /\ reply.ok =>
                /\ Counts(reply.rows, n)
                /\ RowsFit(t, reply.rows, reply.orders)
<1>1. CASE reply = [NoReply EXCEPT !.orders = orders]
    <2>1. reply.orders = orders /\ ~reply.ok /\ DOMAIN reply = ReplyKeys
        BY <1>1 DEF NoReply, ReplyKeys
    <2>2. QED
        BY <2>1, NothingMoves DEF PlacedAsSent
<1>2. CASE reply # [NoReply EXCEPT !.orders = orders]
    <2> DEFINE Row(v, refused, i) ==
          IF v[i] = "refused" THEN refused
          ELSE [status |-> IF v[i] = "filled" THEN "filled" ELSE "live",
                success |-> "absent", id |-> <<t, i>>, error |-> FALSE]
    <2>1. PICK d \in [verdict : [DOMAIN wires -> {"refused", "filled", "open"}],
                      refused : RefusedRows, ok : BOOLEAN] :
            reply = [NoReply EXCEPT
                          !.orders = Joined(PlacedOrders(t, wires, d.verdict)),
                          !.ok = d.ok, !.lost = ~d.ok,
                          !.rows = IF d.ok
                                   THEN [i \in DOMAIN wires |-> Row(d.verdict, d.refused, i)]
                                   ELSE <<>>]
        <3> HIDE DEF Row
        <3>1. QED
            BY <1>2 DEF Serve, Row
    <2> DEFINE v == d.verdict
               refused == d.refused
               ok == d.ok
    <2> DEFINE new == Joined(PlacedOrders(t, wires, v))
               rows == [i \in 1..n |-> Row(v, refused, i)]
    <2>2. /\ reply.orders = new /\ reply.ok = ok /\ (ok => reply.rows = rows)
          /\ DOMAIN reply = ReplyKeys
        <3> HIDE DEF new, Row
        <3>1. QED
            BY <2>1 DEF NoReply, ReplyKeys, new
    <2>3. /\ Moves({t}, orders, new) /\ PlacedAsSent(t, wires, new)
          /\ TakenAs(t, v, new)
        <3>1. v \in [1..n -> {"refused", "filled", "open"}]
            BY <2>1
        <3>2. new = Joined(PlacedOrders(t, wires, v))
            OBVIOUS
        <3> HIDE DEF v, new
        <3>3. QED
            BY <3>1, <3>2, ServedIsKept
    <2>4. ASSUME NEW i \in 1..n
          PROVE  /\ Accepted(rows[i]) <=> v[i] # "refused"
                 /\ Accepted(rows[i]) => rows[i].id = <<t, i>>
        <3>1. CASE v[i] = "refused"
            <4>1. rows[i] \in RefusedRows
                BY <3>1
            <4>2. \A row \in RefusedRows : ~Accepted(row)
                BY DEF RefusedRows, Accepted
            <4>3. QED
                BY <3>1, <4>1, <4>2
        <3>2. CASE v[i] # "refused"
            <4>1. rows[i] = [status |-> IF v[i] = "filled" THEN "filled" ELSE "live",
                             success |-> "absent", id |-> <<t, i>>, error |-> FALSE]
                BY <3>2
            <4>2. rows[i].status \in {"filled", "live"} /\ rows[i].success = "absent"
                  /\ rows[i].id = <<t, i>> /\ rows[i].error = FALSE
                BY <4>1
            <4>3. {"filled", "live"} \subseteq DOMAIN AcceptedStatus
                BY DEF AcceptedStatus
            <4>4. <<t, i>> # NoId
                BY DEF NoId
            <4>5. QED
                <5> HIDE DEF rows
                <5>1. QED
                    BY <3>2, <4>2, <4>3, <4>4 DEF Accepted
        <3>3. QED
            BY <3>1, <3>2
    <2>5. RowsFit(t, rows, new)
        <3>1. DOMAIN rows = 1..n
            OBVIOUS
        <3>2. QED
            <4> HIDE DEF rows, new
            <4>1. QED
                BY <2>1, <2>3, <2>4, <3>1 DEF RowsFit, TakenAs
    <2>6. DOMAIN rows = 1..n /\ Len(rows) = n
        <3>1. DOMAIN rows = 1..n /\ rows \in [1..n -> {rows[i] : i \in 1..n}]
            OBVIOUS
        <3>2. QED
            <4> HIDE DEF rows
            <4>1. QED
                BY <3>1, LenOfRows
    <2>7. QED
        <3> HIDE DEF rows, new
        <3>1. QED
            BY <2>2, <2>3, <2>5, <2>6 DEF Counts
<1>3. QED
    BY <1>1, <1>2

(* What a cancellation does. *)
CancelledRightly(t, ids, new) ==
    /\ Moves({t}, orders, new) /\ DOMAIN new = DOMAIN orders /\ Gone(ids, new)
    /\ \A id \in DOMAIN orders \ ids : new[id] = orders[id]

LEMMA CancelledMoves ==
    ASSUME OrdersAreKept(orders), NEW t, NEW ids, ids \subseteq Open
    PROVE  CancelledRightly(t, ids, Cancelled(t, ids))
<1> DEFINE new == Cancelled(t, ids)
<1>1. /\ DOMAIN new = DOMAIN orders
      /\ \A id \in DOMAIN orders :
           new[id] = IF id \in ids
                     THEN [orders[id] EXCEPT !.status = "cancelled", !.by = t]
                     ELSE orders[id]
    BY DEF Cancelled
<1> HIDE DEF new
<1>2. OrdersAreKept(new)
    BY <1>1 DEF OrdersAreKept, OrderKeys
<1>3. QED
    BY <1>1, <1>2 DEF Moves, Gone, Open, OrdersAreKept, OrderKeys, CancelledRightly, new
-----------------------------------------------------------------------------
(* Posting. *)

(* A post that has been sent, and one that has its answer. *)
LEMMA Posts ==
    ASSUME NEW c, NEW t, NEW k, NEW o, NEW new, CallInv(c, t, k, o), Moves({t}, o, new),
           k.call.op = "post", k.phase \in {"ready", "waiting"},
           \A id \in DOMAIN new : id[1] = t =>
               /\ id[2] \in 1..Len(k.call.args)
               /\ new[id].wire = WireOf(c, k.call, k.call.args[id[2]], PairOf(new[id].wire))
               /\ Checked(c, k.call.args[id[2]]),
           NEW j, SameCall(j, k), j.tried = k.tried, j.built = k.built,
           j.phase \in {"waiting", "done"}, DOMAIN j.told = ToldKeys,
           j.told.kind \in {"none", "rows", "raw", "error"},
           j.phase # "done" => j.told.kind = "none",
           j.phase = "done" => j.told.kind # "none",
           j.told.canceled = {}, j.told.missed = {},
           j.phase = "waiting" /\ j.reply.ok =>
               Rows(j, j.reply.rows) /\ RowsFit(t, j.reply.rows, new),
           j.told.kind = "rows" =>
               Rows(j, j.told.rows) /\ ToldRowsFit(t, j.told.rows, new)
    PROVE  CallInv(c, t, j, new)
<1>1. CallGoes(c, j, new)
    BY BoughtStay DEF CallInv, CallGoes, SameCall, Moves, Phases, Kinds
<1>2. BuiltAsAsked(c, j)
    BY DEF CallInv, BuiltAsAsked, SameCall
<1>3. HasPosted(c, t, j, new)
    BY DEF HasPosted, SameCall
<1>4. HasActed(c, t, j, new)
    BY DEF HasActed, SameCall
<1>5. RowsAreTrue(t, j, new)
    BY DEF RowsAreTrue
<1>6. Tallies(t, j, new) /\ SweepsRightly(t, j, new) /\ BalancesRightly(j, new)
    BY DEF Tallies, SweepsRightly, BalancesRightly, SameCall
<1>7. QED
    BY <1>1, <1>2, <1>3, <1>4, <1>5, <1>6 DEF CallInv

(* What an answer is told as. *)
LEMMA AdaptedTells ==
    ASSUME NEW t, NEW n \in Nat, NEW reply, NEW o,
           reply.ok => /\ Counts(reply.rows, n)
                       /\ RowsFit(t, reply.rows, o)
    PROVE  /\ DOMAIN Adapted(reply) = ToldKeys
           /\ Adapted(reply).kind \in {"rows", "error"}
           /\ Adapted(reply).canceled = {} /\ Adapted(reply).missed = {}
           /\ Adapted(reply).kind = "rows" =>
                /\ Counts(Adapted(reply).rows, n)
                /\ ToldRowsFit(t, Adapted(reply).rows, o)
<1> DEFINE rows == [i \in DOMAIN reply.rows |-> AdaptOrderResponse(reply.rows[i])]
<1>1. CASE ~reply.ok
    BY <1>1 DEF Adapted, Untold, ToldKeys
<1>2. CASE reply.ok
    <2>1. Adapted(reply) = [Untold EXCEPT !.kind = "rows", !.rows = rows]
        BY <1>2 DEF Adapted
    <2>2. /\ DOMAIN Adapted(reply) = ToldKeys
          /\ Adapted(reply).kind = "rows" /\ Adapted(reply).rows = rows
          /\ Adapted(reply).canceled = {} /\ Adapted(reply).missed = {}
        <3> HIDE DEF rows
        <3>1. QED
            BY <2>1 DEF Untold, ToldKeys
    <2>3. DOMAIN rows = 1..n /\ Len(rows) = n
        <3>1. DOMAIN rows = 1..n /\ rows \in [1..n -> {rows[i] : i \in 1..n}]
            BY <1>2 DEF Counts
        <3> HIDE DEF rows
        <3>2. QED
            BY <3>1, LenOfRows
    <2>4. ToldRowsFit(t, rows, o)
        <3>1. ASSUME NEW i \in DOMAIN rows
              PROVE  /\ rows[i].ok <=> <<t, i>> \in DOMAIN o
                     /\ rows[i].ok => rows[i].id = <<t, i>>
            <4>1. i \in DOMAIN reply.rows /\ rows[i] = AdaptOrderResponse(reply.rows[i])
                OBVIOUS
            <4>2. /\ Accepted(reply.rows[i]) <=> <<t, i>> \in DOMAIN o
                  /\ Accepted(reply.rows[i]) => reply.rows[i].id = <<t, i>>
                BY <1>2, <4>1 DEF RowsFit
            <4>3. \A row : /\ AdaptOrderResponse(row).ok <=> Accepted(row)
                           /\ Accepted(row) => AdaptOrderResponse(row).id = row.id
                BY DEF AdaptOrderResponse
            <4> HIDE DEF rows
            <4>4. QED
                BY <4>1, <4>2, <4>3
        <3> HIDE DEF rows
        <3>2. QED
            BY <3>1 DEF ToldRowsFit
    <2>5. QED
        <3> HIDE DEF rows
        <3>1. QED
            BY <2>2, <2>3, <2>4 DEF Counts
<1>3. QED
    BY <1>1, <1>2

-----------------------------------------------------------------------------
(* What goes out is what was asked for, each order in its place. *)
Wired(c, k, wires) ==
    /\ DOMAIN wires = 1..Len(k.call.args)
    /\ \A i \in 1..Len(k.call.args) :
         /\ wires[i] = WireOf(c, k.call, k.call.args[i], PairOf(wires[i]))
         /\ Checked(c, k.call.args[i])

LEMMA BuiltIsWired ==
    ASSUME NEW c, c # "clob", NEW k, RightTask(k), BuiltAsAsked(c, k),
           k.call.op = "post", k.phase = "ready"
    PROVE  Wired(c, k, k.built)
<1>1. PICK S : k.built \in Seq(S)
    BY DEF RightTask, RightBuilt
<1>2. DOMAIN k.built = 1..Len(k.call.args)
    BY <1>1 DEF BuiltAsAsked
<1>3. QED
    BY <1>2 DEF BuiltAsAsked, Wired, WireOf, OrderOf

LEMMA ClobIsWired ==
    ASSUME NEW k, RightTask(k), BuiltAsAsked("clob", k),
           k.call.op = "post", k.phase = "ready"
    PROVE  LET wires == [i \in DOMAIN k.built |->
                           IF k.call.batch
                           THEN BatchEntry(k.built[i], k.call.asked, k.call.postOnly)
                           ELSE Submit(k.built[i], k.call.asked, k.call.postOnly)]
           IN  Wired("clob", k, wires)
<1> DEFINE wires == [i \in DOMAIN k.built |->
                       IF k.call.batch
                       THEN BatchEntry(k.built[i], k.call.asked, k.call.postOnly)
                       ELSE Submit(k.built[i], k.call.asked, k.call.postOnly)]
<1>1. PICK S : k.built \in Seq(S)
    BY DEF RightTask, RightBuilt
<1>2. DOMAIN k.built = 1..Len(k.call.args) /\ Len(k.built) = Len(k.call.args)
    BY <1>1 DEF BuiltAsAsked
<1>3. k.call.postOnly \in BOOLEAN
    BY CallsAssumption DEF RightTask
<1>4. ASSUME NEW i \in 1..Len(k.call.args)
      PROVE  /\ wires[i] = WireOf("clob", k.call, k.call.args[i], PairOf(wires[i]))
             /\ Checked("clob", k.call.args[i])
    <2> DEFINE order == k.built[i]
    <2>1. order = ClobOrder(k.call.args[i], PairOf(order))
        BY <1>2 DEF BuiltAsAsked, OrderOf
    <2>2. DOMAIN order = WireKeys
        BY <1>2 DEF RightTask, RightBuilt, RightWire
    <2>3. order.postOnly \in BOOLEAN
        <3>1. \A a, pair : ClobOrder(a, pair).postOnly = FALSE
            BY DEF ClobOrder, ClobLimitOrder, ClobMarketOrder, OrderPayload
        <3>2. QED
            BY <2>1, <3>1
    <2>4. wires[i] = Submit(order, k.call.asked, k.call.postOnly)
        <3>1. wires[i] = IF k.call.batch
                         THEN BatchEntry(order, k.call.asked, k.call.postOnly)
                         ELSE Submit(order, k.call.asked, k.call.postOnly)
            BY <1>2
        <3> HIDE DEF wires, order
        <3>2. QED
            BY <1>3, <2>2, <2>3, <3>1, BatchPostsAsSubmit
    <2>5. PairOf(wires[i]) = PairOf(order)
        <3> HIDE DEF wires, order
        <3>1. QED
            BY <2>2, <2>4, PostedForPair DEF PairOf
    <2>6. QED
        <3> HIDE DEF wires, order
        <3>1. QED
            BY <2>1, <2>4, <2>5 DEF WireOf, Checked
<1>5. DOMAIN wires = 1..Len(k.call.args)
    BY <1>2
<1>6. QED
    <2> HIDE DEF wires
    <2>1. Wired("clob", k, wires)
        BY <1>4, <1>5 DEF Wired
    <2>2. QED
        BY <2>1 DEF wires

(* The server's answer to a post, and its orders then. *)
LEMMA ServedAsAsked ==
    ASSUME CallsInv, Inv, NEW t \in Tasks, task[t].call.op = "post",
           task[t].phase = "ready", NEW wires, Wired(client, task[t], wires),
           NEW reply \in Serve(t, wires)
    PROVE  LET k == task[t]
           IN  /\ Moves({t}, orders, reply.orders) /\ DOMAIN reply = ReplyKeys
               /\ \A id \in DOMAIN reply.orders : id[1] = t =>
                    /\ id[2] \in 1..Len(k.call.args)
                    /\ reply.orders[id].wire =
                         WireOf(client, k.call, k.call.args[id[2]],
                                PairOf(reply.orders[id].wire))
                    /\ Checked(client, k.call.args[id[2]])
               /\ reply.ok =>
                    /\ Counts(reply.rows, Len(k.call.args))
                    /\ RowsFit(t, reply.rows, reply.orders)
<1>1. /\ OrdersAreKept(orders) /\ CallInv(client, t, task[t], orders)
      /\ task[t].call \in PlannedCalls
    BY DEF CallsInv, Inv, RightTask
<1>2. \A id \in DOMAIN orders : id[1] # t
    BY <1>1, NothingBefore DEF NothingDone
<1>3. Len(task[t].call.args) \in Nat /\ DOMAIN wires = 1..Len(task[t].call.args)
    BY <1>1, PostHasOrders DEF Wired
<1>4. /\ Moves({t}, orders, reply.orders) /\ PlacedAsSent(t, wires, reply.orders)
      /\ DOMAIN reply = ReplyKeys
      /\ reply.ok =>
           /\ Counts(reply.rows, Len(task[t].call.args))
           /\ RowsFit(t, reply.rows, reply.orders)
    BY <1>1, <1>2, <1>3, ServedRows
<1>5. QED
    BY <1>3, <1>4 DEF PlacedAsSent, Wired

(* The task of an async call whose request is out. *)
SentWith(k, reply) ==
    [k EXCEPT !.phase = "waiting", !.lost = k.lost \/ reply.lost,
              !.reply = [reply EXCEPT !.orders = <<>>]]

LEMMA SentFields ==
    ASSUME NEW k, DOMAIN k = TaskKeys, NEW reply
    PROVE  LET j == SentWith(k, reply)
           IN  /\ SameCall(j, k) /\ j.phase = "waiting"
               /\ j.lost <=> (k.lost \/ reply.lost)
               /\ j.tried = k.tried /\ j.built = k.built /\ j.told = k.told
               /\ j.pair = k.pair /\ j.reply = [reply EXCEPT !.orders = <<>>]
<1> DEFINE kept == [reply EXCEPT !.orders = <<>>]
           lost == k.lost \/ reply.lost
           j == [k EXCEPT !.phase = "waiting", !.lost = lost, !.reply = kept]
<1>1. SentWith(k, reply) = j
    BY DEF SentWith
<1>2. /\ SameCall(j, k) /\ j.phase = "waiting"
      /\ j.tried = k.tried /\ j.built = k.built /\ j.told = k.told
      /\ j.pair = k.pair /\ j.reply = kept
    <2> HIDE DEF kept, lost
    <2>1. QED
        BY DEF SameCall, TaskKeys
<1>3. j.lost = lost
    <2> HIDE DEF kept, lost
    <2>1. QED
        BY DEF TaskKeys
<1>4. QED
    <2> HIDE DEF j
    <2>1. QED
        BY <1>1, <1>2, <1>3, Zenon

LEMMA SentIsSentWith ==
    ASSUME NEW t, NEW reply, Sent(t, reply)
    PROVE  /\ task' = [task EXCEPT ![t] = SentWith(task[t], reply)]
           /\ orders' = reply.orders /\ UNCHANGED <<client, coordinates>>
BY Zenon DEF Sent, SentWith

LEMMA ReplyFields ==
    ASSUME NEW reply, DOMAIN reply = ReplyKeys,
           NEW kept, kept = [reply EXCEPT !.orders = <<>>]
    PROVE  kept.ok = reply.ok /\ kept.rows = reply.rows /\ kept.ids = reply.ids
BY DEF ReplyKeys

(* What a post that has ended may tell. *)
TellsOfPost(told, reply) ==
    /\ told.kind \in {"rows", "raw", "error"} /\ DOMAIN told = ToldKeys
    /\ told.canceled = {} /\ told.missed = {}
    /\ told.kind = "rows" => told = Adapted(reply)

LEMMA PostsRightly ==
    ASSUME CallsInv, Inv, NEW t \in Tasks,
           SecurePost(t) \/ ClobPost(t) \/ AsyncPost(t) \/ AsyncPosted(t)
    PROVE  CallsInv'
<1> DEFINE k == task[t]
           n == Len(k.call.args)
<1>1. /\ RightTask(k) /\ CallInv(client, t, k, orders) /\ OrdersAreKept(orders)
      /\ CacheIsOfLookups(coordinates) /\ DOMAIN k = TaskKeys
    BY DEF Inv, CallsInv, RightTask
<1>2. /\ k.call.op = "post" /\ UNCHANGED <<client, coordinates>>
      /\ k.phase \in {"ready", "waiting"}
    BY DEF SecurePost, ClobPost, AsyncPost, AsyncPosted, Op, Is, Sent
<1>3. n \in Nat
    BY <1>1, <1>2, PostHasOrders DEF RightTask
<1>4. k.told.kind = "none" /\ k.told.canceled = {} /\ k.told.missed = {}
      /\ DOMAIN k.told = ToldKeys
    BY <1>1, <1>2 DEF CallInv, CallGoes
<1>5. ASSUME NEW wires, Wired(client, k, wires), k.phase = "ready",
             NEW reply \in Serve(t, wires), orders' = reply.orders,
             NEW told, TellsOfPost(told, reply), NEW j, Ends(j, k, told, reply.lost),
             task' = [task EXCEPT ![t] = j]
      PROVE  CallsInv'
    <2>1. SameCall(j, k) /\ j.phase = "done" /\ j.built = k.built /\ j.tried = k.tried
          /\ j.told = told
        BY <1>5 DEF Ends
    <2>2. /\ Moves({t}, orders, reply.orders)
          /\ \A id \in DOMAIN reply.orders : id[1] = t =>
               /\ id[2] \in 1..n
               /\ reply.orders[id].wire =
                    WireOf(client, k.call, k.call.args[id[2]], PairOf(reply.orders[id].wire))
               /\ Checked(client, k.call.args[id[2]])
          /\ reply.ok =>
               /\ Counts(reply.rows, n)
               /\ RowsFit(t, reply.rows, reply.orders)
        BY <1>2, <1>5, ServedAsAsked
    <2>3. told.kind = "rows" => Rows(j, told.rows) /\ ToldRowsFit(t, told.rows, reply.orders)
        <3>1. /\ Adapted(reply).kind = "rows" =>
                   /\ Counts(Adapted(reply).rows, n)
                   /\ ToldRowsFit(t, Adapted(reply).rows, reply.orders)
            <4> HIDE DEF n
            <4>1. QED
                BY <1>3, <2>2, AdaptedTells
        <3>2. QED
            BY <1>5, <2>1, <3>1 DEF Rows, SameCall, TellsOfPost
    <2>4. CallInv(client, t, j, reply.orders)
        BY <1>1, <1>2, <1>5, <2>1, <2>2, <2>3, Posts DEF TellsOfPost
    <2>5. QED
        BY <1>1, <1>2, <1>5, <2>2, <2>4, TaskActs
<1>6. CASE SecurePost(t)
    <2>1. client = "secure" /\ k.phase = "ready"
        BY <1>6 DEF SecurePost, Is
    <2>2. Wired(client, k, k.built)
        BY <1>1, <1>2, <2>1, BuiltIsWired DEF CallInv
    <2>3. PICK reply \in Serve(t, k.built) :
            /\ orders' = reply.orders
            /\ task' = [task EXCEPT ![t] = [Returned(k, Adapted(reply)) EXCEPT
                                             !.lost = reply.lost]]
        BY <1>6 DEF SecurePost
    <2>4. TellsOfPost(Adapted(reply), reply)
        BY DEF Adapted, Untold, ToldKeys, TellsOfPost
    <2> DEFINE told == Adapted(reply)
               j == [Returned(k, told) EXCEPT !.lost = reply.lost]
    <2>5. Ends(j, k, told, reply.lost) /\ task' = [task EXCEPT ![t] = j]
        BY <1>1, <2>3, ReturnedEnds
    <2>6. QED
        <3> HIDE DEF j
        <3>1. QED
            BY <1>5, <2>1, <2>2, <2>3, <2>4, <2>5
<1>7. CASE ClobPost(t)
    <2> DEFINE wires == [i \in DOMAIN k.built |->
                           IF k.call.batch
                           THEN BatchEntry(k.built[i], k.call.asked, k.call.postOnly)
                           ELSE Submit(k.built[i], k.call.asked, k.call.postOnly)]
    <2>1. client = "clob" /\ k.phase = "ready"
        BY <1>7 DEF ClobPost, Is
    <2>2. Wired(client, k, wires)
        BY <1>1, <1>2, <2>1, ClobIsWired DEF CallInv
    <2>3. PICK reply \in Serve(t, wires) :
            /\ orders' = reply.orders
            /\ task' = [task EXCEPT ![t] = [Returned(k,
                 [Untold EXCEPT !.kind = IF reply.ok THEN "raw" ELSE "error"]) EXCEPT
                                             !.lost = reply.lost]]
        BY <1>7 DEF ClobPost
    <2> DEFINE told == [Untold EXCEPT !.kind = IF reply.ok THEN "raw" ELSE "error"]
    <2>4. TellsOfPost(told, reply)
        <3>1. /\ told.kind \in {"raw", "error"} /\ DOMAIN told = ToldKeys
              /\ told.canceled = {} /\ told.missed = {}
            BY Telling
        <3> HIDE DEF told
        <3>2. QED
            BY <3>1 DEF TellsOfPost
    <2> DEFINE j == [Returned(k, told) EXCEPT !.lost = reply.lost]
    <2>5. Ends(j, k, told, reply.lost) /\ task' = [task EXCEPT ![t] = j]
        BY <1>1, <2>3, ReturnedEnds
    <2>6. QED
        <3> HIDE DEF wires, told, j
        <3>1. QED
            BY <1>5, <2>1, <2>2, <2>3, <2>4, <2>5
<1>8. CASE AsyncPost(t)
    <2>1. client = "async" /\ k.phase = "ready"
        BY <1>8 DEF AsyncPost, Is
    <2>2. Wired(client, k, k.built)
        BY <1>1, <1>2, <2>1, BuiltIsWired DEF CallInv
    <2>3. PICK reply \in Serve(t, k.built) : Sent(t, reply)
        BY <1>8 DEF AsyncPost
    <2> DEFINE j == SentWith(k, reply)
    <2>4. task' = [task EXCEPT ![t] = j] /\ orders' = reply.orders
        BY <2>3, SentIsSentWith
    <2>5. /\ SameCall(j, k) /\ j.phase = "waiting" /\ j.tried = k.tried
          /\ j.built = k.built /\ j.told = k.told
          /\ j.reply = [reply EXCEPT !.orders = <<>>]
        BY <1>1, SentFields
    <2> HIDE DEF j
    <2>7. /\ DOMAIN reply = ReplyKeys /\ Moves({t}, orders, reply.orders)
          /\ \A id \in DOMAIN reply.orders : id[1] = t =>
               /\ id[2] \in 1..n
               /\ reply.orders[id].wire =
                    WireOf(client, k.call, k.call.args[id[2]], PairOf(reply.orders[id].wire))
               /\ Checked(client, k.call.args[id[2]])
          /\ reply.ok =>
               /\ Counts(reply.rows, n)
               /\ RowsFit(t, reply.rows, reply.orders)
        BY <1>2, <2>1, <2>2, ServedAsAsked
    <2>6. j.reply.ok = reply.ok /\ j.reply.rows = reply.rows
        BY <2>5, <2>7, ReplyFields
    <2>8. CallInv(client, t, j, reply.orders)
        BY <1>1, <1>2, <1>4, <2>5, <2>6, <2>7, Posts DEF Rows, SameCall
    <2>9. QED
        BY <1>1, <1>2, <2>4, <2>7, <2>8, TaskActs
<1>9. CASE AsyncPosted(t)
    <2> DEFINE told == Adapted(k.reply)
               j == Returned(k, told)
    <2>1. task' = [task EXCEPT ![t] = j] /\ UNCHANGED orders /\ k.phase = "waiting"
        BY <1>9 DEF AsyncPosted, Is
    <2>2. Ends(j, k, told, k.lost)
        BY <1>1, ReturnedEnds
    <2>3. k.reply.ok => Rows(k, k.reply.rows) /\ RowsFit(t, k.reply.rows, orders)
        BY <1>1, <1>2, <2>1 DEF CallInv, RowsAreTrue
    <2>4. /\ DOMAIN told = ToldKeys /\ told.kind \in {"rows", "error"}
          /\ told.canceled = {} /\ told.missed = {}
          /\ told.kind = "rows" => /\ Counts(told.rows, n)
                                   /\ ToldRowsFit(t, told.rows, orders)
        <3>1. k.reply.ok => /\ Counts(k.reply.rows, n)
                            /\ RowsFit(t, k.reply.rows, orders)
            BY <2>3 DEF Rows
        <3> HIDE DEF n
        <3>2. QED
            BY <1>3, <3>1, AdaptedTells
    <2>5. \A id \in DOMAIN orders : id[1] = t =>
               /\ id[2] \in 1..n
               /\ orders[id].wire =
                    WireOf(client, k.call, k.call.args[id[2]], PairOf(orders[id].wire))
               /\ Checked(client, k.call.args[id[2]])
        BY <1>1 DEF CallInv, HasPosted
    <2> HIDE DEF told, j
    <2>6. CallInv(client, t, j, orders)
        BY <1>1, <1>2, <2>1, <2>2, <2>4, <2>5, NothingMoves, Posts DEF Ends, Rows, SameCall
    <2>7. QED
        BY <1>1, <1>2, <2>1, <2>6, TaskActsAlone
<1>10. QED
    BY <1>6, <1>7, <1>8, <1>9
-----------------------------------------------------------------------------
(* Cancelling by id. *)

(* What a DELETE leaves: ok only where the id is cancelled now, and without   *)
(* an answer nothing is cancelled or the answer was lost.                    *)
DeletedRightly(t, id, reply) ==
    /\ DOMAIN reply = ReplyKeys /\ Moves({t}, orders, reply.orders)
    /\ DOMAIN reply.orders = DOMAIN orders
    /\ reply.ok => Gone({id}, reply.orders)
    /\ ~reply.ok /\ ~reply.lost => reply.orders = orders
    /\ \A i \in DOMAIN reply.orders : reply.orders[i].by = t =>
         (i \in DOMAIN orders /\ orders[i].by = t) \/ i = id

LEMMA Deletes ==
    ASSUME OrdersAreKept(orders), NEW t, NEW id, NEW reply \in Delete(t, id)
    PROVE  DeletedRightly(t, id, reply)
<1>1. CASE reply = [NoReply EXCEPT !.orders = orders]
    <2>1. reply.orders = orders /\ ~reply.ok /\ DOMAIN reply = ReplyKeys
        BY <1>1 DEF NoReply, ReplyKeys
    <2>2. QED
        BY <2>1, NothingMoves DEF DeletedRightly
<1>2. CASE reply # [NoReply EXCEPT !.orders = orders]
    <2> DEFINE new == Cancelled(t, {id})
    <2>1. id \in Open
        BY <1>2 DEF Delete
    <2>2. PICK ok \in BOOLEAN :
            reply = [NoReply EXCEPT !.orders = new, !.ok = ok, !.lost = ~ok]
        BY <1>2, <2>1 DEF Delete
    <2>3. /\ Moves({t}, orders, new) /\ DOMAIN new = DOMAIN orders /\ Gone({id}, new)
          /\ \A i \in DOMAIN orders \ {id} : new[i] = orders[i]
        <3>1. {id} \subseteq Open
            BY <2>1
        <3>2. CancelledRightly(t, {id}, new)
            BY <3>1, CancelledMoves
        <3>3. QED
            BY <3>2 DEF CancelledRightly
    <2> HIDE DEF new
    <2>4. /\ reply.orders = new /\ reply.ok = ok /\ reply.lost = ~ok
          /\ DOMAIN reply = ReplyKeys
        BY <2>2 DEF NoReply, ReplyKeys
    <2>5. QED
        BY <2>3, <2>4 DEF DeletedRightly
<1>3. QED
    BY <1>1, <1>2

(* A task one id further. *)
OneFurther(j, k, ok, lost) ==
    /\ SameCall(j, k) /\ j.tried = k.tried + 1 /\ DOMAIN j.told = ToldKeys
    /\ j.told.canceled = IF ok THEN k.told.canceled \cup {NextId(k)} ELSE k.told.canceled
    /\ j.told.missed = IF ok THEN k.told.missed ELSE k.told.missed \cup {NextId(k)}
    /\ \/ /\ k.tried + 1 = Len(k.call.ids) /\ j.phase = "done" /\ j.told.kind = "tally"
       \/ /\ k.tried + 1 # Len(k.call.ids) /\ j.phase = "ready"
          /\ j.told.kind = k.told.kind
    /\ j.lost <=> lost

LEMMA TalliedFields ==
    ASSUME NEW k, DOMAIN k = TaskKeys, DOMAIN k.told = ToldKeys, NEW ok
    PROVE  /\ OneFurther(Tallied(k, ok), k, ok, k.lost)
           /\ DOMAIN Tallied(k, ok) = TaskKeys
<1> DEFINE told == IF ok THEN [k.told EXCEPT !.canceled = @ \cup {NextId(k)}]
                   ELSE [k.told EXCEPT !.missed = @ \cup {NextId(k)}]
           next == [k EXCEPT !.tried = @ + 1, !.phase = "ready", !.told = told]
           last == [told EXCEPT !.kind = "tally"]
<1>1. /\ DOMAIN told = ToldKeys /\ told.kind = k.told.kind
      /\ told.canceled = IF ok THEN k.told.canceled \cup {NextId(k)} ELSE k.told.canceled
      /\ told.missed = IF ok THEN k.told.missed ELSE k.told.missed \cup {NextId(k)}
    BY DEF ToldKeys
<1> HIDE DEF told
<1>2. /\ DOMAIN last = ToldKeys /\ last.kind = "tally"
      /\ last.canceled = told.canceled /\ last.missed = told.missed
    BY <1>1 DEF ToldKeys
<1> HIDE DEF last
<1>3. /\ DOMAIN next = TaskKeys /\ next.call = k.call /\ next.existing = k.existing
      /\ next.filled = k.filled /\ next.tried = k.tried + 1 /\ next.phase = "ready"
      /\ next.told = told /\ next.lost = k.lost
    BY DEF TaskKeys
<1>4. Tallied(k, ok) = IF next.tried = Len(k.call.ids) THEN Returned(next, last) ELSE next
    BY DEF Tallied, told, last
<1> HIDE DEF next
<1>5. Ends(Returned(next, last), next, last, next.lost)
    BY <1>3, ReturnedEnds
<1>6. CASE next.tried = Len(k.call.ids)
    BY <1>1, <1>2, <1>3, <1>4, <1>5, <1>6 DEF OneFurther, Ends, SameCall
<1>7. CASE next.tried # Len(k.call.ids)
    BY <1>1, <1>2, <1>3, <1>4, <1>7 DEF OneFurther, SameCall
<1>8. QED
    BY <1>6, <1>7

LEMMA LostAside ==
    ASSUME NEW i, DOMAIN i = TaskKeys, NEW k, NEW ok, NEW lost, NEW before,
           OneFurther(i, k, ok, before), NEW j, j = [i EXCEPT !.lost = lost]
    PROVE  OneFurther(j, k, ok, lost)
<1>1. /\ DOMAIN j = DOMAIN i /\ j.call = i.call /\ j.existing = i.existing
      /\ j.filled = i.filled /\ j.tried = i.tried /\ j.phase = i.phase
      /\ j.told = i.told /\ j.lost = lost
    BY DEF TaskKeys
<1>2. QED
    BY <1>1 DEF OneFurther, SameCall

(* All that the task has cancelled is noted, unless an answer was lost. *)
Noted(t, k, ok, lost, new) ==
    ~lost => /\ ~k.lost
             /\ \A id \in DOMAIN new : new[id].by = t =>
                  id \in k.told.canceled \/ (ok /\ id = NextId(k))

(* An id is noted as it was answered. *)
LEMMA Tallying ==
    ASSUME NEW c, NEW t, NEW k, NEW o, NEW new, CallInv(c, t, k, o), Moves({t}, o, new),
           k.call.op = "cancel", k.call.ids # <<>>, k.phase \in {"ready", "waiting"},
           c = "clob" \/ ~BadIds(k), NEW ok,
           ok => Gone({NextId(k)}, new),
           NEW lost, Noted(t, k, ok, lost, new),
           \A id \in DOMAIN new : id[1] = t => id \in DOMAIN o,
           Len(k.call.ids) \in Nat,
           NEW j, OneFurther(j, k, ok, lost)
    PROVE  CallInv(c, t, j, new)
<1>1. CallGoes(c, j, new)
    <2>1. CallGoes(c, k, o) /\ k.told.kind = "none"
        BY DEF CallInv, CallGoes
    <2>2. /\ j.call = k.call /\ j.existing = k.existing /\ j.filled = k.filled
          /\ j.tried = k.tried + 1 /\ DOMAIN j.told = ToldKeys
          /\ j.phase \in {"ready", "done"} /\ j.told.kind \in {"none", "tally"}
          /\ j.phase # "done" => j.told.kind = "none"
          /\ j.phase = "done" => j.told.kind # "none"
        BY <2>1 DEF OneFurther, SameCall
    <2>3. /\ k.existing \subseteq DOMAIN new /\ k.filled \subseteq BoughtIn(new)
          /\ ToSet(k.call.ids) \subseteq DOMAIN new \cup {NoId}
        BY <2>1, BoughtStay DEF CallGoes, Moves
    <2>4. QED
        BY <2>1, <2>2, <2>3 DEF CallGoes, Phases, Kinds
<1>2. BuiltAsAsked(c, j)
    BY DEF BuiltAsAsked, SameCall, OneFurther
<1>3. HasPosted(c, t, j, new)
    BY DEF CallInv, HasPosted
<1>4. HasActed(c, t, j, new)
    <2>1. k.told.kind = "none"
        BY DEF CallInv, CallGoes
    <2>2. j.told.kind # "input" /\ j.phase \in {"ready", "done"} /\ j.call = k.call
        BY <2>1 DEF OneFurther, SameCall
    <2>3. BadIds(j) <=> BadIds(k)
        BY <2>2 DEF BadIds
    <2>4. QED
        BY <2>2, <2>3 DEF HasActed
<1>5. RowsAreTrue(t, j, new)
    BY DEF CallInv, CallGoes, RowsAreTrue, OneFurther, SameCall
<1>6. SweepsRightly(t, j, new) /\ BalancesRightly(j, new)
    BY DEF SweepsRightly, BalancesRightly, SameCall, OneFurther
<1>7. Tallies(t, j, new)
    <2>1. /\ Tallies(t, k, o) /\ k.told.kind = "none" /\ k.tried \in Nat
          /\ k.tried < Len(k.call.ids)
        BY DEF CallInv, CallGoes, Tallies
    <2>2. /\ j.call = k.call /\ j.tried = k.tried + 1
          /\ j.phase # "done" => j.tried < Len(k.call.ids)
          /\ j.phase \in {"ready", "done"} /\ j.told.kind \in {"none", "tally"}
          /\ j.told.kind = "tally" => j.tried = Len(k.call.ids)
        BY <2>1 DEF OneFurther, SameCall
    <2>3. j.told.canceled \cup j.told.missed = {k.call.ids[i] : i \in 1..j.tried}
        <3>1. k.told.canceled \cup k.told.missed = {k.call.ids[i] : i \in 1..k.tried}
            BY <2>1 DEF Tallies
        <3>2. {k.call.ids[i] : i \in 1..(k.tried + 1)} =
                {k.call.ids[i] : i \in 1..k.tried} \cup {NextId(k)}
            BY <2>1 DEF NextId
        <3>3. j.told.canceled \cup j.told.missed =
                k.told.canceled \cup k.told.missed \cup {NextId(k)}
            BY DEF OneFurther
        <3>4. QED
            BY <2>2, <3>1, <3>2, <3>3
    <2>4. Gone(j.told.canceled, new)
        <3>1. Gone(k.told.canceled, new)
            BY <2>1, GoneStay DEF Tallies
        <3>2. QED
            BY <3>1 DEF Gone, OneFurther
    <2>5. ~j.lost => \A id \in DOMAIN new : new[id].by = t => id \in j.told.canceled
        BY DEF OneFurther, Noted
    <2>6. QED
        BY <2>2, <2>3, <2>4, <2>5 DEF Tallies
<1>8. QED
    BY <1>1, <1>2, <1>3, <1>4, <1>5, <1>6, <1>7 DEF CallInv
-----------------------------------------------------------------------------
(* A DELETE answered at once. *)
LEMMA CancelsOne ==
    ASSUME CallsInv, Inv, NEW t \in Tasks, task[t].call.op = "cancel",
           task[t].call.ids # <<>>, task[t].phase = "ready",
           client = "clob" \/ ~BadIds(task[t]),
           NEW reply \in Delete(t, NextId(task[t])), orders' = reply.orders,
           task' = [task EXCEPT ![t] = [Tallied(task[t], reply.ok) EXCEPT
                                          !.lost = task[t].lost \/ reply.lost]],
           UNCHANGED <<client, coordinates>>
    PROVE  CallsInv'
<1> DEFINE k == task[t]
           j == [Tallied(k, reply.ok) EXCEPT !.lost = k.lost \/ reply.lost]
<1>1. /\ CallInv(client, t, k, orders) /\ OrdersAreKept(orders) /\ DOMAIN k = TaskKeys
      /\ k.call \in PlannedCalls /\ CacheIsOfLookups(coordinates)
    BY DEF CallsInv, Inv, RightTask
<1>2. DeletedRightly(t, NextId(k), reply)
    BY <1>1, Deletes
<1>3. DOMAIN k.told = ToldKeys /\ Tallies(t, k, orders) /\ Len(k.call.ids) \in Nat
    BY <1>1, IdsAreListed DEF CallInv, CallGoes
<1>4. OneFurther(j, k, reply.ok, k.lost \/ reply.lost)
    <2> DEFINE i == Tallied(k, reply.ok)
               lost == k.lost \/ reply.lost
    <2>1. OneFurther(i, k, reply.ok, k.lost) /\ DOMAIN i = TaskKeys
        BY <1>1, <1>3, TalliedFields
    <2>2. j = [i EXCEPT !.lost = lost]
        OBVIOUS
    <2> HIDE DEF i, j, lost
    <2>3. OneFurther(j, k, reply.ok, lost)
        BY <2>1, <2>2, LostAside
    <2>4. QED
        BY <2>3 DEF lost
<1>0. task' = [task EXCEPT ![t] = j]
    OBVIOUS
<1> HIDE DEF j
<1>5. ASSUME ~(k.lost \/ reply.lost)
      PROVE  /\ ~k.lost
             /\ \A id \in DOMAIN orders' : orders'[id].by = t =>
                  id \in k.told.canceled \/ (reply.ok /\ id = NextId(k))
    <2>1. \A id \in DOMAIN orders : orders[id].by = t => id \in k.told.canceled
        BY <1>3, <1>5 DEF Tallies
    <2>2. CASE reply.ok
        BY <1>2, <1>5, <2>1, <2>2 DEF DeletedRightly
    <2>3. CASE ~reply.ok
        BY <1>2, <1>5, <2>1, <2>3 DEF DeletedRightly
    <2>4. QED
        BY <1>5, <2>2, <2>3
<1>6. /\ Moves({t}, orders, orders') /\ (reply.ok => Gone({NextId(k)}, orders'))
      /\ \A id \in DOMAIN orders' : id[1] = t => id \in DOMAIN orders
    BY <1>2 DEF DeletedRightly
<1>7. CallInv(client, t, j, orders')
    <2> DEFINE lost == k.lost \/ reply.lost
    <2>1. OneFurther(j, k, reply.ok, lost)
        BY <1>4
    <2>2. Noted(t, k, reply.ok, lost, orders')
        BY <1>5 DEF Noted
    <2> HIDE DEF lost
    <2> DEFINE ok == reply.ok
    <2>3. ok => Gone({NextId(k)}, orders')
        BY <1>6
    <2>4. OneFurther(j, k, ok, lost) /\ Noted(t, k, ok, lost, orders')
        BY <2>1, <2>2
    <2> HIDE DEF ok
    <2>5. k.phase \in {"ready", "waiting"} /\ (client = "clob" \/ ~BadIds(k))
        OBVIOUS
    <2>6. QED
        BY <1>1, <1>3, <1>6, <2>3, <2>4, <2>5, Tallying
<1>8. QED
    BY <1>0, <1>1, <1>6, <1>7, TaskActs

LEMMA CancelsRightly ==
    ASSUME CallsInv, Inv, NEW t \in Tasks,
           SecureCancel(t) \/ ClobCancel(t) \/ AsyncCancel(t) \/ AsyncCanceled(t)
    PROVE  CallsInv'
<1> DEFINE k == task[t]
<1>1. /\ RightTask(k) /\ CallInv(client, t, k, orders) /\ OrdersAreKept(orders)
      /\ CacheIsOfLookups(coordinates) /\ DOMAIN k = TaskKeys /\ k.call \in PlannedCalls
    BY DEF Inv, CallsInv, RightTask
<1>2. k.call.op = "cancel" /\ UNCHANGED <<client, coordinates>>
    BY DEF SecureCancel, ClobCancel, AsyncCancel, AsyncCanceled, Op, Sent
<1>3. /\ Tallies(t, k, orders) /\ DOMAIN k.told = ToldKeys
      /\ Len(k.call.ids) \in Nat
      /\ k.phase # "done" => k.told.kind = "none"
    BY <1>1, IdsAreListed DEF CallInv, CallGoes
<1>4. ASSUME BadIds(k), client # "clob", k.phase = "ready", UNCHANGED orders,
             task' = [task EXCEPT ![t] = Raised(k, "input")]
      PROVE  CallsInv'
    <2>1. NothingDone(t, orders)
        BY <1>1, <1>4, NothingBefore
    <2>2. Ends(Raised(k, "input"), k, [Untold EXCEPT !.kind = "input"], k.lost)
        BY <1>1, ReturnedEnds DEF Raised
    <2>3. CallInv(client, t, Raised(k, "input"), orders)
        BY <1>1, <1>2, <1>4, <2>1, <2>2, GivesUp
    <2>4. QED
        BY <1>1, <1>2, <1>4, <2>3, TaskActsAlone
<1>5. CASE SecureCancel(t)
    <2>1. client = "secure" /\ k.phase = "ready"
        BY <1>5 DEF SecureCancel, Is
    <2>2. CASE BadIds(k)
        BY <1>4, <1>5, <2>1, <2>2 DEF SecureCancel
    <2>3. CASE ~BadIds(k)
        <3>1. PICK reply \in Delete(t, NextId(k)) :
                /\ orders' = reply.orders
                /\ task' = [task EXCEPT ![t] = [Tallied(k, reply.ok) EXCEPT
                                                !.lost = k.lost \/ reply.lost]]
            BY <1>5, <2>3, Zenon DEF SecureCancel
        <3>2. QED
            BY <1>2, <2>1, <2>3, <3>1, CancelsOne, Zenon DEF BadIds
    <2>4. QED
        BY <2>2, <2>3
<1>6. CASE ClobCancel(t)
    <2>1. client = "clob" /\ k.phase = "ready"
        BY <1>6 DEF ClobCancel, Is
    <2>2. CASE k.call.ids = <<>>
        <3> DEFINE told == [Untold EXCEPT !.kind = "tally"]
                   j == Returned(k, told)
        <3>1. task' = [task EXCEPT ![t] = j] /\ UNCHANGED orders
            BY <1>6, <2>2, Zenon DEF ClobCancel
        <3>2. Ends(j, k, told, k.lost)
            BY <1>1, ReturnedEnds
        <3>3. /\ DOMAIN told = ToldKeys /\ told.kind = "tally" /\ told.canceled = {}
              /\ told.missed = {}
            BY Telling
        <3> HIDE DEF told, j
        <3>4. /\ j.call = k.call /\ j.existing = k.existing /\ j.filled = k.filled
              /\ j.phase = "done" /\ j.tried = k.tried /\ j.told = told /\ j.lost = k.lost
              /\ j.built = k.built
            BY <3>2 DEF Ends, SameCall
        <3>5. CallGoes(client, j, orders) /\ BuiltAsAsked(client, j)
            BY <1>1, <1>2, <2>1, <3>3, <3>4
               DEF CallInv, CallGoes, BuiltAsAsked, Phases, Kinds
        <3>6. HasPosted(client, t, j, orders) /\ HasActed(client, t, j, orders)
            BY <1>1, <1>2, <2>1, <3>3, <3>4 DEF CallInv, HasPosted, HasActed
        <3>7. /\ RowsAreTrue(t, j, orders) /\ SweepsRightly(t, j, orders)
              /\ BalancesRightly(j, orders)
            BY <1>2, <3>3, <3>4 DEF RowsAreTrue, SweepsRightly, BalancesRightly
        <3>8. Tallies(t, j, orders)
            <4>1. k.tried = 0 /\ k.told.kind = "none"
                BY <1>2, <1>3, <2>1, <2>2 DEF Tallies
            <4>2. {k.call.ids[i] : i \in 1..0} = {}
                OBVIOUS
            <4>3. k.told.canceled = {}
                BY <1>2, <1>3, <4>1, <4>2 DEF Tallies
            <4>4. Len(k.call.ids) = 0
                <5>1. k.call.ids \in Seq({})
                    BY <2>2
                <5>2. QED
                    BY <2>2, <5>1
            <4>5. k.phase = "ready" /\ ~k.lost => \A id \in DOMAIN orders : orders[id].by # t
                BY <1>2, <1>3, <4>3 DEF Tallies
            <4>6. QED
                BY <1>2, <2>1, <2>2, <3>3, <3>4, <4>1, <4>2, <4>4, <4>5 DEF Tallies, Gone
        <3>9. CallInv(client, t, j, orders)
            BY <3>5, <3>6, <3>7, <3>8 DEF CallInv
        <3>10. QED
            BY <1>1, <1>2, <3>1, <3>9, TaskActsAlone
    <2>3. CASE k.call.ids # <<>>
        <3>1. PICK reply \in Delete(t, NextId(k)) :
                /\ orders' = reply.orders
                /\ task' = [task EXCEPT ![t] = [Tallied(k, reply.ok) EXCEPT
                                                !.lost = k.lost \/ reply.lost]]
            BY <1>6, <2>3, Zenon DEF ClobCancel
        <3>2. QED
            BY <1>2, <2>1, <2>3, <3>1, CancelsOne, Zenon
    <2>4. QED
        BY <2>2, <2>3
<1>7. CASE AsyncCancel(t)
    <2>1. client = "async" /\ k.phase = "ready"
        BY <1>7 DEF AsyncCancel, Is
    <2>2. CASE BadIds(k)
        BY <1>4, <1>7, <2>1, <2>2 DEF AsyncCancel
    <2>3. CASE ~BadIds(k)
        <3>1. PICK reply \in Delete(t, NextId(k)) : Sent(t, reply)
            BY <1>7, <2>3, Zenon DEF AsyncCancel
        <3> DEFINE j == SentWith(k, reply)
        <3>2. task' = [task EXCEPT ![t] = j] /\ orders' = reply.orders
            BY <3>1, SentIsSentWith
        <3>3. DeletedRightly(t, NextId(k), reply)
            BY <1>1, Deletes
        <3>4. /\ SameCall(j, k) /\ j.phase = "waiting"
              /\ j.lost <=> (k.lost \/ reply.lost)
              /\ j.tried = k.tried /\ j.built = k.built /\ j.told = k.told
              /\ j.reply = [reply EXCEPT !.orders = <<>>]
            BY <1>1, SentFields
        <3> HIDE DEF j
        <3>5. j.reply.ok = reply.ok
            BY <3>3, <3>4, ReplyFields DEF DeletedRightly
        <3>6. /\ j.call = k.call /\ j.existing = k.existing /\ j.filled = k.filled
              /\ NextId(j) = NextId(k) /\ (BadIds(j) <=> BadIds(k))
            BY <3>4 DEF SameCall, NextId, BadIds
        <3>7. /\ Moves({t}, orders, orders') /\ DOMAIN orders' = DOMAIN orders
            BY <3>2, <3>3 DEF DeletedRightly
        <3>8. CallGoes(client, j, orders') /\ BuiltAsAsked(client, j)
            BY <1>1, <1>2, <2>1, <3>4, <3>6, <3>7, BoughtStay
               DEF CallInv, CallGoes, BuiltAsAsked, Phases, Kinds
        <3>9. HasPosted(client, t, j, orders') /\ HasActed(client, t, j, orders')
            BY <1>1, <1>2, <1>3, <2>1, <2>3, <3>4, <3>6, <3>7
               DEF CallInv, HasPosted, HasActed
        <3>10. /\ RowsAreTrue(t, j, orders') /\ SweepsRightly(t, j, orders')
               /\ BalancesRightly(j, orders')
            BY <1>2, <1>3, <2>1, <3>4, <3>6 DEF RowsAreTrue, SweepsRightly, BalancesRightly
        <3>11. Tallies(t, j, orders')
            <4>1. k.call.ids # <<>>
                BY <2>3 DEF BadIds
            <4>2. Gone(k.told.canceled, orders')
                BY <1>2, <1>3, <3>7, GoneStay DEF Tallies
            <4>3. j.reply.ok => Gone({NextId(j)}, orders')
                BY <3>2, <3>3, <3>5, <3>6 DEF DeletedRightly
            <4>4. ~j.lost => \A id \in DOMAIN orders' : orders'[id].by = t =>
                     id \in j.told.canceled \/ (j.reply.ok /\ id = NextId(j))
                <5>1. SUFFICES ASSUME ~k.lost, ~reply.lost
                               PROVE  \A id \in DOMAIN orders' : orders'[id].by = t =>
                                        id \in k.told.canceled \/ (reply.ok /\ id = NextId(k))
                    BY <3>4, <3>5, <3>6
                <5>2. \A id \in DOMAIN orders : orders[id].by = t => id \in k.told.canceled
                    BY <1>2, <1>3, <2>1, <5>1 DEF Tallies
                <5>3. CASE reply.ok
                    BY <3>2, <3>3, <5>2, <5>3 DEF DeletedRightly
                <5>4. CASE ~reply.ok
                    BY <3>2, <3>3, <5>1, <5>2, <5>4 DEF DeletedRightly
                <5>5. QED
                    BY <5>3, <5>4
            <4>5. QED
                BY <1>2, <1>3, <2>1, <2>3, <3>4, <3>6, <4>1, <4>2, <4>3, <4>4 DEF Tallies
        <3>12. CallInv(client, t, j, orders')
            BY <3>8, <3>9, <3>10, <3>11 DEF CallInv
        <3>13. QED
            BY <1>1, <1>2, <3>2, <3>7, <3>12, TaskActs
    <2>4. QED
        BY <2>2, <2>3
<1>8. CASE AsyncCanceled(t)
    <2> DEFINE ok == k.reply.ok
               j == Tallied(k, ok)
    <2>1. /\ client = "async" /\ k.phase = "waiting" /\ UNCHANGED orders
          /\ task' = [task EXCEPT ![t] = j]
        BY <1>8 DEF AsyncCanceled, Is
    <2>2. OneFurther(j, k, ok, k.lost)
        BY <1>1, <1>3, TalliedFields
    <2>3. k.call.ids # <<>> /\ (ok => Gone({NextId(k)}, orders))
        BY <1>2, <1>3, <2>1 DEF Tallies, BadIds
    <2>4. ~k.lost => \A id \in DOMAIN orders : orders[id].by = t =>
                        id \in k.told.canceled \/ (ok /\ id = NextId(k))
        BY <1>2, <1>3, <2>1 DEF Tallies
    <2>5. client = "clob" \/ ~BadIds(k)
        BY <1>2, <1>3, <2>1 DEF Tallies
    <2>8. Noted(t, k, ok, k.lost, orders)
        BY <2>4 DEF Noted
    <2> HIDE DEF j, ok
    <2> DEFINE lost == k.lost
    <2>9. OneFurther(j, k, ok, lost) /\ Noted(t, k, ok, lost, orders)
        BY <2>2, <2>8
    <2> HIDE DEF lost
    <2>6. CallInv(client, t, j, orders)
        BY <1>1, <1>2, <1>3, <2>1, <2>2, <2>3, <2>5, <2>9, NothingMoves, Tallying
    <2>7. QED
        BY <1>1, <1>2, <2>1, <2>6, TaskActsAlone
<1>9. QED
    BY <1>5, <1>6, <1>7, <1>8
-----------------------------------------------------------------------------
(* Cancelling a market, or everything. *)

(* What a sweep leaves of the server's orders. *)
SweptRightly(t, ids, reply) ==
    /\ DOMAIN reply = ReplyKeys /\ Moves({t}, orders, reply.orders)
    /\ DOMAIN reply.orders = DOMAIN orders
    /\ reply.ok => Gone(ids, reply.orders) /\ Gone(reply.ids, reply.orders)
    /\ \A i \in DOMAIN orders : reply.orders[i].by = t => orders[i].by = t \/ i \in ids

LEMMA SweepLeaves ==
    ASSUME OrdersAreKept(orders), NEW t, NEW ids, ids \subseteq Open,
           NEW reply \in Sweep(t, ids)
    PROVE  SweptRightly(t, ids, reply)
<1>1. CASE reply = [NoReply EXCEPT !.orders = orders]
    <2>1. reply.orders = orders /\ ~reply.ok /\ DOMAIN reply = ReplyKeys
        BY <1>1 DEF NoReply, ReplyKeys
    <2>2. QED
        BY <2>1, NothingMoves DEF SweptRightly
<1>2. CASE reply # [NoReply EXCEPT !.orders = orders]
    <2> DEFINE new == Cancelled(t, ids)
    <2>1. PICK a \in [ok : BOOLEAN, listed : {ids, {}}] :
            reply = [NoReply EXCEPT !.orders = new, !.ok = a.ok, !.lost = ~a.ok,
                                    !.ids = a.listed]
        BY <1>2 DEF Sweep
    <2>2. CancelledRightly(t, ids, new)
        BY CancelledMoves
    <2> HIDE DEF new
    <2>3. /\ reply.orders = new /\ reply.ids = a.listed /\ DOMAIN reply = ReplyKeys
        BY <2>1 DEF NoReply, ReplyKeys
    <2>4. Gone(reply.ids, new)
        BY <2>2, <2>3 DEF CancelledRightly, Gone
    <2>5. QED
        BY <2>2, <2>3, <2>4 DEF CancelledRightly, SweptRightly
<1>3. QED
    BY <1>1, <1>2

(* What a call that sweeps has done: none of the market it means is open that *)
(* was there, and it has touched no other.                                   *)
LeavesNone(k, o) ==
    k.call.op = "cancelMarket" =>
        \A id \in k.existing : o[id].market = MeantMarket(k.call) => o[id].status # "open"

TouchesNoOther(t, k, o) ==
    k.call.op = "cancelMarket" =>
        \A id \in DOMAIN o : o[id].by = t => o[id].market = MeantMarket(k.call)

TellsOfSweep(k, told, o) ==
    /\ DOMAIN told = ToldKeys /\ told.missed = {} /\ Gone(told.canceled, o)
    /\ \/ told.kind = "error"
       \/ told.kind = "swept" /\ LeavesNone(k, o)

IsSweep(k) == k.call.op \in {"cancelMarket", "cancelAll"}

LEMMA SweepEnds ==
    ASSUME NEW c, NEW t, NEW k, NEW o, NEW new, CallInv(c, t, k, o), Moves({t}, o, new),
           DOMAIN new = DOMAIN o, IsSweep(k), k.phase # "idle",
           NEW told, TellsOfSweep(k, told, new), TouchesNoOther(t, k, new),
           NEW lost, NEW j, Ends(j, k, told, lost)
    PROVE  CallInv(c, t, j, new)
<1>1. /\ j.call = k.call /\ j.existing = k.existing /\ j.filled = k.filled
      /\ j.phase = "done" /\ j.tried = k.tried /\ j.built = k.built /\ j.told = told
    BY DEF Ends, SameCall
<1>2. CallGoes(c, j, new) /\ BuiltAsAsked(c, j)
    BY <1>1, BoughtStay
       DEF CallInv, CallGoes, BuiltAsAsked, Moves, IsSweep, TellsOfSweep, Phases, Kinds
<1>3. HasPosted(c, t, j, new)
    BY <1>1 DEF CallInv, HasPosted, IsSweep
<1>4. HasActed(c, t, j, new)
    BY <1>1 DEF HasActed, TellsOfSweep, IsSweep
<1>5. RowsAreTrue(t, j, new) /\ Tallies(t, j, new) /\ BalancesRightly(j, new)
    BY <1>1 DEF RowsAreTrue, Tallies, BalancesRightly, TellsOfSweep, IsSweep
<1>6. SweepsRightly(t, j, new)
    BY <1>1 DEF SweepsRightly, TellsOfSweep, TouchesNoOther, LeavesNone
<1>7. QED
    BY <1>2, <1>3, <1>4, <1>5, <1>6 DEF CallInv

LEMMA SweptTells ==
    ASSUME NEW k, NEW o, NEW reply, reply.ok => Gone(reply.ids, o) /\ LeavesNone(k, o)
    PROVE  TellsOfSweep(k, AdaptCancelResponse(reply), o)
<1>1. CASE reply.ok
    <2> DEFINE told == [Untold EXCEPT !.kind = "swept", !.canceled = reply.ids]
    <2>1. /\ DOMAIN told = ToldKeys /\ told.kind = "swept" /\ told.missed = {}
          /\ told.canceled = reply.ids
        BY DEF Untold, ToldKeys
    <2>2. AdaptCancelResponse(reply) = told
        BY <1>1, Zenon DEF AdaptCancelResponse
    <2> HIDE DEF told
    <2>3. QED
        BY <1>1, <2>1, <2>2 DEF TellsOfSweep
<1>2. CASE ~reply.ok
    <2>1. AdaptCancelResponse(reply) = [Untold EXCEPT !.kind = "error"]
        BY <1>2, Zenon DEF AdaptCancelResponse
    <2>2. QED
        BY <2>1, Telling DEF TellsOfSweep, Gone
<1>3. QED
    BY <1>1, <1>2

(* What a sweep is over.  The orders of the market it means are those of the  *)
(* market its token, or the name it was given, leads to.                     *)
LEMMA ScopeIsMeant ==
    ASSUME CallsInv, Inv, NEW t \in Tasks, IsSweep(task[t]), task[t].phase = "ready",
           NEW reply \in Sweep(t, Scope(task[t]))
    PROVE  /\ SweptRightly(t, Scope(task[t]), reply)
           /\ TouchesNoOther(t, task[t], reply.orders)
           /\ reply.ok => LeavesNone(task[t], reply.orders)
<1> DEFINE k == task[t]
<1>1. /\ CallInv(client, t, k, orders) /\ OrdersAreKept(orders)
      /\ SweepsRightly(t, k, orders)
    BY DEF CallsInv, CallInv
<1>2. Scope(k) \subseteq Open
    BY DEF Scope, InMarket
<1>3. SweptRightly(t, Scope(k), reply)
    BY <1>1, <1>2, SweepLeaves
<1>4. k.call.op = "cancelMarket" => Scope(k) = InMarket(k.pair[1])
    BY DEF Scope
<1>5. k.call.op = "cancelMarket" =>
        Scope(k) = {id \in Open : orders[id].market = MeantMarket(k.call)}
    BY <1>1, <1>4 DEF SweepsRightly, InMarket
<1>6. ASSUME k.call.op = "cancelMarket", NEW id \in DOMAIN orders
      PROVE  /\ reply.orders[id].market = orders[id].market
             /\ orders[id].status # "open" => reply.orders[id].status # "open"
             /\ id \in Scope(k) <=> id \in Open /\ orders[id].market = MeantMarket(k.call)
    BY <1>3, <1>5, <1>6 DEF SweptRightly, Moves
<1>7. TouchesNoOther(t, k, reply.orders)
    <2>1. SUFFICES ASSUME k.call.op = "cancelMarket", NEW id \in DOMAIN reply.orders,
                          reply.orders[id].by = t
                   PROVE  reply.orders[id].market = MeantMarket(k.call)
        BY DEF TouchesNoOther
    <2>2. id \in DOMAIN orders /\ (orders[id].by = t \/ id \in Scope(k))
        BY <1>3, <2>1 DEF SweptRightly
    <2>3. QED
        BY <1>1, <1>6, <2>1, <2>2 DEF SweepsRightly
<1>8. reply.ok => LeavesNone(k, reply.orders)
    <2>1. SUFFICES ASSUME reply.ok, k.call.op = "cancelMarket", NEW id \in k.existing,
                          reply.orders[id].market = MeantMarket(k.call)
                   PROVE  reply.orders[id].status # "open"
        BY DEF LeavesNone
    <2>2. id \in DOMAIN orders
        BY <1>1 DEF CallInv, CallGoes
    <2>3. CASE id \in Open
        BY <1>3, <1>6, <2>1, <2>2, <2>3 DEF SweptRightly, Gone
    <2>4. CASE id \notin Open
        BY <1>6, <2>1, <2>2, <2>4 DEF Open
    <2>5. QED
        BY <2>3, <2>4
<1>9. QED
    BY <1>3, <1>7, <1>8

LEMMA SweepsAtOnce ==
    ASSUME CallsInv, Inv, NEW t \in Tasks, IsSweep(task[t]), task[t].phase = "ready",
           NEW reply \in Sweep(t, Scope(task[t])), orders' = reply.orders,
           task' = [task EXCEPT ![t] = [Returned(task[t], AdaptCancelResponse(reply))
                                         EXCEPT !.lost = reply.lost]],
           UNCHANGED <<client, coordinates>>
    PROVE  CallsInv'
<1> DEFINE k == task[t]
           told == AdaptCancelResponse(reply)
           lost == reply.lost
           j == [Returned(k, told) EXCEPT !.lost = lost]
<1>1. /\ CallInv(client, t, k, orders) /\ DOMAIN k = TaskKeys
      /\ CacheIsOfLookups(coordinates)
    BY DEF CallsInv, Inv, RightTask
<1>2. /\ SweptRightly(t, Scope(k), reply) /\ TouchesNoOther(t, k, orders')
      /\ (reply.ok => LeavesNone(k, orders'))
    BY ScopeIsMeant
<1>3. /\ Moves({t}, orders, orders') /\ DOMAIN orders' = DOMAIN orders
      /\ (reply.ok => Gone(reply.ids, orders'))
    BY <1>2 DEF SweptRightly
<1>4. TellsOfSweep(k, told, orders')
    BY <1>2, <1>3, SweptTells
<1>5. task' = [task EXCEPT ![t] = j]
    OBVIOUS
<1>6. Ends(j, k, told, lost)
    BY <1>1, ReturnedEnds
<1> HIDE DEF j, told, lost
<1>7. CallInv(client, t, j, orders')
    BY <1>1, <1>2, <1>3, <1>4, <1>6, SweepEnds
<1>8. QED
    BY <1>1, <1>3, <1>5, <1>7, TaskActs

LEMMA SweepsWell ==
    ASSUME CallsInv, Inv, NEW t \in Tasks,
           SecureSweep(t) \/ ClobSweep(t) \/ AsyncSweep(t) \/ AsyncSwept(t)
    PROVE  CallsInv'
<1> DEFINE k == task[t]
<1>1. /\ CallInv(client, t, k, orders) /\ CacheIsOfLookups(coordinates)
      /\ DOMAIN k = TaskKeys /\ SweepsRightly(t, k, orders)
    BY DEF Inv, CallsInv, CallInv, RightTask
<1>2. IsSweep(k) /\ UNCHANGED <<client, coordinates>>
    BY DEF SecureSweep, ClobSweep, AsyncSweep, AsyncSwept, Op, Sweeps, Sent, IsSweep
<1>3. CASE SecureSweep(t) \/ ClobSweep(t)
    <2>1. k.phase = "ready"
        BY <1>3 DEF SecureSweep, ClobSweep, Is
    <2>2. PICK reply \in Sweep(t, Scope(k)) :
            /\ orders' = reply.orders
            /\ task' = [task EXCEPT ![t] = [Returned(k, AdaptCancelResponse(reply))
                                             EXCEPT !.lost = reply.lost]]
        BY <1>3, Zenon DEF SecureSweep, ClobSweep
    <2>3. QED
        BY <1>2, <2>1, <2>2, SweepsAtOnce, Zenon
<1>4. CASE AsyncSweep(t)
    <2>1. k.phase = "ready"
        BY <1>4 DEF AsyncSweep, Is
    <2>2. PICK reply \in Sweep(t, Scope(k)) : Sent(t, reply)
        BY <1>4, Zenon DEF AsyncSweep
    <2> DEFINE j == SentWith(k, reply)
    <2>3. task' = [task EXCEPT ![t] = j] /\ orders' = reply.orders
        BY <2>2, SentIsSentWith
    <2>4. /\ SweptRightly(t, Scope(k), reply) /\ TouchesNoOther(t, k, orders')
          /\ (reply.ok => LeavesNone(k, orders'))
        BY <1>2, <2>1, <2>3, ScopeIsMeant
    <2>5. /\ SameCall(j, k) /\ j.phase = "waiting" /\ j.tried = k.tried
          /\ j.built = k.built /\ j.told = k.told /\ j.pair = k.pair
          /\ j.reply = [reply EXCEPT !.orders = <<>>]
        BY <1>1, SentFields
    <2> HIDE DEF j
    <2>6. j.reply.ok = reply.ok /\ j.reply.ids = reply.ids
        BY <2>4, <2>5, ReplyFields DEF SweptRightly
    <2>7. j.call = k.call /\ j.existing = k.existing /\ j.filled = k.filled
        BY <2>5 DEF SameCall
    <2>8. /\ Moves({t}, orders, orders') /\ DOMAIN orders' = DOMAIN orders
          /\ (reply.ok => Gone(reply.ids, orders'))
        BY <2>3, <2>4 DEF SweptRightly
    <2>9. CallGoes(client, j, orders') /\ BuiltAsAsked(client, j)
        BY <1>1, <1>2, <2>1, <2>5, <2>7, <2>8, BoughtStay
           DEF CallInv, CallGoes, BuiltAsAsked, Moves, Phases, Kinds, IsSweep
    <2>10. HasPosted(client, t, j, orders') /\ HasActed(client, t, j, orders')
        BY <1>1, <1>2, <2>1, <2>5, <2>7, <2>8
           DEF CallInv, CallGoes, HasPosted, HasActed, IsSweep
    <2>11. /\ RowsAreTrue(t, j, orders') /\ Tallies(t, j, orders')
           /\ BalancesRightly(j, orders')
        BY <1>1, <1>2, <2>1, <2>5, <2>7
           DEF CallInv, CallGoes, RowsAreTrue, Tallies, BalancesRightly, IsSweep
    <2>12. SweepsRightly(t, j, orders')
        <3>1. k.told.kind = "none" /\ k.told.canceled = {}
            BY <1>1, <1>2, <2>1 DEF CallInv, CallGoes, SweepsRightly, IsSweep
        <3>2. Gone({}, orders') /\ (j.reply.ok => Gone(j.reply.ids, orders'))
            BY <2>6, <2>8 DEF Gone
        <3>3. j.reply.ok => LeavesNone(j, orders')
            BY <2>4, <2>6, <2>7 DEF LeavesNone
        <3>4. TouchesNoOther(t, j, orders')
            BY <2>4, <2>7 DEF TouchesNoOther
        <3>5. k.call.op = "cancelMarket" =>
                j.pair[1] \in DOMAIN MarketOf /\ MarketOf[j.pair[1]] = MeantMarket(k.call)
            BY <1>1, <2>1, <2>5 DEF SweepsRightly
        <3>6. QED
            BY <2>5, <2>7, <3>1, <3>2, <3>3, <3>4, <3>5
               DEF SweepsRightly, TouchesNoOther, LeavesNone
    <2>13. CallInv(client, t, j, orders')
        BY <2>9, <2>10, <2>11, <2>12 DEF CallInv
    <2>14. QED
        BY <1>1, <1>2, <2>3, <2>8, <2>13, TaskActs
<1>5. CASE AsyncSwept(t)
    <2> DEFINE told == AdaptCancelResponse(k.reply)
               j == Returned(k, told)
    <2>1. k.phase = "waiting" /\ UNCHANGED orders /\ task' = [task EXCEPT ![t] = j]
        BY <1>5 DEF AsyncSwept, Is
    <2>2. /\ k.reply.ok => Gone(k.reply.ids, orders) /\ LeavesNone(k, orders)
          /\ TouchesNoOther(t, k, orders)
        BY <1>1, <1>2, <2>1 DEF SweepsRightly, LeavesNone, TouchesNoOther, IsSweep
    <2>3. TellsOfSweep(k, told, orders)
        BY <2>2, SweptTells
    <2>4. Ends(j, k, told, k.lost)
        BY <1>1, ReturnedEnds
    <2>5. Moves({t}, orders, orders)
        BY NothingMoves DEF CallsInv
    <2> DEFINE lost == k.lost
    <2>6. Ends(j, k, told, lost)
        BY <2>4
    <2> HIDE DEF j, told, lost
    <2>7. CallInv(client, t, j, orders)
        BY <1>1, <1>2, <2>1, <2>2, <2>3, <2>5, <2>6, SweepEnds
    <2>8. QED
        BY <1>1, <1>2, <2>1, <2>7, TaskActsAlone
<1>6. QED
    BY <1>3, <1>4, <1>5
-----------------------------------------------------------------------------
(* The balance. *)

LEMMA BalanceTells ==
    ASSUME NEW c, NEW t, NEW k, NEW o, CallInv(c, t, k, o), OrdersAreKept(o),
           k.call.op = "balance", k.phase = "ready", NothingDone(t, o),
           NEW told, DOMAIN told = ToldKeys, told.kind = "balance",
           told.canceled = {}, told.missed = {},
           told.shares = Cardinality(Mine(BoughtIn(o), k.call.token, o)),
           NEW lost, NEW j, Ends(j, k, told, lost)
    PROVE  CallInv(c, t, j, o)
<1>1. /\ j.call = k.call /\ j.existing = k.existing /\ j.filled = k.filled
      /\ j.phase = "done" /\ j.tried = k.tried /\ j.built = k.built /\ j.told = told
    BY DEF Ends, SameCall
<1>2. CallGoes(c, j, o) /\ BuiltAsAsked(c, j)
    BY <1>1 DEF CallInv, CallGoes, BuiltAsAsked, Phases, Kinds
<1>3. HasPosted(c, t, j, o) /\ HasActed(c, t, j, o)
    BY DEF NothingDone, HasPosted, HasActed
<1>4. RowsAreTrue(t, j, o) /\ Tallies(t, j, o) /\ SweepsRightly(t, j, o)
    BY <1>1 DEF RowsAreTrue, Tallies, SweepsRightly
<1>5. BalancesRightly(j, o)
    <2> DEFINE before == Mine(k.filled, k.call.token, o)
               now == Mine(BoughtIn(o), k.call.token, o)
    <2>1. BoughtIn(o) \in SUBSET DOMAIN o /\ k.filled \subseteq BoughtIn(o)
        BY DEF BoughtIn, CallInv, CallGoes
    <2>2. before \subseteq now
        BY <2>1 DEF Mine
    <2>3. IsFiniteSet(now) /\ Cardinality(now) \in Nat
        BY <2>1, MineFinite
    <2>4. Cardinality(before) <= Cardinality(now)
        BY <2>2, <2>3, FS_Subset
    <2>5. QED
        BY <1>1, <2>3, <2>4 DEF BalancesRightly
<1>6. QED
    BY <1>2, <1>3, <1>4, <1>5 DEF CallInv

LEMMA ReadsBalance ==
    ASSUME CallsInv, Inv, NEW t \in Tasks, SecureBalance(t) \/ AsyncBalance(t)
    PROVE  CallsInv'
<1> DEFINE k == task[t]
<1>1. /\ CallInv(client, t, k, orders) /\ OrdersAreKept(orders)
      /\ CacheIsOfLookups(coordinates) /\ DOMAIN k = TaskKeys
    BY DEF CallsInv, Inv, RightTask
<1>2. /\ k.call.op = "balance" /\ k.phase = "ready" /\ ReadBalance(t)
      /\ UNCHANGED <<client, coordinates, orders>>
    BY DEF SecureBalance, AsyncBalance, Op, Is
<1>3. NothingDone(t, orders)
    BY <1>1, <1>2, NothingBefore
<1>4. ASSUME task' = [task EXCEPT ![t] = Returned(k, [Untold EXCEPT !.kind = "balance",
                                     !.shares = ConditionalBalance(k.pair)])]
      PROVE  CallsInv'
    <2> DEFINE shares == ConditionalBalance(k.pair)
               told == [Untold EXCEPT !.kind = "balance", !.shares = shares]
               j == Returned(k, told)
               lost == k.lost
    <2>1. /\ DOMAIN told = ToldKeys /\ told.kind = "balance" /\ told.shares = shares
          /\ told.canceled = {} /\ told.missed = {}
        <3> HIDE DEF shares
        <3>1. QED
            BY DEF Untold, ToldKeys
    <2>2. shares = Cardinality(Mine(BoughtIn(orders), k.call.token, orders))
        <3>1. <<k.pair[1], Upper(k.pair[2])>> = Addressed[k.call.token]
            BY <1>1, <1>2 DEF CallInv, BalancesRightly
        <3>2. Bought = BoughtIn(orders)
            BY DEF Bought, Filled, BoughtIn
        <3>3. {id \in Bought : /\ orders[id].market = k.pair[1]
                               /\ orders[id].outcome = Upper(k.pair[2])} =
              Mine(BoughtIn(orders), k.call.token, orders)
            BY <3>1, <3>2 DEF Mine
        <3>4. QED
            BY <3>3 DEF ConditionalBalance
    <2>3. Ends(j, k, told, lost) /\ task' = [task EXCEPT ![t] = j]
        BY <1>1, <1>4, ReturnedEnds
    <2> HIDE DEF shares, told, j, lost
    <2>4. told.shares = Cardinality(Mine(BoughtIn(orders), k.call.token, orders))
        BY <2>1, <2>2
    <2>5. CallInv(client, t, j, orders)
        BY <1>1, <1>2, <1>3, <2>1, <2>3, <2>4, BalanceTells
    <2>6. QED
        BY <1>1, <1>2, <2>3, <2>5, TaskActsAlone
<1>5. ASSUME task' = [task EXCEPT ![t] = Raised(k, "error")]
      PROVE  CallsInv'
    <2>1. Ends(Raised(k, "error"), k, [Untold EXCEPT !.kind = "error"], k.lost)
        BY <1>1, ReturnedEnds DEF Raised
    <2>2. CallInv(client, t, Raised(k, "error"), orders)
        BY <1>1, <1>2, <1>3, <2>1, GivesUp
    <2>3. QED
        BY <1>1, <1>2, <1>5, <2>2, TaskActsAlone
<1>6. QED
    BY <1>2, <1>4, <1>5 DEF ReadBalance
-----------------------------------------------------------------------------
(* A call begins; the server fills; everything together. *)

LEMMA BeginsRightly ==
    ASSUME CallsInv, Inv, NEW t \in Tasks, Begin(t)
    PROVE  CallsInv'
<1> DEFINE k == task[t]
           phase == IF Op(t) \in {"cancel", "cancelAll"} THEN "ready" ELSE "resolving"
           j == [k EXCEPT !.existing = DOMAIN orders, !.filled = Bought, !.phase = phase]
<1>1. /\ CallInv(client, t, k, orders) /\ CacheIsOfLookups(coordinates)
      /\ DOMAIN k = TaskKeys
    BY DEF CallsInv, Inv, RightTask
<1>2. /\ k.phase = "idle" /\ ToSet(k.call.ids) \subseteq DOMAIN orders \cup {NoId}
      /\ UNCHANGED <<client, coordinates, orders>>
      /\ task' = [task EXCEPT ![t] = j]
    BY DEF Begin
<1>3. /\ j.call = k.call /\ j.told = k.told /\ j.tried = k.tried /\ j.built = k.built
      /\ j.lost = k.lost /\ j.existing = DOMAIN orders /\ j.filled = Bought
      /\ j.phase = phase
    <2> HIDE DEF phase
    <2>1. QED
        BY <1>1 DEF TaskKeys
<1>4. phase = IF k.call.op \in {"cancel", "cancelAll"} THEN "ready" ELSE "resolving"
    BY DEF Op
<1>5. Bought = BoughtIn(orders)
    BY DEF Bought, Filled, BoughtIn
<1> HIDE DEF j, phase
<1>6. CallInv(client, t, j, orders)
    BY <1>1, <1>2, <1>3, <1>4, <1>5, Begins
<1>7. QED
    BY <1>1, <1>2, <1>6, TaskActsAlone

LEMMA FillsRightly ==
    ASSUME CallsInv, ServerFills
    PROVE  CallsInv'
<1>1. PICK id \in Open : orders' = [orders EXCEPT ![id].status = "filled"]
    BY DEF ServerFills
<1>2. UNCHANGED <<client, coordinates, task>>
    BY DEF ServerFills
<1>3. OrdersAreKept(orders)
    BY DEF CallsInv
<1>4. /\ DOMAIN orders' = DOMAIN orders /\ orders[id].status = "open"
      /\ \A i \in DOMAIN orders : i # id => orders'[i] = orders[i]
      /\ orders'[id] = [orders[id] EXCEPT !.status = "filled"]
    BY <1>1 DEF Open
<1>5. /\ DOMAIN orders'[id] = OrderKeys /\ orders'[id].status = "filled"
      /\ orders'[id].market = orders[id].market /\ orders'[id].outcome = orders[id].outcome
      /\ orders'[id].wire = orders[id].wire /\ orders'[id].by = orders[id].by
    BY <1>1, <1>3, <1>4 DEF OrdersAreKept, OrderKeys, Open
<1>6. OrdersAreKept(orders')
    <2>1. ASSUME NEW i \in DOMAIN orders'
          PROVE  /\ DOMAIN orders'[i] = OrderKeys
                 /\ orders'[i].status \in {"open", "filled", "cancelled"}
        <3>1. CASE i = id
            BY <1>5, <3>1
        <3>2. CASE i # id
            BY <1>3, <1>4, <3>2 DEF OrdersAreKept
        <3>3. QED
            BY <3>1, <3>2
    <2>2. QED
        BY <1>3, <1>4, <2>1 DEF OrdersAreKept
<1>7. Moves({}, orders, orders')
    BY <1>4, <1>5, <1>6 DEF Moves
<1>8. ASSUME NEW t \in Tasks PROVE CallInv(client, t, task[t], orders')
    BY <1>3, <1>7, OthersKeep DEF CallsInv
<1>9. QED
    BY <1>2, <1>6, <1>8 DEF CallsInv

LEMMA InitCalls == Init => CallsInv
<1> SUFFICES ASSUME Init PROVE CallsInv
    OBVIOUS
<1>1. PICK plan \in Plans[client] :
         task = [t \in Tasks |->
                   [phase |-> "idle", call |-> plan[t], built |-> <<>>,
                    pair |-> NoPair, tried |-> 0, reply |-> NoReply,
                    told |-> Untold, lost |-> FALSE, existing |-> {},
                    filled |-> {}]]
    BY DEF Init
<1>2. client \in Clients /\ coordinates = <<>> /\ orders = Resting
    BY DEF Init
<1>3. OrdersAreKept(orders) /\ \A t \in Tasks : NothingDone(t, orders)
    BY <1>2, TradingAssumption DEF OrdersAreKept, NothingDone
<1>4. CacheIsOfLookups(coordinates)
    BY <1>2 DEF CacheIsOfLookups
<1>5. ASSUME NEW t \in Tasks PROVE CallInv(client, t, task[t], orders)
    <2> DEFINE k == task[t]
    <2>1. /\ k.phase = "idle" /\ k.call = plan[t] /\ k.built = <<>> /\ k.tried = 0
          /\ k.told = Untold /\ k.lost = FALSE
        BY <1>1
    <2>2. k.call \in CallsOf(client)
        BY <1>1, <2>1 DEF CallsOf
    <2> HIDE DEF k
    <2>3. /\ k.told.kind = "none" /\ k.told.canceled = {} /\ k.told.missed = {}
          /\ DOMAIN k.told = ToldKeys
        BY <2>1, Telling
    <2>4. k.call \in PlannedCalls
        BY <1>2, <2>2 DEF PlannedCalls
    <2>5. CallGoes(client, k, orders)
        BY <1>2, <2>1, <2>2, <2>3 DEF CallGoes, Phases, Kinds
    <2>6. BuiltAsAsked(client, k)
        <3>1. k.built \in Seq({}) /\ Len(k.built) = 0
            BY <2>1
        <3>2. QED
            BY <2>1, <3>1 DEF BuiltAsAsked
    <2>7. HasPosted(client, t, k, orders) /\ HasActed(client, t, k, orders)
        BY <1>3 DEF NothingDone, HasPosted, HasActed
    <2>8. /\ RowsAreTrue(t, k, orders) /\ SweepsRightly(t, k, orders)
          /\ BalancesRightly(k, orders)
        BY <1>3, <2>1, <2>3
           DEF RowsAreTrue, SweepsRightly, BalancesRightly, NothingDone, Gone
    <2>9. Tallies(t, k, orders)
        <3>1. {k.call.ids[i] : i \in 1..0} = {}
            OBVIOUS
        <3>2. k.call.ids # <<>> => 0 < Len(k.call.ids)
            BY <2>4, IdsAreListed
        <3>3. QED
            BY <1>3, <2>1, <2>3, <3>1, <3>2 DEF Tallies, NothingDone, Gone
    <2>10. CallInv(client, t, k, orders)
        BY <2>5, <2>6, <2>7, <2>8, <2>9 DEF CallInv
    <2>11. QED
        BY <2>10 DEF k
<1>6. QED
    BY <1>2, <1>3, <1>4, <1>5 DEF CallsInv

LEMMA NextCalls ==
    ASSUME CallsInv, Inv, [Next]_vars
    PROVE  CallsInv'
<1>1. ASSUME NEW t \in Tasks, Step(t) PROVE CallsInv'
    BY <1>1, ResolvesRightly, PostsRightly, CancelsRightly, SweepsWell, ReadsBalance DEF Step
<1>2. CASE UNCHANGED vars
    BY <1>2 DEF vars, CallsInv
<1>3. QED
    BY <1>1, <1>2, BeginsRightly, FillsRightly DEF Next, Done

THEOREM CallsTheorem == Spec => []CallsInv
<1>1. CallsInv /\ Inv /\ [Next]_vars => CallsInv'
    BY NextCalls
<1>2. QED
    BY <1>1, InitCalls, TradingTheorem, PTL DEF Spec
-----------------------------------------------------------------------------
(* What goes onto the wire, by what was asked. *)

(* NothingBeyondTheCall of one order. *)
WithinTheCall(a, w) ==
    LET market == w.type = "market"
    IN  /\ w.side = Upper(a.side) /\ w.price > 0
        /\ Given(w.amount) # Given(w.quantity)
        /\ Given(w.amount) => market /\ w.side = "BUY" /\ w.amount <= a.amount
        /\ market /\ Given(a.maxSpend) => w.amount <= a.maxSpend
        /\ market /\ w.side = "BUY" /\ Given(a.maxPrice) => w.price <= a.maxPrice
        /\ market /\ w.side = "SELL" /\ Given(a.minPrice) => w.price >= a.minPrice
        /\ market => w.tif # "GTC"
        /\ Given(a.expiration) /\ a.expiration > 0 => w.tif # "GTC"
        /\ w.tif = "GTD" => Given(w.expiration)

LEMMA OneIsGiven ==
    ASSUME NEW x, NEW y, (~Given(x) /\ Given(y)) \/ (Given(x) /\ ~Given(y))
    PROVE  Given(x) # Given(y)
BY DEF Given

Numbers(a) ==
    /\ {"price", "size", "amount", "expiration"} \subseteq DOMAIN a
    /\ a.price \in Int /\ a.size \in Int /\ a.amount \in Int /\ a.maxSpend \in Int
    /\ a.maxPrice \in Int /\ a.minPrice \in Int /\ a.expiration \in Int

LEMMA BodyWithin ==
    ASSUME NEW a, Numbers(a), Valid(a), NEW pair
    PROVE  WithinTheCall(a, Body(a, pair))
<1> DEFINE w == Body(a, pair)
<1>1. CASE a.kind = "limit"
    <2>1. a.side \in {"BUY", "SELL"} /\ a.price > 0 /\ Given(a.size)
        BY <1>1 DEF Valid, ValidLimit, ValidSide, Positive
    <2>2. /\ w.side = a.side /\ w.type = "limit" /\ w.price = a.price
          /\ w.quantity = a.size /\ w.amount = None
          /\ w.tif = IF Given(a.expiration) /\ a.expiration > 0 THEN "GTD" ELSE "GTC"
          /\ w.expiration = IF Given(a.expiration) /\ a.expiration > 0
                            THEN a.expiration ELSE None
        BY <1>1 DEF Body, LimitBody
    <2> HIDE DEF w
    <2>3. Upper(a.side) = a.side
        BY <2>1 DEF Upper
    <2>4. ~Given(w.amount) /\ Given(w.quantity) /\ w.price > 0 /\ w.type # "market"
        BY <2>1, <2>2 DEF Given
    <2>5. /\ Given(a.expiration) /\ a.expiration > 0 => w.tif # "GTC"
          /\ w.tif = "GTD" => Given(w.expiration)
        BY <2>2 DEF Given
    <2>6. Given(w.amount) # Given(w.quantity)
        BY <2>4, OneIsGiven
    <2>7. WithinTheCall(a, w)
        BY <2>2, <2>3, <2>4, <2>5, <2>6 DEF WithinTheCall
    <2>8. QED
        BY <2>7 DEF w
<1>2. CASE a.kind # "limit"
    <2>1. a.side \in {"BUY", "SELL"} /\ a.tif \in {"FAK", "FOK"} /\ ValidMarket(a)
        BY <1>2 DEF Valid, ValidMarket, ValidSide
    <2>2. /\ w.side = a.side /\ w.type = "market" /\ w.tif = a.tif
          /\ w.price = IF a.side = "BUY" THEN OrElse(a.maxPrice, BuyWorst)
                       ELSE OrElse(a.minPrice, SellWorst)
          /\ w.quantity = IF a.side = "BUY" THEN None ELSE a.size
          /\ w.amount = IF a.side = "BUY"
                        THEN IF Given(a.maxSpend) /\ a.maxSpend < a.amount
                             THEN a.maxSpend ELSE a.amount
                        ELSE None
        BY <1>2 DEF Body, MarketBody
    <2> HIDE DEF w
    <2>3. Upper(a.side) = a.side
        BY <2>1 DEF Upper
    <2>4. CASE a.side = "BUY"
        <3>1. /\ Positive(a.amount) /\ ~Given(a.minPrice)
              /\ PositiveIfGiven(a.maxSpend) /\ PositiveIfGiven(a.maxPrice)
            BY <2>1, <2>4 DEF ValidMarket
        <3>2. /\ Given(w.amount) /\ ~Given(w.quantity) /\ w.amount <= a.amount
              /\ Given(a.maxSpend) => w.amount <= a.maxSpend
            BY <2>2, <2>4, <3>1 DEF Positive, PositiveIfGiven, Given, None, Numbers
        <3>3. w.price > 0 /\ (Given(a.maxPrice) => w.price <= a.maxPrice)
            BY <2>2, <2>4, <3>1 DEF PositiveIfGiven, Given, OrElse, None, BuyWorst, Numbers
        <3>4. WithinTheCall(a, w)
            BY <2>1, <2>2, <2>3, <2>4, <3>1, <3>2, <3>3, OneIsGiven DEF WithinTheCall
        <3>5. QED
            BY <3>4 DEF w
    <2>5. CASE a.side = "SELL"
        <3>1. /\ Positive(a.size) /\ ~Given(a.maxSpend) /\ ~Given(a.maxPrice)
              /\ PositiveIfGiven(a.minPrice)
            BY <2>1, <2>5 DEF ValidMarket
        <3>2. ~Given(w.amount) /\ Given(w.quantity)
            BY <2>2, <2>5, <3>1 DEF Positive, Given
        <3>3. w.price > 0 /\ (Given(a.minPrice) => w.price >= a.minPrice)
            BY <2>2, <2>5, <3>1 DEF PositiveIfGiven, Given, OrElse, SellWorst, Numbers
        <3>4. WithinTheCall(a, w)
            BY <2>1, <2>2, <2>3, <2>5, <3>1, <3>2, <3>3, OneIsGiven DEF WithinTheCall
        <3>5. QED
            BY <3>4 DEF w
    <2>6. QED
        BY <2>1, <2>4, <2>5
<1>3. QED
    BY <1>1, <1>2

(* What a bot gets right that the drop-in does not check. *)
ClobChecked(a, asked) ==
    /\ a.kind = "limit" => a.price > 0 /\ Given(a.size) /\ ~Given(a.amount)
    /\ a.kind # "limit" => Given(a.amount) /\ a.tif \in {"FOK", "FAK"}
    /\ ~Given(a.maxSpend) /\ ~Given(a.maxPrice) /\ ~Given(a.minPrice)
    /\ asked = "GTD" => a.kind = "limit" /\ a.expiration > 0

LEMMA SubmitFields ==
    ASSUME NEW order, DOMAIN order = WireKeys, NEW asked, NEW postOnly
    PROVE  LET w == Submit(order, asked, postOnly)
           IN  /\ w.side = order.side /\ w.type = order.type /\ w.price = order.price
               /\ w.quantity = order.quantity /\ w.amount = order.amount
               /\ w.expiration = order.expiration
               /\ w.tif = LET tif == IF Given(order.expiration) /\ asked = "GTC"
                                     THEN "GTD" ELSE asked
                          IN  IF order.type = "market" /\ tif = "GTC"
                                 /\ order.tif \in {"FOK", "FAK"}
                              THEN order.tif ELSE tif
<1> DEFINE tif == IF Given(order.expiration) /\ asked = "GTC" THEN "GTD" ELSE asked
           last == IF order.type = "market" /\ tif = "GTC" /\ order.tif \in {"FOK", "FAK"}
                   THEN order.tif ELSE tif
           only == order.postOnly \/ postOnly
           w == [order EXCEPT !.tif = last, !.postOnly = only]
<1>1. Submit(order, asked, postOnly) = w
    BY DEF Submit
<1>2. /\ w.side = order.side /\ w.type = order.type /\ w.price = order.price
      /\ w.quantity = order.quantity /\ w.amount = order.amount
      /\ w.expiration = order.expiration /\ w.tif = last
    <2> HIDE DEF last, only
    <2>1. QED
        BY DEF WireKeys
<1> HIDE DEF w
<1>3. QED
    BY <1>1, <1>2 DEF last, tif

LEMMA SubmittedWithin ==
    ASSUME NEW a, Numbers(a), NEW asked, ClobChecked(a, asked), NEW pair, NEW postOnly
    PROVE  WithinTheCall(a, Submit(ClobOrder(a, pair), asked, postOnly))
<1> DEFINE order == ClobOrder(a, pair)
           w == Submit(order, asked, postOnly)
           tif == IF Given(order.expiration) /\ asked = "GTC" THEN "GTD" ELSE asked
<1>1. /\ w.side = order.side /\ w.type = order.type /\ w.price = order.price
      /\ w.quantity = order.quantity /\ w.amount = order.amount
      /\ w.expiration = order.expiration
      /\ w.tif = IF order.type = "market" /\ tif = "GTC" /\ order.tif \in {"FOK", "FAK"}
                 THEN order.tif ELSE tif
    <2> HIDE DEF order
    <2>1. DOMAIN order = WireKeys
        BY BuiltForPair DEF order
    <2>2. QED
        BY <2>1, SubmitFields
<1>2. CASE a.kind = "limit"
    <2>1. /\ order.side = Upper(a.side) /\ order.type = "limit" /\ order.price = a.price
          /\ order.quantity = a.size /\ order.amount = a.amount
          /\ order.expiration = IF a.expiration > 0 THEN a.expiration ELSE None
        BY <1>2 DEF ClobOrder, ClobLimitOrder, OrderPayload
    <2> HIDE DEF order, w
    <2>2. a.price > 0 /\ Given(a.size) /\ ~Given(a.amount)
        BY <1>2 DEF ClobChecked
    <2>3. ~Given(w.amount) /\ Given(w.quantity) /\ w.price > 0 /\ w.type # "market"
        BY <1>1, <2>1, <2>2
    <2>4. w.tif = tif
        BY <1>1, <2>1
    <2>5. Given(a.expiration) /\ a.expiration > 0 => w.tif # "GTC"
        BY <2>1, <2>4 DEF Given
    <2>6. w.tif = "GTD" => Given(w.expiration)
        <3>1. CASE asked = "GTD"
            <4>1. a.expiration > 0
                BY <3>1 DEF ClobChecked
            <4>2. QED
                BY <1>1, <2>1, <4>1 DEF Given, None, Numbers
        <3>2. CASE asked # "GTD"
            BY <1>1, <2>4, <3>2
        <3>3. QED
            BY <3>1, <3>2
    <2>7. WithinTheCall(a, w)
        BY <1>1, <2>1, <2>3, <2>5, <2>6, OneIsGiven DEF WithinTheCall
    <2>8. QED
        BY <2>7 DEF w, order
<1>3. CASE a.kind # "limit"
    <2>1. Given(a.amount) /\ a.tif \in {"FOK", "FAK"} /\ asked # "GTD"
        BY <1>3 DEF ClobChecked
    <2> DEFINE buy == Upper(a.side) = "BUY"
               price == IF a.price > 0 THEN a.price ELSE IF buy THEN BuyWorst ELSE SellWorst
               amount == IF buy THEN a.amount ELSE None
               size == IF buy THEN None ELSE a.amount
               args == [a EXCEPT !.price = price, !.amount = amount, !.size = size,
                                 !.expiration = None]
    <2>2. /\ args.price = price /\ args.amount = amount /\ args.size = size
          /\ args.expiration = None /\ args.side = a.side
        <3> HIDE DEF price, amount, size
        <3>1. QED
            BY DEF Numbers
    <2>3. order = OrderPayload(args, pair, "market", a.tif)
        BY <1>3 DEF ClobOrder, ClobMarketOrder
    <2> HIDE DEF args
    <2>4. /\ order.side = Upper(args.side) /\ order.type = "market" /\ order.tif = a.tif
          /\ order.price = args.price /\ order.quantity = args.size
          /\ order.amount = args.amount
          /\ order.expiration = IF args.expiration > 0 THEN args.expiration ELSE None
        <3> HIDE DEF order
        <3>1. QED
            BY <2>3 DEF OrderPayload
    <2> HIDE DEF order, w
    <2>5. order.expiration = None
        BY <2>2, <2>4 DEF None
    <2>6. w.tif \notin {"GTC", "GTD"}
        BY <1>1, <2>1, <2>4, <2>5 DEF Given
    <2>7. w.price > 0
        BY <1>1, <2>2, <2>4 DEF Numbers, BuyWorst, SellWorst
    <2>8. /\ Given(w.amount) <=> buy
          /\ Given(w.quantity) <=> ~buy
          /\ buy => w.amount = a.amount
        BY <1>1, <2>1, <2>2, <2>4 DEF Given
    <2>9. w.side = Upper(a.side) /\ w.type = "market"
        BY <1>1, <2>2, <2>4
    <2>10. ~Given(a.maxSpend) /\ ~Given(a.maxPrice) /\ ~Given(a.minPrice)
        BY DEF ClobChecked
    <2>11. WithinTheCall(a, w)
        BY <2>6, <2>7, <2>8, <2>9, <2>10, OneIsGiven DEF WithinTheCall, Numbers
    <2>12. QED
        BY <2>11 DEF w, order
<1>4. QED
    BY <1>2, <1>3
-----------------------------------------------------------------------------
LEMMA PostedWithin ==
    ASSUME CallsInv, Inv, NEW t \in Tasks, NEW id \in Own(t)
    PROVE  WithinTheCall(ArgsOf(id), orders[id].wire)
<1> DEFINE k == task[t]
           a == k.call.args[id[2]]
           w == orders[id].wire
           pair == PairOf(w)
<1>1. /\ id \in DOMAIN orders /\ id[1] = t /\ ArgsOf(id) = a
    BY DEF Own, ArgsOf
<1>2. /\ client \in Clients /\ k.call \in CallsOf(client) /\ k.call \in PlannedCalls
    BY DEF CallsInv, CallInv, CallGoes, Inv, RightTask
<1>3. /\ k.call.op = "post" /\ id[2] \in 1..Len(k.call.args)
      /\ w = WireOf(client, k.call, a, pair) /\ Checked(client, a)
    BY <1>1 DEF CallsInv, CallInv, HasPosted
<1>4. id[2] \in DOMAIN k.call.args
    BY <1>2, <1>3, PostHasOrders
<1>5. Numbers(a)
    BY <1>2, <1>4, CallsAssumption DEF Numbers
<1>6. CASE client = "clob"
    <2> DEFINE asked == k.call.asked
               only == k.call.postOnly
    <2>1. ClobChecked(a, asked)
        BY <1>2, <1>4, <1>6, ClobAssumption DEF ClobChecked
    <2>2. w = Submit(ClobOrder(a, pair), asked, only)
        BY <1>3, <1>6 DEF WireOf
    <2> HIDE DEF a, pair, w, asked, only
    <2>3. WithinTheCall(a, w)
        BY <1>5, <2>1, <2>2, SubmittedWithin
    <2>4. QED
        BY <1>1, <2>3 DEF w
<1>7. CASE client # "clob"
    <2>1. w = Body(a, pair) /\ Valid(a)
        BY <1>3, <1>7 DEF WireOf, Checked
    <2> HIDE DEF a, pair, w
    <2>2. WithinTheCall(a, w)
        BY <1>5, <2>1, BodyWithin
    <2>3. QED
        BY <1>1, <2>2 DEF w
<1>8. QED
    BY <1>6, <1>7

(* Wires that differ in their pair alone. *)
SameButPair(w, x) ==
    /\ DOMAIN w = WireKeys /\ DOMAIN x = WireKeys
    /\ \A key \in WireKeys \ {"market", "outcome"} : w[key] = x[key]

LEMMA SameTerms ==
    ASSUME NEW w, NEW x, SameButPair(w, x)
    PROVE  Terms(w) = Terms(x)
<1>1. /\ DOMAIN Terms(w) = WireKeys /\ DOMAIN Terms(x) = WireKeys
      /\ \A key \in WireKeys : Terms(w)[key] = Terms(x)[key]
    BY DEF SameButPair, Terms, WireKeys
<1>2. /\ Terms(w) = [key \in DOMAIN Terms(w) |-> Terms(w)[key]]
      /\ Terms(x) = [key \in DOMAIN Terms(x) |-> Terms(x)[key]]
    BY DEF Terms
<1> HIDE DEF Terms
<1>3. QED
    BY <1>1, <1>2

LEMMA BuiltAlike ==
    ASSUME NEW a, NEW pair, NEW other
    PROVE  /\ SameButPair(Body(a, pair), Body(a, other))
           /\ SameButPair(ClobOrder(a, pair), ClobOrder(a, other))
<1> DEFINE w == Body(a, pair)
           x == Body(a, other)
           v == ClobOrder(a, pair)
           y == ClobOrder(a, other)
<1>1. /\ w.side = x.side /\ w.type = x.type /\ w.tif = x.tif /\ w.price = x.price
      /\ w.quantity = x.quantity /\ w.amount = x.amount /\ w.expiration = x.expiration
      /\ w.postOnly = x.postOnly
    BY DEF Body, LimitBody, MarketBody
<1>2. /\ v.side = y.side /\ v.type = y.type /\ v.tif = y.tif /\ v.price = y.price
      /\ v.quantity = y.quantity /\ v.amount = y.amount /\ v.expiration = y.expiration
      /\ v.postOnly = y.postOnly
    BY DEF ClobOrder, ClobLimitOrder, ClobMarketOrder, OrderPayload
<1>3. /\ DOMAIN w = WireKeys /\ DOMAIN x = WireKeys
      /\ DOMAIN v = WireKeys /\ DOMAIN y = WireKeys
    BY BuiltForPair
<1> HIDE DEF w, x, v, y
<1>4. SameButPair(w, x) /\ SameButPair(v, y)
    BY <1>1, <1>2, <1>3 DEF SameButPair, WireKeys
<1>5. QED
    BY <1>4 DEF w, x, v, y

LEMMA SubmittedAlike ==
    ASSUME NEW w, NEW x, SameButPair(w, x), NEW asked, NEW only
    PROVE  SameButPair(Submit(w, asked, only), Submit(x, asked, only))
<1>1. /\ w.tif = x.tif /\ w.type = x.type /\ w.expiration = x.expiration
      /\ w.postOnly = x.postOnly
    BY DEF SameButPair, WireKeys
<1> DEFINE tif == IF Given(x.expiration) /\ asked = "GTC" THEN "GTD" ELSE asked
           last == IF x.type = "market" /\ tif = "GTC" /\ x.tif \in {"FOK", "FAK"}
                   THEN x.tif ELSE tif
           posted == x.postOnly \/ only
<1>2. /\ Submit(w, asked, only) = [w EXCEPT !.tif = last, !.postOnly = posted]
      /\ Submit(x, asked, only) = [x EXCEPT !.tif = last, !.postOnly = posted]
    BY <1>1 DEF Submit
<1> HIDE DEF last, posted
<1>3. QED
    BY <1>2 DEF SameButPair, WireKeys

LEMMA WiresAlike ==
    ASSUME NEW c, NEW call, NEW other, call.asked = other.asked,
           call.postOnly = other.postOnly, NEW a, NEW pair, NEW pair2
    PROVE  Terms(WireOf(c, call, a, pair)) = Terms(WireOf(c, other, a, pair2))
<1>1. CASE c = "clob"
    <2> DEFINE asked == call.asked
               only == call.postOnly
               order == ClobOrder(a, pair)
               order2 == ClobOrder(a, pair2)
    <2>1. /\ WireOf(c, call, a, pair) = Submit(order, asked, only)
          /\ WireOf(c, other, a, pair2) = Submit(order2, asked, only)
        BY <1>1 DEF WireOf
    <2>2. SameButPair(order, order2)
        BY BuiltAlike
    <2> HIDE DEF asked, only, order, order2
    <2>3. SameButPair(Submit(order, asked, only), Submit(order2, asked, only))
        BY <2>2, SubmittedAlike
    <2>4. QED
        BY <2>1, <2>3, SameTerms
<1>2. CASE c # "clob"
    BY <1>2, BuiltAlike, SameTerms DEF WireOf
<1>3. QED
    BY <1>1, <1>2

LEMMA PostedAlike ==
    ASSUME CallsInv, NEW t \in Tasks, NEW u \in Tasks, NEW id \in Own(t),
           NEW other \in Own(u), ArgsOf(id) = ArgsOf(other),
           task[t].call.asked = task[u].call.asked,
           task[t].call.postOnly = task[u].call.postOnly
    PROVE  Terms(orders[id].wire) = Terms(orders[other].wire)
<1>1. /\ orders[id].wire =
           WireOf(client, task[t].call, ArgsOf(id), PairOf(orders[id].wire))
      /\ orders[other].wire =
           WireOf(client, task[u].call, ArgsOf(other), PairOf(orders[other].wire))
    BY DEF CallsInv, CallInv, HasPosted, Own, ArgsOf
<1>2. QED
    BY <1>1, WiresAlike
-----------------------------------------------------------------------------
(* Whatever a bot posts, with any client, alone or in a batch, and whatever   *)
(* its lookups are answered: the server's orders say what it asked for and    *)
(* no more.                                                                  *)
THEOREM OrdersSay == Spec => []OrdersSayWhatWasAsked
<1>1. CallsInv /\ Inv => NothingBeyondTheCall
    BY PostedWithin DEF NothingBeyondTheCall, WithinTheCall
<1>2. CallsInv => BatchSendsTheSame
    BY PostedAlike DEF BatchSendsTheSame
<1>3. QED
    BY <1>1, <1>2, CallsTheorem, TradingTheorem, PTL DEF OrdersSayWhatWasAsked

(* What a bot is told of the orders it posted is what became of them, and a   *)
(* call refused for its arguments has changed nothing.                       *)
THEOREM AnswersHold == Spec => []AnswersAreTrue
<1>1. CallsInv => ToldWhatWasPlaced
    BY DEF CallsInv, CallInv, RowsAreTrue, Rows, Counts, ToldRowsFit, ToldWhatWasPlaced
<1>2. CallsInv => BadInputChangesNothing
    BY DEF CallsInv, CallInv, HasPosted, HasActed, BadInputChangesNothing, Own
<1>3. QED
    BY <1>1, <1>2, CallsTheorem, PTL DEF AnswersAreTrue

(* What a bot is told was cancelled is; what its call cancelled without       *)
(* saying so is a cancel whose answer was lost; and a sweep leaves nothing    *)
(* open that was there, and touches no other market.                         *)
THEOREM CancelsHold == Spec => []CancelsAreTrue
<1>1. ASSUME CallsInv, Inv, NEW t \in Tasks
      PROVE  LET told == task[t].told
             IN  /\ told.kind = "tally" =>
                      ToSet(task[t].call.ids) = told.canceled \cup told.missed
                 /\ \A id \in told.canceled : orders[id].status = "cancelled"
                 /\ task[t].phase = "done" /\ ~task[t].lost =>
                      \A id \in (told.missed \ told.canceled) \cap DOMAIN orders :
                        orders[id].by # t
    <2> DEFINE k == task[t]
    <2>1. /\ CallGoes(client, k, orders) /\ Tallies(t, k, orders)
          /\ SweepsRightly(t, k, orders) /\ k.call \in PlannedCalls
        BY <1>1 DEF CallsInv, CallInv, Inv, RightTask
    <2>2. k.told.kind = "tally" =>
            ToSet(k.call.ids) = k.told.canceled \cup k.told.missed
        <3>1. DOMAIN k.call.ids = 1..Len(k.call.ids)
            BY <2>1, IdsAreListed
        <3>2. ToSet(k.call.ids) = {k.call.ids[i] : i \in 1..Len(k.call.ids)}
            BY <3>1 DEF ToSet
        <3>3. QED
            BY <2>1, <3>2 DEF CallGoes, Tallies
    <2>3. \A id \in k.told.canceled : orders[id].status = "cancelled"
        BY <2>1 DEF CallGoes, Tallies, SweepsRightly, Gone
    <2>4. k.phase = "done" /\ ~k.lost =>
            \A id \in (k.told.missed \ k.told.canceled) \cap DOMAIN orders : orders[id].by # t
        BY <2>1 DEF CallGoes, Tallies
    <2>5. QED
        BY <2>2, <2>3, <2>4
<1>2. CallsInv /\ Inv => TallyIsTrue
    BY <1>1 DEF TallyIsTrue
<1>3. CallsInv => SweepsTheMarketMeant
    BY DEF CallsInv, CallInv, SweepsRightly, SweepsTheMarketMeant, Op, MeantMarket
<1>4. QED
    BY <1>2, <1>3, CallsTheorem, TradingTheorem, PTL DEF CancelsAreTrue

(* A balance holds every fill there was when it was asked for, and no share   *)
(* of another outcome.                                                       *)
THEOREM BalanceHolds == Spec => []BalanceHoldsTheFills
<1>1. CallsInv => BalanceHoldsTheFills
    <2>1. Bought = BoughtIn(orders)
        BY DEF Bought, Filled, BoughtIn
    <2>2. ASSUME CallsInv, NEW t \in Tasks, task[t].told.kind = "balance"
          PROVE  /\ Cardinality(Mine(task[t].filled, task[t].call.token, orders))
                      <= task[t].told.shares
                 /\ task[t].told.shares
                      <= Cardinality(Mine(Bought, task[t].call.token, orders))
        BY <2>1, <2>2 DEF CallsInv, CallInv, CallGoes, BalancesRightly
    <2>3. QED
        BY <2>2 DEF BalanceHoldsTheFills, Mine
<1>2. QED
    BY <1>1, CallsTheorem, PTL

(* Types: of the server's orders and of each call.                           *)
THEOREM TypesHold == Spec => []TypeOK
<1>1. ASSUME CallsInv, Inv, NEW t \in Tasks
      PROVE  task[t].told.canceled \cup task[t].told.missed \subseteq DOMAIN orders \cup {NoId}
    <2> DEFINE k == task[t]
    <2>1. /\ CallGoes(client, k, orders) /\ Tallies(t, k, orders)
          /\ SweepsRightly(t, k, orders) /\ k.call \in PlannedCalls
        BY <1>1 DEF CallsInv, CallInv, Inv, RightTask
    <2>2. CASE k.call.op \in {"cancelMarket", "cancelAll"}
        BY <2>1, <2>2 DEF CallGoes, SweepsRightly, Gone
    <2>3. CASE k.call.op \notin {"cancel", "cancelMarket", "cancelAll"}
        BY <2>1, <2>3 DEF CallGoes
    <2>4. CASE k.call.op = "cancel" /\ k.phase = "idle"
        <3>1. {k.call.ids[i] : i \in 1..0} = {}
            OBVIOUS
        <3>2. QED
            BY <2>1, <2>4, <3>1 DEF CallGoes, Tallies
    <2>5. CASE k.call.op = "cancel" /\ k.phase # "idle"
        <3>1. /\ Len(k.call.ids) \in Nat /\ DOMAIN k.call.ids = 1..Len(k.call.ids)
              /\ k.tried \in Nat
            BY <2>1, IdsAreListed DEF CallGoes
        <3>2. k.told.kind # "input" => k.tried <= Len(k.call.ids)
            BY <2>1, <2>5, <3>1 DEF CallGoes, Tallies
        <3>3. k.told.kind # "input" =>
                {k.call.ids[i] : i \in 1..k.tried} \subseteq ToSet(k.call.ids)
            BY <3>1, <3>2 DEF ToSet
        <3>4. QED
            BY <2>1, <2>5, <3>3 DEF CallGoes, Tallies
    <2>6. QED
        BY <2>2, <2>3, <2>4, <2>5
<1>2. CallsInv /\ Inv => TypeOK
    <2>1. SUFFICES ASSUME CallsInv, Inv PROVE TypeOK
        OBVIOUS
    <2>2. \A t \in Tasks : /\ task[t].phase \in Phases /\ task[t].tried \in Nat
                           /\ task[t].told.kind \in Kinds
        BY <2>1 DEF CallsInv, CallInv, CallGoes
    <2>3. /\ client \in Clients /\ DOMAIN coordinates \subseteq ClobTokens
          /\ OrdersAreKept(orders)
        BY <2>1 DEF CallsInv, CacheIsOfLookups
    <2>4. QED
        BY <1>1, <2>1, <2>2, <2>3 DEF TypeOK, OrdersAreKept, Phases, Kinds
<1>3. QED
    BY <1>2, CallsTheorem, TradingTheorem, PTL
===============================================================================
