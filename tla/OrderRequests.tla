---------------------------- MODULE OrderRequests ----------------------------
(***************************************************************************)
(* Placing orders through the retrying HTTP transport of polysim_sdk:       *)
(* SyncTransport.request and its async twin (_http.py), the idempotency     *)
(* keys place_order and place_orders put on a request (client.py, aio.py),  *)
(* and retry_on_market_warmup around them (retry.py).                       *)
(*                                                                         *)
(* An intent is what the application wants done once: one order             *)
(* (place_order) or a batch of them (place_orders).  The server is external:*)
(* it may answer late, not at all, or with an error after it has done the   *)
(* work, and it remembers the keys of the orders it has accepted.           *)
(***************************************************************************)
EXTENDS Naturals, Sequences

CONSTANTS
    Intents,         (* callers, each with its own orders                   *)
    Calling,         (* the sets of them that may be at work together       *)
    Orders,          (* all the orders                                      *)
    Batch,           (* the orders of each intent                           *)
    OwnKeyed,        (* orders that come with a key of the caller's         *)
    Async,           (* intents on the async client: they can be cancelled  *)
    MaxRetries,      (* max_retries of the transport                        *)
    WarmupAttempts,  (* attempts of retry_on_market_warmup                  *)
    Transient,       (* bound: the transient statuses the server answers    *)
    MaxCalls         (* bound: client calls made for one intent             *)

ASSUME RequestAssumption ==
    /\ Batch \in [Intents -> SUBSET Orders]
    /\ Calling \subseteq SUBSET Intents
    /\ \A i, j \in Intents : i # j => Batch[i] \cap Batch[j] = {}
    /\ OwnKeyed \subseteq Orders /\ Async \subseteq Intents
    /\ MaxRetries \in Nat /\ WarmupAttempts \in Nat \ {0} /\ MaxCalls \in Nat
    /\ Transient \subseteq {425, 502, 503, 504}     (* _TRANSIENT_STATUS *)

VARIABLES
    req,     (* per intent: the locals of request() and of its callers      *)
    heard,   (* history: outcome of every attempt of the current call       *)
    doubt,   (* history: whether an attempt left open what the server did   *)
    wire,    (* attempts that may still reach the server                    *)
    answer,  (* per intent: response to the current attempt, 0 if none      *)
    known,   (* external: keys of the orders the server has accepted        *)
    fired    (* external: how often each order took effect                  *)

historyVars == <<heard, doubt>>
serverVars == <<known, fired>>
vars == <<req, historyVars, wire, answer, serverVars>>

Network == 0          \* status_code of the error raised for no response
Ok == 200
NotInCatalog == 404   \* MARKET_NOT_FOUND, the warm-up signal
Refused == 400        \* any other error status: raise_for_status
TooMany == 429
Status == Transient \cup {Ok, NotInCatalog, Refused, TooMany}

Retryable(outcome) == outcome \in Transient \cup {Network, TooMany}

(* Outcomes that tell whether the server accepted the orders. *)
Definite(outcome) == outcome \in {Ok, NotInCatalog, TooMany}

Pending == [code |-> "PENDING", status |-> 0]
Returned == [code |-> "OK", status |-> Ok]
Cancelled == [code |-> "CANCELLED", status |-> 0]
RateLimited == [code |-> "RATE_LIMIT_EXCEEDED", status |-> TooMany]
NetworkError == [code |-> "NETWORK_ERROR", status |-> Network]
Exhausted(status) == [code |-> "RETRIES_EXHAUSTED", status |-> status]
ApiError(status) == [code |-> "API_ERROR", status |-> status]

Verdict == [code : {"PENDING", "OK", "CANCELLED", "RATE_LIMIT_EXCEEDED",
                    "NETWORK_ERROR", "RETRIES_EXHAUSTED", "API_ERROR"},
            status : Status \cup {Network}]

(* A key the caller supplied is the same in every call for the order; one    *)
(* the client mints (a UUID4) is new in every call.                          *)
Key(o, call) == <<o, IF o \in OwnKeyed THEN 0 ELSE call>>

Keys == Orders \X Nat

Message(i) ==
    [intent : {i}, call : Nat, attempt : Nat, keys : [Batch[i] -> Keys]]

Request ==
    [phase : {"absent", "idle", "pacing", "waiting", "sleeping", "done"},
     call : 0..MaxCalls, tries : 0..WarmupAttempts, attempt : 0..MaxRetries,
     lastError : BOOLEAN, lastStatus : Transient \cup {0}, verdict : Verdict]

TypeOK ==
    /\ req \in [Intents -> Request]
    /\ heard \in [Intents -> Seq(Status \cup {Network})]
    /\ doubt \in [Intents -> BOOLEAN]
    /\ \A m \in wire : \E i \in Intents : m \in Message(i)
    /\ answer \in [Intents -> Status \cup {0}]
    /\ known \subseteq Keys
    /\ fired \in [Orders -> Nat]

Init ==
    /\ \E active \in Calling : req = [i \in Intents |->
                [phase |-> IF i \in active THEN "idle" ELSE "absent", call |-> 0, tries |-> 0, attempt |-> 0,
                 lastError |-> FALSE, lastStatus |-> 0, verdict |-> Pending]]
    /\ heard = [i \in Intents |-> <<>>]
    /\ doubt = [i \in Intents |-> FALSE]
    /\ wire = {}
    /\ answer = [i \in Intents |-> 0]
    /\ known = {}
    /\ fired = [o \in Orders |-> 0]

-----------------------------------------------------------------------------
(* The callers: place_order, place_orders, retry_on_market_warmup. *)

StartCall(i, tries) ==
    /\ req[i].call < MaxCalls
    /\ req' = [req EXCEPT ![i] =
                 [phase |-> "pacing", call |-> req[i].call + 1,
                  tries |-> tries, attempt |-> 0, lastError |-> FALSE,
                  lastStatus |-> 0, verdict |-> Pending]]
    /\ heard' = [heard EXCEPT ![i] = <<>>]
    /\ UNCHANGED <<doubt, wire, answer, serverVars>>

PlaceOrder(i) == req[i].phase = "idle" /\ StartCall(i, 1)

(* Mutant: the retry helper takes a success for a reason to go on. *)
WarmingUpAfterSuccess(i) ==
    /\ req[i].phase = "done" /\ i \notin Async
    /\ req[i].verdict \in {Returned, ApiError(NotInCatalog)}
    /\ req[i].tries < WarmupAttempts

(* The predicate and the budget of retry_on_market_warmup, which awaits      *)
(* nothing and so only serves the synchronous client.                        *)
WarmingUp(i) ==
    /\ req[i].phase = "done" /\ i \notin Async
    /\ req[i].verdict = ApiError(NotInCatalog)
    /\ req[i].tries < WarmupAttempts

WarmupRetry(i) == WarmingUp(i) /\ StartCall(i, req[i].tries + 1)

(* The application tries again what failed, with the same arguments. *)
CallAgain(i) ==
    /\ req[i].phase = "done" /\ req[i].verdict # Returned /\ ~WarmingUp(i)
    /\ StartCall(i, 1)

-----------------------------------------------------------------------------
(* The loop of request(). *)

(* request() returns or raises. *)
Ends(i, verdict) ==
    req' = [req EXCEPT ![i] = [@ EXCEPT !.phase = "done", !.verdict = verdict]]

(* Mutant: the key is minted where the request is built, in the loop. *)
RequestKeysPerAttempt(i) ==
    [o \in Batch[i] |-> <<o, 10 * req[i].call + req[i].attempt>>]

(* Made once per call, before request() is entered: the header of            *)
(* place_order, the stamped client_order_id of each entry of place_orders.   *)
RequestKeys(i) == [o \in Batch[i] |-> Key(o, req[i].call)]

Send(i) ==
    /\ req[i].phase = "pacing"
    /\ req' = [req EXCEPT ![i].phase = "waiting"]
    /\ wire' = wire \cup {[intent |-> i, call |-> req[i].call,
                           attempt |-> req[i].attempt, keys |-> RequestKeys(i)]}
    /\ UNCHANGED <<historyVars, answer, serverVars>>

(* The attempt is over with this outcome. *)
Hear(i, outcome) ==
    /\ req[i].phase = "waiting"
    /\ heard' = [heard EXCEPT ![i] = Append(@, outcome)]
    /\ doubt' = [doubt EXCEPT ![i] = @ \/ ~Definite(outcome)]
    /\ answer' = [answer EXCEPT ![i] = 0]
    /\ UNCHANGED <<wire, serverVars>>

(* Mutant: the transport error is forgotten. *)
TransportFailsUnrecorded(i) ==
    /\ Hear(i, Network)
    /\ req' = [req EXCEPT ![i].phase = "sleeping"]

(* No connection, a timeout, a broken response: an answer that is on its way *)
(* is lost with the connection, the request itself may still arrive.         *)
TransportFails(i) ==
    /\ Hear(i, Network)
    /\ req' = [req EXCEPT ![i] =
                 [@ EXCEPT !.phase = "sleeping", !.lastError = TRUE]]

ReceiveTransient(i) ==
    /\ answer[i] \in Transient
    /\ Hear(i, answer[i])
    /\ req' = [req EXCEPT ![i] =
                 [@ EXCEPT !.phase = "sleeping", !.lastStatus = answer[i]]]

ReceiveTooMany(i) ==
    /\ answer[i] = TooMany
    /\ Hear(i, TooMany)
    /\ IF req[i].attempt < MaxRetries
       THEN req' = [req EXCEPT ![i].phase = "sleeping"]
       ELSE Ends(i, RateLimited)

ReceiveError(i) ==
    /\ answer[i] \in {NotInCatalog, Refused}
    /\ Hear(i, answer[i])
    /\ Ends(i, ApiError(answer[i]))

ReceiveOk(i) ==
    /\ answer[i] = Ok
    /\ Hear(i, Ok)
    /\ Ends(i, Returned)

(* What is raised when the budget is spent. *)
BudgetSpent(i) ==
    IF req[i].lastError THEN NetworkError ELSE Exhausted(req[i].lastStatus)

(* Mutant: nothing is raised when the budget is spent. *)
AfterSleepStops(i) ==
    /\ req[i].phase = "sleeping" /\ req[i].attempt < MaxRetries
    /\ req' = [req EXCEPT ![i] =
                 [@ EXCEPT !.phase = "pacing",
                         !.attempt = req[i].attempt + 1]]
    /\ UNCHANGED <<historyVars, wire, answer, serverVars>>

(* Mutant: one attempt more than the budget. *)
AfterSleepOneMore(i) ==
    /\ req[i].phase = "sleeping"
    /\ IF req[i].attempt <= MaxRetries
       THEN req' = [req EXCEPT ![i] =
                      [@ EXCEPT !.phase = "pacing",
                         !.attempt = req[i].attempt + 1]]
       ELSE Ends(i, BudgetSpent(i))
    /\ UNCHANGED <<historyVars, wire, answer, serverVars>>

AfterSleep(i) ==
    /\ req[i].phase = "sleeping"
    /\ IF req[i].attempt < MaxRetries
       THEN req' = [req EXCEPT ![i] =
                      [@ EXCEPT !.phase = "pacing",
                         !.attempt = req[i].attempt + 1]]
       ELSE Ends(i, BudgetSpent(i))
    /\ UNCHANGED <<historyVars, wire, answer, serverVars>>

(* A timeout of the caller's around the awaited call. *)
Cancel(i) ==
    /\ i \in Async /\ req[i].phase \in {"pacing", "waiting", "sleeping"}
    /\ Ends(i, Cancelled)
    /\ answer' = [answer EXCEPT ![i] = 0]
    /\ doubt' = [doubt EXCEPT ![i] = TRUE]
    /\ UNCHANGED <<heard, wire, serverVars>>

-----------------------------------------------------------------------------
(* External: the network and the server. *)

Current(m) ==
    /\ req[m.intent].phase = "waiting"
    /\ m.call = req[m.intent].call /\ m.attempt = req[m.intent].attempt

(* The orders of S are accepted; one whose key is known already is replayed. *)
(* A batch may be accepted in part, an error may follow the work done, and   *)
(* only a request whose orders all are accepted is answered Ok.              *)
Accept(m, S, status) ==
    /\ status = Ok => S = Batch[m.intent]
    /\ status \in {NotInCatalog, TooMany} => S = {}
    /\ fired' = [o \in Orders |->
                   IF o \in S /\ m.keys[o] \notin known
                   THEN fired[o] + 1 ELSE fired[o]]
    /\ known' = known \cup {m.keys[o] : o \in S}
    /\ answer' = IF Current(m)
                 THEN [answer EXCEPT ![m.intent] = status] ELSE answer
    /\ wire' = wire \ {m}
    /\ UNCHANGED <<req, historyVars>>

Serve(m) == \E S \in SUBSET Batch[m.intent], status \in Status :
                Accept(m, S, status)

Lose(m) == wire' = wire \ {m} /\ UNCHANGED <<req, historyVars, answer, serverVars>>

-----------------------------------------------------------------------------
CallerStep(i) == PlaceOrder(i) \/ WarmupRetry(i) \/ CallAgain(i)

HearStep(i) ==
    \/ TransportFails(i) \/ ReceiveTransient(i) \/ ReceiveTooMany(i)
    \/ ReceiveError(i) \/ ReceiveOk(i)

Next ==
    \/ \E i \in Intents :
        CallerStep(i) \/ Send(i) \/ HearStep(i) \/ AfterSleep(i) \/ Cancel(i)
    \/ \E m \in wire : Serve(m) \/ Lose(m)

Spec == Init /\ [][Next]_vars

(* A call that has begun runs: sleeps end, and httpx gives every attempt a   *)
(* timeout.  Whether the application calls again, and whether the server     *)
(* ever gets or answers a request, is up to them.                            *)
Fairness ==
    \A i \in Intents :
        WF_vars(Send(i)) /\ WF_vars(HearStep(i)) /\ WF_vars(AfterSleep(i))

FairSpec == Spec /\ Fairness
-----------------------------------------------------------------------------
(* Safety. *)

(* An order with a key of the caller's takes effect at most once, through    *)
(* every retry, every new call and every request that arrives late: the      *)
(* promise of place_order's docstring.                                       *)
OwnKeyFiresOnce == \A o \in OwnKeyed : fired[o] <= 1

(* A minted key protects one call: however many attempts it makes, an order  *)
(* takes effect at most once for each call of the application.               *)
MintedKeyFiresOncePerCall ==
    \A i \in Intents : \A o \in Batch[i] : fired[o] <= req[i].call

(* Together: a key, whoever made it, places an order once for as long as it   *)
(* is the same key.                                                          *)
KeysFireOnce == OwnKeyFiresOnce /\ MintedKeyFiresOncePerCall

(* A call that returns normally has done all its work: the orders of a batch *)
(* are keyed one by one, so that none is taken for a repeat of another.      *)
ReturnedMeansAllFired ==
    \A i \in Intents :
        req[i].verdict = Returned => \A o \in Batch[i] : fired[o] >= 1

(* What the caller of request() is told, as a function of what the attempts  *)
(* met: the reference the loop's two variables and its exits must agree with.*)
VerdictOf(h) ==
    LET last == h[Len(h)]
    IN  CASE last = Ok -> Returned
          [] last \in {NotInCatalog, Refused} -> ApiError(last)
          [] last = TooMany -> RateLimited
          [] OTHER -> IF \E n \in 1..Len(h) : h[n] = Network
                      THEN NetworkError ELSE Exhausted(last)

(* The call ends with the verdict its attempts amount to, at the first one   *)
(* that is final or when the budget of max_retries + 1 attempts is spent,    *)
(* and neither before nor after.                                             *)
VerdictFollowsAttempts ==
    \A i \in Intents :
        LET h == heard[i]
        IN  /\ Len(h) <= MaxRetries + 1
            /\ \A n \in 1..(Len(h) - 1) : Retryable(h[n])
            /\ req[i].phase = "done" /\ req[i].verdict # Cancelled =>
                /\ h # <<>> /\ req[i].verdict = VerdictOf(h)
                /\ Retryable(h[Len(h)]) => Len(h) = MaxRetries + 1

(* Together: the caller can believe what it is told, a success and a failure  *)
(* alike.                                                                    *)
VerdictIsTrue == VerdictFollowsAttempts /\ ReturnedMeansAllFired

(* An order without a key of the caller's is doubled only if an attempt left *)
(* open what the server had done: calling again after a 404 of a market that *)
(* warms up, or after 429, which retry_on_market_warmup and request() do, is *)
(* safe on its own.                                                          *)
DoubledOnlyInDoubt ==
    \A i \in Intents : \A o \in Batch[i] : fired[o] > 1 => doubt[i]

-----------------------------------------------------------------------------
(* Refinement: the orders that come with a key are placed once, as OrderOnce *)
(* promises.                                                                 *)

Confirmed ==
    {o \in OwnKeyed :
        \E i \in Intents : o \in Batch[i] /\ req[i].verdict = Returned}

Promise == INSTANCE OrderOnce WITH
    Orders    <- OwnKeyed,
    times     <- [o \in OwnKeyed |-> fired[o]],
    confirmed <- Confirmed

(* Retries, repeated calls, cancellations, late requests and answers lost    *)
(* after the work was done never place a keyed order twice, and a call that  *)
(* returns has placed it.                                                    *)
KeyedOrdersPlacedOnce == Promise!Spec

-----------------------------------------------------------------------------
(* Liveness, under FairSpec. *)

(* Every call returns or raises, whatever the network does. *)
CallReturns ==
    \A i \in Intents : req[i].phase = "pacing" ~> req[i].phase = "done"

(* tests/test_retry_pacing.py, test_transient_exhaustion_preserves_status_   *)
(* code: "When transient retries are exhausted the caller must still learn   *)
(* the real upstream status".  Refuted when an earlier attempt of the call   *)
(* met a transport error.                                                    *)
ExhaustionKeepsStatus ==
    \A i \in Intents :
        req[i].phase = "done" /\ req[i].verdict # Cancelled
            /\ heard[i] # <<>> /\ heard[i][Len(heard[i])] \in Transient
        => req[i].verdict.status = heard[i][Len(heard[i])]
=============================================================================
