------------------------- MODULE OrderRequestsProofs -------------------------
(***************************************************************************)
(* Proofs about OrderRequests, for every set of intents and orders, every   *)
(* budget of retries and every number of calls: the keys, the verdict and   *)
(* the refinement; then how often an order takes effect over several calls  *)
(* (CallInv) and what is known while nothing is in doubt (DoubtInv).        *)
(***************************************************************************)
EXTENDS OrderRequests, FiniteSetTheorems, TLAPS

(* A request carries the keys its call was made with. *)
WireKeys == \A m \in wire : m.keys = [o \in Batch[m.intent] |-> Key(o, m.call)]

(* An order whose key the server knows took effect. *)
KnownFired == \A k \in known : fired[k[1]] >= 1

(* An order with a key of the caller's took effect once if the server knows  *)
(* the key, and not at all otherwise.                                        *)
KeyedCount == \A o \in OwnKeyed : fired[o] = IF <<o, 0>> \in known THEN 1 ELSE 0

(* An Ok on its way says that all the orders took effect. *)
OkMeansAllFired ==
    \A i \in Intents : answer[i] = Ok => \A o \in Batch[i] : fired[o] >= 1

(* What the server has done agrees with the keys it knows and with what it   *)
(* has answered.                                                             *)
ServerInv ==
    WireKeys /\ KnownFired /\ KeyedCount /\ OkMeansAllFired /\ ReturnedMeansAllFired

AllRetryable(h) == \A n \in 1..Len(h) : Retryable(h[n])

(* The locals r of the loop agree with the outcomes h of its attempts.       *)
LoopAgrees(r, h) ==
    /\ r.phase \in {"absent", "idle"} => h = <<>>
    /\ r.phase \in {"pacing", "waiting"} =>
        Len(h) = r.attempt /\ AllRetryable(h)
    /\ r.phase = "sleeping" =>
        /\ Len(h) = r.attempt + 1 /\ AllRetryable(h)
        /\ h[Len(h)] = TooMany => r.attempt < MaxRetries
        /\ h[Len(h)] \in Transient => r.lastStatus = h[Len(h)]
    /\ r.phase \in {"pacing", "waiting", "sleeping"} =>
        (r.lastError <=> \E n \in 1..Len(h) : h[n] = Network)

(* VerdictFollowsAttempts, for one intent. *)
VerdictAgrees(r, h) ==
    /\ Len(h) <= MaxRetries + 1
    /\ \A n \in 1..(Len(h) - 1) : Retryable(h[n])
    /\ r.phase = "done" /\ r.verdict # Cancelled =>
        /\ h # <<>> /\ r.verdict = VerdictOf(h)
        /\ Retryable(h[Len(h)]) => Len(h) = MaxRetries + 1

Agrees(r, h) == LoopAgrees(r, h) /\ VerdictAgrees(r, h)

LoopInv == \A i \in Intents : Agrees(req[i], heard[i])

(* A call that returned is over. *)
ReturnedIsDone ==
    \A i \in Intents : req[i].verdict = Returned => req[i].phase = "done"

IInv == TypeOK /\ ServerInv /\ LoopInv /\ ReturnedIsDone

-----------------------------------------------------------------------------
(* Type correctness. *)

(* The statuses and verdicts the loop writes are of their types.             *)
LEMMA VerdictFacts ==
    /\ {Ok, NotInCatalog, Refused, TooMany} \subseteq Status
    /\ Transient \subseteq Status
    /\ Status \cup {Network} \subseteq Nat
    /\ {Pending, Returned, Cancelled, RateLimited, NetworkError} \subseteq Verdict
    /\ \A status \in Transient \cup {0} :
        Exhausted(status) \in Verdict /\ ApiError(status) \in Verdict
    /\ ApiError(NotInCatalog) \in Verdict /\ ApiError(Refused) \in Verdict
    BY RequestAssumption
    DEF Status, Verdict, Network, Ok, NotInCatalog, Refused, TooMany, Pending,
        Returned, Cancelled, RateLimited, NetworkError, Exhausted, ApiError

(* An update of the locals of request() leaves a well-typed record.          *)
LEMMA RequestUpdates ==
    ASSUME NEW r \in Request
    PROVE  /\ [r EXCEPT !.phase = "waiting"] \in Request
           /\ [r EXCEPT !.phase = "sleeping"] \in Request
           /\ [r EXCEPT !.phase = "sleeping", !.lastError = TRUE] \in Request
           /\ \A status \in Transient :
                [r EXCEPT !.phase = "sleeping", !.lastStatus = status] \in Request
           /\ r.attempt < MaxRetries =>
                [r EXCEPT !.phase = "pacing", !.attempt = r.attempt + 1] \in Request
           /\ \A verdict \in Verdict :
                [r EXCEPT !.phase = "done", !.verdict = verdict] \in Request
<1>1. r.attempt < MaxRetries => r.attempt + 1 \in 0..MaxRetries
    BY RequestAssumption DEF Request
<1>2. QED
    BY <1>1 DEF Request

(* The steps of a caller and of the loop keep the type of the locals.        *)
LEMMA RequestTyping ==
    ASSUME TypeOK, NEW i \in Intents,
           \/ CallerStep(i) \/ Send(i) \/ HearStep(i) \/ AfterSleep(i)
           \/ Cancel(i)
    PROVE  req' \in [Intents -> Request]
<1>1. req \in [Intents -> Request] /\ req[i] \in Request
    BY DEF TypeOK
<1>2. ASSUME NEW verdict \in Verdict, Ends(i, verdict)
      PROVE  req' \in [Intents -> Request]
    BY <1>1, <1>2, RequestUpdates DEF Ends
<1>3. ASSUME NEW tries \in 0..WarmupAttempts, StartCall(i, tries)
      PROVE  req' \in [Intents -> Request]
    <2>1. req[i].call + 1 \in 0..MaxCalls
        BY <1>1, <1>3, RequestAssumption DEF StartCall, Request
    <2>2. [phase |-> "pacing", call |-> req[i].call + 1, tries |-> tries,
           attempt |-> 0, lastError |-> FALSE, lastStatus |-> 0,
           verdict |-> Pending] \in Request
        BY <2>1, VerdictFacts, RequestAssumption DEF Request
    <2>3. QED
        BY <1>1, <1>3, <2>2 DEF StartCall
<1>4. CASE CallerStep(i)
    <2>1. 1 \in 0..WarmupAttempts
        BY RequestAssumption
    <2>2. WarmingUp(i) => req[i].tries + 1 \in 0..WarmupAttempts
        BY <1>1, RequestAssumption DEF WarmingUp, Request
    <2>3. QED
        BY <1>3, <1>4, <2>1, <2>2
        DEF CallerStep, PlaceOrder, WarmupRetry, CallAgain
<1>5. CASE Send(i)
    BY <1>1, <1>5, RequestUpdates DEF Send
<1>6. CASE TransportFails(i)
    BY <1>1, <1>6, RequestUpdates DEF TransportFails
<1>7. CASE ReceiveTransient(i)
    BY <1>1, <1>7, RequestUpdates DEF ReceiveTransient
<1>8. CASE ReceiveTooMany(i)
    BY <1>1, <1>2, <1>8, RequestUpdates, VerdictFacts DEF ReceiveTooMany
<1>9. CASE ReceiveError(i)
    BY <1>2, <1>9, VerdictFacts DEF ReceiveError
<1>10. CASE ReceiveOk(i)
    BY <1>2, <1>10, VerdictFacts DEF ReceiveOk
<1>11. CASE AfterSleep(i)
    <2>1. BudgetSpent(i) \in Verdict
        BY <1>1, VerdictFacts DEF BudgetSpent, Request
    <2>2. QED
        <3>1. CASE req[i].attempt < MaxRetries
            BY <1>1, <1>11, <3>1, RequestUpdates DEF AfterSleep
        <3>2. CASE ~(req[i].attempt < MaxRetries)
            BY <1>2, <1>11, <2>1, <3>2 DEF AfterSleep
        <3>3. QED
            BY <3>1, <3>2
<1>12. CASE Cancel(i)
    BY <1>2, <1>12, VerdictFacts DEF Cancel
<1>13. QED
    BY <1>4, <1>5, <1>6, <1>7, <1>8, <1>9, <1>10, <1>11, <1>12 DEF HearStep

(* An attempt that is over appends a well-typed outcome to the history.      *)
LEMMA HearTyping ==
    ASSUME TypeOK, NEW i \in Intents, HearStep(i)
    PROVE  \E outcome \in Status \cup {Network} :
               Hear(i, outcome)
    BY VerdictFacts
    DEF HearStep, TransportFails, ReceiveTransient, ReceiveTooMany,
        ReceiveError, ReceiveOk

(* Every step preserves the types. *)
LEMMA Typing ==
    ASSUME TypeOK, [Next]_vars
    PROVE  TypeOK'
<1> USE DEF historyVars, serverVars
<1>1. ASSUME NEW i \in Intents, CallerStep(i)
      PROVE  TypeOK'
    <2>1. heard' = [heard EXCEPT ![i] = <<>>]
        BY <1>1 DEF CallerStep, PlaceOrder, WarmupRetry, CallAgain, StartCall
    <2>2. UNCHANGED <<doubt, wire, answer, known, fired>>
        BY <1>1 DEF CallerStep, PlaceOrder, WarmupRetry, CallAgain, StartCall
    <2>3. QED
        BY <1>1, <2>1, <2>2, RequestTyping DEF TypeOK
<1>2. ASSUME NEW i \in Intents, Send(i)
      PROVE  TypeOK'
    <2>1. req[i].call \in Nat /\ req[i].attempt \in Nat
        BY RequestAssumption DEF TypeOK, Request
    <2>2. RequestKeys(i) \in [Batch[i] -> Keys]
        BY <2>1, RequestAssumption DEF RequestKeys, Key, Keys
    <2>3. [intent |-> i, call |-> req[i].call, attempt |-> req[i].attempt,
           keys |-> RequestKeys(i)] \in Message(i)
        BY <2>1, <2>2 DEF Message
    <2>4. QED
        BY <1>2, <2>3, RequestTyping DEF Send, TypeOK
<1>3. ASSUME NEW i \in Intents, HearStep(i)
      PROVE  TypeOK'
    <2>1. PICK outcome \in Status \cup {Network} : Hear(i, outcome)
        BY <1>3, HearTyping
    <2>2. heard' \in [Intents -> Seq(Status \cup {Network})]
        BY <2>1 DEF Hear, TypeOK
    <2>3. doubt' \in [Intents -> BOOLEAN]
        BY <2>1 DEF Hear, TypeOK, Definite
    <2>4. answer' \in [Intents -> Status \cup {0}]
        BY <2>1 DEF Hear, TypeOK
    <2>5. QED
        BY <1>3, <2>1, <2>2, <2>3, <2>4, RequestTyping DEF Hear, TypeOK
<1>4. ASSUME NEW i \in Intents, AfterSleep(i)
      PROVE  TypeOK'
    BY <1>4, RequestTyping DEF AfterSleep, TypeOK
<1>5. ASSUME NEW i \in Intents, Cancel(i)
      PROVE  TypeOK'
    BY <1>5, RequestTyping DEF Cancel, TypeOK
<1>6. ASSUME NEW m \in wire, NEW S \in SUBSET Batch[m.intent],
             NEW status \in Status, Accept(m, S, status)
      PROVE  TypeOK'
    <2>1. m.intent \in Intents /\ m.keys \in [Batch[m.intent] -> Keys]
        BY DEF Message, TypeOK
    <2>2. known' \subseteq Keys
        BY <1>6, <2>1 DEF Accept, TypeOK
    <2>3. fired' \in [Orders -> Nat]
        BY <1>6 DEF Accept, TypeOK
    <2>4. answer' \in [Intents -> Status \cup {0}]
        BY <1>6, <2>1 DEF Accept, TypeOK
    <2>5. QED
        BY <1>6, <2>2, <2>3, <2>4 DEF Accept, TypeOK
<1>7. ASSUME NEW m \in wire, Lose(m)
      PROVE  TypeOK'
    BY <1>7 DEF Lose, TypeOK
<1>8. CASE UNCHANGED vars
    BY <1>8 DEF vars, TypeOK
<1>9. QED
    BY <1>1, <1>2, <1>3, <1>4, <1>5, <1>6, <1>7, <1>8 DEF Next, Serve

-----------------------------------------------------------------------------
(* The server and the keys. *)

(* No other verdict is taken for a normal return. *)
LEMMA OnlyOkReturns ==
    /\ Returned \notin {Pending, Cancelled, RateLimited, NetworkError}
    /\ \A status : Returned # Exhausted(status) /\ Returned # ApiError(status)
    BY DEF Returned, Pending, Cancelled, RateLimited, NetworkError, Exhausted,
           ApiError

(* What the steps of one intent leave alone, and what they put on the wire.  *)
LEMMA IntentStep ==
    ASSUME TypeOK, NEW i \in Intents,
           \/ CallerStep(i) \/ Send(i) \/ HearStep(i) \/ AfterSleep(i)
           \/ Cancel(i)
    PROVE  /\ UNCHANGED <<known, fired>>
           /\ \A m \in wire' :
                \/ m \in wire
                \/ m.intent = i /\ m.keys = [o \in Batch[i] |-> Key(o, m.call)]
           /\ \A j \in Intents : answer'[j] = Ok => answer[j] = Ok
           /\ \A j \in Intents : j # i =>
                req'[j] = req[j] /\ heard'[j] = heard[j]
           /\ req'[i].verdict = Returned =>
                req[i].verdict = Returned \/ answer[i] = Ok
<1> USE DEF historyVars, serverVars
<1>1. req \in [Intents -> Request] /\ req[i] \in Request
    BY DEF TypeOK
<1>2. answer \in [Intents -> Status \cup {0}] /\ Ok # 0
    BY DEF TypeOK, Ok
<1>3. heard \in [Intents -> Seq(Status \cup {Network})]
    BY DEF TypeOK
<1>4. ASSUME NEW verdict, Ends(i, verdict)
      PROVE  /\ req'[i].verdict = verdict
             /\ \A j \in Intents : j # i => req'[j] = req[j]
    BY <1>1, <1>4 DEF Ends, Request
<1>5. CASE CallerStep(i)
    <2>1. PICK tries : StartCall(i, tries)
        BY <1>5 DEF CallerStep, PlaceOrder, WarmupRetry, CallAgain
    <2>2. QED
        BY <1>1, <1>2, <1>3, <2>1, OnlyOkReturns DEF StartCall
<1>6. CASE Send(i)
    <2>1. req'[i].verdict = req[i].verdict
        BY <1>1, <1>6 DEF Send, Request
    <2>2. QED
        BY <1>1, <1>6, <2>1 DEF Send, RequestKeys
<1>7. CASE HearStep(i)
    <2>1. PICK outcome \in Status \cup {Network} : Hear(i, outcome)
        BY <1>7, HearTyping
    <2>2. /\ UNCHANGED <<known, fired, wire>>
          /\ \A j \in Intents : answer'[j] = Ok => answer[j] = Ok
          /\ \A j \in Intents : j # i => heard'[j] = heard[j]
        BY <1>2, <1>3, <2>1 DEF Hear
    <2>3. \A j \in Intents : j # i => req'[j] = req[j]
        <3>1. CASE TransportFails(i)
            BY <1>1, <3>1 DEF TransportFails
        <3>2. CASE ReceiveTransient(i)
            BY <1>1, <3>2 DEF ReceiveTransient
        <3>3. CASE ReceiveTooMany(i)
            BY <1>1, <1>4, <3>3 DEF ReceiveTooMany
        <3>4. CASE ReceiveError(i) \/ ReceiveOk(i)
            BY <1>4, <3>4 DEF ReceiveError, ReceiveOk
        <3>5. QED
            BY <1>7, <3>1, <3>2, <3>3, <3>4 DEF HearStep
    <2>4. req'[i].verdict = Returned =>
             req[i].verdict = Returned \/ answer[i] = Ok
        <3>1. CASE TransportFails(i)
            BY <1>1, <3>1 DEF TransportFails, Request
        <3>2. CASE ReceiveTransient(i)
            BY <1>1, <3>2 DEF ReceiveTransient, Request
        <3>3. CASE ReceiveTooMany(i)
            BY <1>1, <1>4, <3>3, OnlyOkReturns DEF ReceiveTooMany, Request
        <3>4. CASE ReceiveError(i)
            BY <1>4, <3>4, OnlyOkReturns DEF ReceiveError
        <3>5. CASE ReceiveOk(i)
            BY <3>5 DEF ReceiveOk
        <3>6. QED
            BY <1>7, <3>1, <3>2, <3>3, <3>4, <3>5 DEF HearStep
    <2>5. QED
        BY <2>2, <2>3, <2>4
<1>8. CASE AfterSleep(i)
    <2>1. BudgetSpent(i) # Returned
        BY OnlyOkReturns DEF BudgetSpent
    <2>2. CASE req[i].attempt < MaxRetries
        BY <1>1, <1>8, <2>2 DEF AfterSleep, Request
    <2>3. CASE ~(req[i].attempt < MaxRetries)
        BY <1>4, <1>8, <2>1, <2>3 DEF AfterSleep
    <2>4. QED
        BY <2>2, <2>3
<1>9. CASE Cancel(i)
    BY <1>2, <1>4, <1>9, OnlyOkReturns DEF Cancel
<1>10. QED
    BY <1>5, <1>6, <1>7, <1>8, <1>9

(* A server that accepts orders counts each key once. *)
LEMMA AcceptStep ==
    ASSUME TypeOK, ServerInv, NEW m \in wire, NEW S \in SUBSET Batch[m.intent],
           NEW status \in Status, Accept(m, S, status)
    PROVE  ServerInv'
<1>1. /\ m.intent \in Intents /\ m.call \in Nat
      /\ Batch[m.intent] \subseteq Orders
      /\ m.keys = [o \in Batch[m.intent] |-> Key(o, m.call)]
    <2>1. m.intent \in Intents /\ m.call \in Nat
        BY DEF TypeOK, Message
    <2>2. m.keys = [o \in Batch[m.intent] |-> Key(o, m.call)]
        BY DEF ServerInv, WireKeys
    <2>3. QED
        BY <2>1, <2>2, RequestAssumption
<1>2. fired \in [Orders -> Nat] /\ known \subseteq Keys
    BY DEF TypeOK
<1>3. \A o \in Orders :
        fired'[o] = IF o \in S /\ Key(o, m.call) \notin known
                    THEN fired[o] + 1 ELSE fired[o]
    BY <1>1, <1>2 DEF Accept
<1>4. known' = known \cup {Key(o, m.call) : o \in S}
    BY <1>1 DEF Accept
<1>5. \A o \in Orders : fired'[o] >= fired[o]
    BY <1>2, <1>3
<1>6. \A o \in S : fired'[o] >= 1
    <2>1. SUFFICES ASSUME NEW o \in S PROVE fired'[o] >= 1
        OBVIOUS
    <2>2. Key(o, m.call) \in known => fired[o] >= 1
        BY DEF ServerInv, KnownFired, Key
    <2>3. QED
        BY <1>1, <1>2, <1>3, <2>2
<1>7. wire' \subseteq wire /\ UNCHANGED req
    BY DEF Accept
<1>8. \A k \in known' : fired'[k[1]] >= 1
    <2>1. SUFFICES ASSUME NEW k \in known' PROVE fired'[k[1]] >= 1
        OBVIOUS
    <2>2. CASE k \in known
        <3>1. k[1] \in Orders /\ fired[k[1]] >= 1
            BY <1>2, <2>2 DEF Keys, ServerInv, KnownFired
        <3>2. QED
            BY <1>2, <1>3, <3>1
    <2>3. CASE k \notin known
        <3>1. PICK o \in S : k = Key(o, m.call)
            BY <1>4, <2>3
        <3>2. k[1] = o
            BY <3>1 DEF Key
        <3>3. QED
            BY <1>6, <3>2
    <2>4. QED
        BY <2>2, <2>3
<1>9. \A o \in OwnKeyed : fired'[o] = IF <<o, 0>> \in known' THEN 1 ELSE 0
    <2>1. SUFFICES ASSUME NEW o \in OwnKeyed
                   PROVE  fired'[o] = IF <<o, 0>> \in known' THEN 1 ELSE 0
        OBVIOUS
    <2>2. /\ o \in Orders /\ Key(o, m.call) = <<o, 0>>
          /\ fired[o] = IF <<o, 0>> \in known THEN 1 ELSE 0
        <3>1. o \in Orders
            BY RequestAssumption
        <3>2. Key(o, m.call) = <<o, 0>>
            BY DEF Key
        <3>3. QED
            BY <3>1, <3>2 DEF ServerInv, KeyedCount
    <2>3. <<o, 0>> \in known' <=> <<o, 0>> \in known \/ o \in S
        BY <1>4, <2>2 DEF Key
    <2>4. QED
        BY <1>3, <2>2, <2>3
<1>10. \A i \in Intents : answer'[i] = Ok => \A o \in Batch[i] : fired'[o] >= 1
    <2>1. SUFFICES ASSUME NEW i \in Intents, answer'[i] = Ok, NEW o \in Batch[i]
                   PROVE  fired'[o] >= 1
        OBVIOUS
    <2>2. o \in Orders
        BY RequestAssumption
    <2>3. CASE answer[i] = Ok
        <3>1. fired[o] >= 1
            BY <2>1, <2>3 DEF ServerInv, OkMeansAllFired
        <3>2. QED
            BY <1>2, <1>3, <2>2, <3>1
    <2>4. CASE answer[i] # Ok
        <3>1. i = m.intent /\ status = Ok
            BY <1>1, <2>1, <2>4 DEF Accept, TypeOK
        <3>2. QED
            BY <1>6, <3>1 DEF Accept
    <2>5. QED
        BY <2>3, <2>4
<1>11. ReturnedMeansAllFired'
    <2>1. SUFFICES ASSUME NEW i \in Intents, req[i].verdict = Returned,
                          NEW o \in Batch[i]
                   PROVE  fired'[o] >= 1
        BY <1>7 DEF ReturnedMeansAllFired
    <2>2. o \in Orders /\ fired[o] >= 1
        <3>1. o \in Orders
            BY RequestAssumption
        <3>2. QED
            BY <2>1, <3>1 DEF ServerInv, ReturnedMeansAllFired
    <2>3. QED
        BY <1>2, <1>3, <2>2
<1>12. QED
    BY <1>7, <1>8, <1>9, <1>10, <1>11
    DEF ServerInv, WireKeys, KnownFired, KeyedCount, OkMeansAllFired

(* Every step keeps the server's bookkeeping in agreement. *)
LEMMA ServerStep ==
    ASSUME TypeOK, ServerInv, [Next]_vars
    PROVE  ServerInv'
<1> USE DEF historyVars, serverVars
<1>1. ASSUME NEW i \in Intents,
             \/ CallerStep(i) \/ Send(i) \/ HearStep(i) \/ AfterSleep(i)
             \/ Cancel(i)
      PROVE  ServerInv'
    <2>1. /\ known' = known /\ fired' = fired
          /\ \A j \in Intents : answer'[j] = Ok => answer[j] = Ok
          /\ \A m \in wire' :
                \/ m \in wire
                \/ m.intent = i /\ m.keys = [o \in Batch[i] |-> Key(o, m.call)]
        BY <1>1, IntentStep
    <2>2. \A j \in Intents : req'[j].verdict = Returned =>
             req[j].verdict = Returned \/ answer[j] = Ok
        BY <1>1, IntentStep
    <2>3. ReturnedMeansAllFired'
        BY <2>1, <2>2 DEF ServerInv, OkMeansAllFired, ReturnedMeansAllFired
    <2>4. \A m \in wire' : m.keys = [o \in Batch[m.intent] |-> Key(o, m.call)]
        BY <2>1 DEF ServerInv, WireKeys
    <2>5. QED
        BY <2>1, <2>3, <2>4
        DEF ServerInv, WireKeys, KnownFired, KeyedCount, OkMeansAllFired
<1>2. ASSUME NEW m \in wire, Lose(m)
      PROVE  ServerInv'
    BY <1>2 DEF Lose, ServerInv, WireKeys, KnownFired, KeyedCount, OkMeansAllFired,
        ReturnedMeansAllFired
<1>3. CASE UNCHANGED vars
    BY <1>3 DEF vars, ServerInv, WireKeys, KnownFired, KeyedCount, OkMeansAllFired,
        ReturnedMeansAllFired
<1>4. QED
    BY <1>1, <1>2, <1>3, AcceptStep DEF Next, Serve

-----------------------------------------------------------------------------
(* The loop and its verdict. *)

Outcomes == Status \cup {Network}

(* The statuses are apart: no outcome is of two kinds. *)
LEMMA StatusesDiffer ==
    /\ Network \notin Transient /\ TooMany \notin Transient
    /\ Ok \notin Transient /\ NotInCatalog \notin Transient
    /\ Refused \notin Transient
    /\ Network # TooMany /\ Network # Ok /\ TooMany # Ok
    /\ Network \notin {NotInCatalog, Refused}
    /\ TooMany \notin {NotInCatalog, Refused}
    /\ Ok \notin {NotInCatalog, Refused}
    BY RequestAssumption
    DEF Network, TooMany, Ok, NotInCatalog, Refused

(* One more outcome in the history. *)
LEMMA HearMore ==
    ASSUME NEW r \in Request, NEW h \in Seq(Outcomes), NEW e \in Outcomes,
           r.phase = "waiting", Agrees(r, h)
    PROVE  /\ Append(h, e) \in Seq(Outcomes)
           /\ Append(h, e) # <<>>
           /\ Len(Append(h, e)) = r.attempt + 1
           /\ Append(h, e)[Len(Append(h, e))] = e
           /\ \A n \in 1..Len(Append(h, e)) :
                n # Len(Append(h, e)) => Retryable(Append(h, e)[n])
           /\ (\E n \in 1..Len(Append(h, e)) : Append(h, e)[n] = Network)
                <=> (r.lastError \/ e = Network)
           /\ r.attempt \in 0..MaxRetries /\ r.lastError \in BOOLEAN
<1>1. /\ Len(h) = r.attempt /\ r.attempt \in 0..MaxRetries
      /\ AllRetryable(h)
      /\ r.lastError \in BOOLEAN
      /\ r.lastError <=> \E n \in 1..Len(h) : h[n] = Network
    BY DEF Agrees, LoopAgrees, Request
<1> DEFINE a == Append(h, e)
<1>2. /\ a \in Seq(Outcomes) /\ Len(a) = Len(h) + 1
      /\ \A n \in 1..Len(h) : a[n] = h[n]
      /\ a[Len(h) + 1] = e
    OBVIOUS
<1>3. Len(h) \in Nat
    OBVIOUS
<1>4. \A n \in 1..Len(a) : n # Len(a) => n \in 1..Len(h)
    BY <1>2, <1>3
<1>5. \A n \in 1..Len(a) : n # Len(a) => Retryable(a[n])
    BY <1>1, <1>2, <1>4 DEF AllRetryable
<1>6. (\E n \in 1..Len(a) : a[n] = Network) <=> (r.lastError \/ e = Network)
    <2>1. ASSUME NEW n \in 1..Len(a), a[n] = Network
          PROVE  r.lastError \/ e = Network
        <3>1. CASE n = Len(a)
            BY <1>2, <2>1, <3>1
        <3>2. CASE n # Len(a)
            BY <1>1, <1>2, <1>4, <2>1, <3>2
        <3>3. QED
            BY <3>1, <3>2
    <2>2. ASSUME r.lastError
          PROVE  \E n \in 1..Len(a) : a[n] = Network
        <3>1. PICK n \in 1..Len(h) : h[n] = Network
            BY <1>1, <2>2
        <3>2. n \in 1..Len(a) /\ a[n] = Network
            BY <1>2, <1>3, <3>1
        <3>3. QED
            BY <3>2
    <2>3. ASSUME e = Network
          PROVE  \E n \in 1..Len(a) : a[n] = Network
        <3>1. Len(a) \in 1..Len(a) /\ a[Len(a)] = Network
            BY <1>2, <1>3, <2>3
        <3>2. QED
            BY <3>1
    <2>4. QED
        BY <2>1, <2>2, <2>3
<1>7. a # <<>>
    BY <1>2, <1>3
<1>8. QED
    BY <1>1, <1>2, <1>5, <1>6, <1>7

(* An attempt whose outcome asks for another: the loop sleeps. *)
LEMMA HearAndSleep ==
    ASSUME NEW r \in Request, NEW h \in Seq(Outcomes), NEW e \in Outcomes,
           NEW r2 \in Request,
           r.phase = "waiting", Agrees(r, h), Retryable(e),
           r2.phase = "sleeping", r2.attempt = r.attempt,
           r2.lastError <=> (r.lastError \/ e = Network),
           e = TooMany => r.attempt < MaxRetries,
           e \in Transient => r2.lastStatus = e
    PROVE  Agrees(r2, Append(h, e))
<1> DEFINE a == Append(h, e)
<1>1. /\ a # <<>> /\ Len(a) = r.attempt + 1 /\ a[Len(a)] = e
      /\ \A n \in 1..Len(a) : n # Len(a) => Retryable(a[n])
      /\ (\E n \in 1..Len(a) : a[n] = Network) <=> (r.lastError \/ e = Network)
      /\ r.attempt \in 0..MaxRetries
    BY HearMore
<1> HIDE DEF a
<1>2. AllRetryable(a)
    BY <1>1 DEF AllRetryable
<1>3. LoopAgrees(r2, a)
    BY <1>1, <1>2 DEF LoopAgrees
<1>4. VerdictAgrees(r2, a)
    <2>1. Len(a) <= MaxRetries + 1 /\ Len(a) \in Nat
        BY <1>1, RequestAssumption
    <2>2. \A n \in 1..(Len(a) - 1) : Retryable(a[n])
        BY <1>2, <2>1 DEF AllRetryable
    <2>3. QED
        BY <2>1, <2>2 DEF VerdictAgrees
<1>5. QED
    BY <1>3, <1>4 DEF Agrees, a

(* An attempt whose outcome is final: the loop returns or raises. *)
LEMMA HearAndEnd ==
    ASSUME NEW r \in Request, NEW h \in Seq(Outcomes), NEW e \in Outcomes,
           NEW r2 \in Request,
           r.phase = "waiting", Agrees(r, h),
           r2.phase = "done",
           \/ e = Ok /\ r2.verdict = Returned
           \/ e \in {NotInCatalog, Refused} /\ r2.verdict = ApiError(e)
           \/ e = TooMany /\ r2.verdict = RateLimited /\ r.attempt = MaxRetries
    PROVE  Agrees(r2, Append(h, e))
<1> DEFINE a == Append(h, e)
<1>1. /\ a # <<>> /\ Len(a) = r.attempt + 1 /\ a[Len(a)] = e
      /\ \A n \in 1..Len(a) : n # Len(a) => Retryable(a[n])
      /\ r.attempt \in 0..MaxRetries
    BY HearMore
<1> HIDE DEF a
<1>2. LoopAgrees(r2, a)
    BY DEF LoopAgrees
<1>3. Len(a) <= MaxRetries + 1 /\ Len(a) \in Nat
    BY <1>1, RequestAssumption
<1>4. \A n \in 1..(Len(a) - 1) : Retryable(a[n])
    BY <1>1, <1>3
<1>5. r2.verdict = VerdictOf(a)
    BY <1>1, StatusesDiffer DEF VerdictOf
<1>6. Retryable(a[Len(a)]) => Len(a) = MaxRetries + 1
    BY <1>1, StatusesDiffer DEF Retryable
<1>7. VerdictAgrees(r2, a)
    BY <1>1, <1>3, <1>4, <1>5, <1>6 DEF VerdictAgrees
<1>8. QED
    BY <1>2, <1>7 DEF Agrees, a

(* The budget is spent: the two variables of the loop hold the verdict. *)
LEMMA SpentAgrees ==
    ASSUME NEW r \in Request, NEW h \in Seq(Outcomes), NEW r2 \in Request,
           r.phase = "sleeping", Agrees(r, h), ~(r.attempt < MaxRetries),
           r2.phase = "done",
           r2.verdict = IF r.lastError THEN NetworkError
                        ELSE Exhausted(r.lastStatus)
    PROVE  Agrees(r2, h)
<1>1. /\ Len(h) = r.attempt + 1 /\ AllRetryable(h) /\ h[Len(h)] # TooMany
      /\ h[Len(h)] \in Transient => r.lastStatus = h[Len(h)]
      /\ r.lastError <=> \E n \in 1..Len(h) : h[n] = Network
    BY DEF Agrees, LoopAgrees
<1>2. r.attempt = MaxRetries
    BY RequestAssumption DEF Request
<1>3. Len(h) = MaxRetries + 1 /\ Len(h) \in 1..Len(h) /\ h # <<>>
    BY <1>1, <1>2, RequestAssumption
<1>4. h[Len(h)] \in Transient \cup {Network}
    BY <1>1, <1>3 DEF AllRetryable, Retryable
<1>5. r2.verdict = VerdictOf(h)
    <2>1. VerdictOf(h) = IF \E n \in 1..Len(h) : h[n] = Network
                         THEN NetworkError ELSE Exhausted(h[Len(h)])
        BY <1>4, StatusesDiffer DEF VerdictOf
    <2>2. CASE r.lastError
        BY <1>1, <2>1, <2>2
    <2>3. CASE ~r.lastError
        <3>1. h[Len(h)] # Network
            BY <1>1, <1>3, <2>3
        <3>2. QED
            BY <1>1, <1>4, <2>1, <2>3, <3>1
    <2>4. QED
        BY <2>2, <2>3
<1>6. \A n \in 1..(Len(h) - 1) : Retryable(h[n])
    BY <1>1, <1>3 DEF AllRetryable
<1>7. LoopAgrees(r2, h)
    BY DEF LoopAgrees
<1>8. VerdictAgrees(r2, h)
    BY <1>3, <1>5, <1>6, RequestAssumption DEF VerdictAgrees
<1>9. QED
    BY <1>7, <1>8 DEF Agrees

(* Every step of an intent keeps its loop in agreement. *)
LEMMA LoopStep ==
    ASSUME TypeOK, TypeOK', NEW i \in Intents, Agrees(req[i], heard[i]),
           \/ CallerStep(i) \/ Send(i) \/ HearStep(i) \/ AfterSleep(i)
           \/ Cancel(i)
    PROVE  Agrees(req'[i], heard'[i])
<1> USE DEF historyVars, serverVars
<1>1. /\ req \in [Intents -> Request] /\ req' \in [Intents -> Request]
      /\ heard \in [Intents -> Seq(Outcomes)]
      /\ heard' \in [Intents -> Seq(Outcomes)]
    BY DEF TypeOK, Outcomes
<1>2. /\ req[i] \in Request /\ req'[i] \in Request
      /\ heard[i] \in Seq(Outcomes)
    BY <1>1
<1>3. ASSUME NEW verdict, Ends(i, verdict)
      PROVE  req'[i] = [req[i] EXCEPT !.phase = "done", !.verdict = verdict]
    BY <1>1, <1>3 DEF Ends
<1>4. CASE CallerStep(i)
    <2>1. PICK tries : StartCall(i, tries)
        BY <1>4 DEF CallerStep, PlaceOrder, WarmupRetry, CallAgain
    <2>2. /\ req'[i].phase = "pacing" /\ req'[i].attempt = 0
          /\ req'[i].lastError = FALSE /\ heard'[i] = <<>>
        BY <1>1, <2>1 DEF StartCall
    <2>3. QED
        BY <2>2, RequestAssumption
        DEF Agrees, LoopAgrees, VerdictAgrees, AllRetryable
<1>5. CASE Send(i)
    <2>1. /\ req'[i] = [req[i] EXCEPT !.phase = "waiting"]
          /\ req[i].phase = "pacing" /\ heard'[i] = heard[i]
        BY <1>1, <1>5 DEF Send
    <2>2. /\ req'[i].phase = "waiting" /\ req'[i].attempt = req[i].attempt
          /\ req'[i].lastError = req[i].lastError
        BY <1>2, <2>1 DEF Request
    <2>3. QED
        BY <2>1, <2>2 DEF Agrees, LoopAgrees, VerdictAgrees
<1>6. CASE TransportFails(i)
    <2>1. /\ req'[i] = [req[i] EXCEPT !.phase = "sleeping", !.lastError = TRUE]
          /\ req[i].phase = "waiting" /\ heard'[i] = Append(heard[i], Network)
        BY <1>1, <1>6 DEF TransportFails, Hear
    <2>2. /\ req'[i].phase = "sleeping" /\ req'[i].attempt = req[i].attempt
          /\ req'[i].lastError = TRUE
        BY <1>2, <2>1 DEF Request
    <2>3. Network \in Outcomes /\ Retryable(Network)
        BY DEF Outcomes, Retryable
    <2>4. Network # TooMany /\ Network \notin Transient
        BY StatusesDiffer
    <2>5. req'[i].lastError <=> (req[i].lastError \/ Network = Network)
        BY <2>2
    <2>6. Agrees(req'[i], Append(heard[i], Network))
        BY <1>2, <2>1, <2>2, <2>3, <2>4, <2>5, HearAndSleep
    <2>7. QED
        BY <2>1, <2>6
<1>7. CASE ReceiveTransient(i)
    <2>1. /\ req'[i] = [req[i] EXCEPT !.phase = "sleeping",
                                      !.lastStatus = answer[i]]
          /\ req[i].phase = "waiting" /\ heard'[i] = Append(heard[i], answer[i])
          /\ answer[i] \in Transient
        BY <1>1, <1>7 DEF ReceiveTransient, Hear
    <2>2. /\ req'[i].phase = "sleeping" /\ req'[i].attempt = req[i].attempt
          /\ req'[i].lastError = req[i].lastError
          /\ req'[i].lastStatus = answer[i]
        BY <1>2, <2>1 DEF Request
    <2>3. answer[i] \in Outcomes /\ Retryable(answer[i])
        BY <2>1, VerdictFacts DEF Outcomes, Retryable
    <2>4. answer[i] # Network /\ answer[i] # TooMany
        BY <2>1, StatusesDiffer
    <2>5. req'[i].lastError <=> (req[i].lastError \/ answer[i] = Network)
        BY <2>2, <2>4
    <2>6. Agrees(req'[i], Append(heard[i], answer[i]))
        BY <1>2, <2>1, <2>2, <2>3, <2>4, <2>5, HearAndSleep
    <2>7. QED
        BY <2>1, <2>6
<1>8. CASE ReceiveTooMany(i)
    <2>1. /\ req[i].phase = "waiting" /\ heard'[i] = Append(heard[i], TooMany)
        BY <1>1, <1>8 DEF ReceiveTooMany, Hear
    <2>2. TooMany \in Outcomes /\ Retryable(TooMany)
        BY VerdictFacts DEF Outcomes, Retryable
    <2>3. CASE req[i].attempt < MaxRetries
        <3>1. req'[i] = [req[i] EXCEPT !.phase = "sleeping"]
            BY <1>1, <1>8, <2>3 DEF ReceiveTooMany
        <3>2. /\ req'[i].phase = "sleeping" /\ req'[i].attempt = req[i].attempt
              /\ req'[i].lastError = req[i].lastError
            BY <1>2, <3>1 DEF Request
        <3>3. QED
            BY <1>2, <2>1, <2>2, <2>3, <3>2, StatusesDiffer, HearAndSleep
    <2>4. CASE ~(req[i].attempt < MaxRetries)
        <3>1. req'[i] = [req[i] EXCEPT !.phase = "done", !.verdict = RateLimited]
            BY <1>3, <1>8, <2>4 DEF ReceiveTooMany
        <3>2. req'[i].phase = "done" /\ req'[i].verdict = RateLimited
            BY <1>2, <3>1 DEF Request
        <3>3. req[i].attempt = MaxRetries
            BY <1>2, <2>4, RequestAssumption DEF Request
        <3>4. QED
            BY <1>2, <2>1, <2>2, <3>2, <3>3, HearAndEnd
    <2>5. QED
        BY <2>3, <2>4
<1>9. CASE ReceiveError(i)
    <2>1. /\ req[i].phase = "waiting" /\ heard'[i] = Append(heard[i], answer[i])
          /\ answer[i] \in {NotInCatalog, Refused}
        BY <1>1, <1>9 DEF ReceiveError, Hear
    <2>2. req'[i] = [req[i] EXCEPT !.phase = "done",
                                   !.verdict = ApiError(answer[i])]
        BY <1>3, <1>9 DEF ReceiveError
    <2>3. req'[i].phase = "done" /\ req'[i].verdict = ApiError(answer[i])
        BY <1>2, <2>2 DEF Request
    <2>4. answer[i] \in Outcomes
        BY <2>1, VerdictFacts DEF Outcomes
    <2>5. QED
        BY <1>2, <2>1, <2>3, <2>4, HearAndEnd
<1>10. CASE ReceiveOk(i)
    <2>1. /\ req[i].phase = "waiting" /\ heard'[i] = Append(heard[i], Ok)
        BY <1>1, <1>10 DEF ReceiveOk, Hear
    <2>2. req'[i] = [req[i] EXCEPT !.phase = "done", !.verdict = Returned]
        BY <1>3, <1>10 DEF ReceiveOk
    <2>3. req'[i].phase = "done" /\ req'[i].verdict = Returned
        BY <1>2, <2>2 DEF Request
    <2>4. Ok \in Outcomes
        BY VerdictFacts DEF Outcomes
    <2>5. QED
        BY <1>2, <2>1, <2>3, <2>4, HearAndEnd
<1>11. CASE AfterSleep(i)
    <2>1. req[i].phase = "sleeping" /\ heard'[i] = heard[i]
        BY <1>11 DEF AfterSleep
    <2>2. CASE req[i].attempt < MaxRetries
        <3>1. req'[i] = [req[i] EXCEPT !.phase = "pacing",
                                       !.attempt = req[i].attempt + 1]
            BY <1>1, <1>11, <2>2 DEF AfterSleep
        <3>2. /\ req'[i].phase = "pacing"
              /\ req'[i].attempt = req[i].attempt + 1
              /\ req'[i].lastError = req[i].lastError
            BY <1>2, <3>1 DEF Request
        <3>3. QED
            BY <2>1, <3>2 DEF Agrees, LoopAgrees, VerdictAgrees
    <2>3. CASE ~(req[i].attempt < MaxRetries)
        <3>1. req'[i] = [req[i] EXCEPT !.phase = "done",
                                       !.verdict = BudgetSpent(i)]
            BY <1>3, <1>11, <2>3 DEF AfterSleep
        <3>2. req'[i].phase = "done" /\ req'[i].verdict = BudgetSpent(i)
            BY <1>2, <3>1 DEF Request
        <3>3. QED
            BY <1>2, <2>1, <2>3, <3>2, SpentAgrees DEF BudgetSpent
    <2>4. QED
        BY <2>2, <2>3
<1>12. CASE Cancel(i)
    <2>1. /\ req[i].phase \in {"pacing", "waiting", "sleeping"}
          /\ heard'[i] = heard[i]
        BY <1>12 DEF Cancel
    <2>2. req'[i] = [req[i] EXCEPT !.phase = "done", !.verdict = Cancelled]
        BY <1>3, <1>12 DEF Cancel
    <2>3. req'[i].phase = "done" /\ req'[i].verdict = Cancelled
        BY <1>2, <2>2 DEF Request
    <2>4. QED
        BY <2>1, <2>3 DEF Agrees, LoopAgrees, VerdictAgrees
<1>13. QED
    BY <1>4, <1>5, <1>6, <1>7, <1>8, <1>9, <1>10, <1>11, <1>12 DEF HearStep

(* Every step keeps every loop in agreement. *)
LEMMA LoopInvStep ==
    ASSUME TypeOK, TypeOK', LoopInv, [Next]_vars
    PROVE  LoopInv'
<1> USE DEF historyVars, serverVars
<1>1. ASSUME NEW i \in Intents,
             \/ CallerStep(i) \/ Send(i) \/ HearStep(i) \/ AfterSleep(i)
             \/ Cancel(i)
      PROVE  LoopInv'
    <2>1. SUFFICES ASSUME NEW j \in Intents
                   PROVE  Agrees(req'[j], heard'[j])
        BY DEF LoopInv, Agrees, LoopAgrees, VerdictAgrees
    <2>2. Agrees(req[j], heard[j]) /\ Agrees(req[i], heard[i])
        BY DEF LoopInv
    <2>3. CASE j = i
        BY <1>1, <2>2, <2>3, LoopStep
    <2>4. CASE j # i
        BY <1>1, <2>2, <2>4, IntentStep
    <2>5. QED
        BY <2>3, <2>4
<1>2. ASSUME UNCHANGED <<req, heard>>
      PROVE  LoopInv'
    BY <1>2 DEF LoopInv, Agrees, LoopAgrees, VerdictAgrees
<1>3. ASSUME NEW m \in wire, Serve(m) \/ Lose(m)
      PROVE  UNCHANGED <<req, heard>>
    BY <1>3 DEF Serve, Accept, Lose
<1>4. CASE UNCHANGED vars
    BY <1>2, <1>4 DEF vars
<1>5. QED
    BY <1>1, <1>2, <1>3, <1>4 DEF Next

(* A call that returned takes no further step, and none but one that is over *)
(* has returned.                                                             *)
LEMMA ReturnedStays ==
    ASSUME TypeOK, ReturnedIsDone, NEW i \in Intents,
           \/ CallerStep(i) \/ Send(i) \/ HearStep(i) \/ AfterSleep(i)
           \/ Cancel(i)
    PROVE  /\ req[i].verdict # Returned
           /\ req'[i].verdict = Returned => req'[i].phase = "done"
<1>1. req \in [Intents -> Request] /\ req[i] \in Request
    BY DEF TypeOK
<1>2. ASSUME NEW verdict, Ends(i, verdict)
      PROVE  req'[i].phase = "done"
    BY <1>1, <1>2 DEF Ends, Request
<1>3. req[i].verdict # Returned
    <2>1. SUFFICES ASSUME req[i].verdict = Returned PROVE FALSE
        OBVIOUS
    <2>2. req[i].phase = "done"
        BY <2>1 DEF ReturnedIsDone
    <2>3. ~CallerStep(i)
        BY <2>1, <2>2, OnlyOkReturns
        DEF CallerStep, PlaceOrder, WarmupRetry, WarmingUp, CallAgain
    <2>4. ~Send(i) /\ ~HearStep(i) /\ ~AfterSleep(i) /\ ~Cancel(i)
        BY <2>2 DEF Send, HearStep, TransportFails, ReceiveTransient,
            ReceiveTooMany, ReceiveError, ReceiveOk, Hear, AfterSleep, Cancel
    <2>5. QED
        BY <2>3, <2>4
<1>4. req'[i].verdict = Returned => req'[i].phase = "done"
    <2>1. CASE CallerStep(i)
        <3>1. PICK tries : StartCall(i, tries)
            BY <2>1 DEF CallerStep, PlaceOrder, WarmupRetry, CallAgain
        <3>2. req'[i].verdict = Pending
            BY <1>1, <3>1 DEF StartCall
        <3>3. QED
            BY <3>2, OnlyOkReturns
    <2>2. CASE Send(i)
        BY <1>1, <1>3, <2>2 DEF Send, Request
    <2>3. CASE TransportFails(i)
        BY <1>1, <1>3, <2>3 DEF TransportFails, Request
    <2>4. CASE ReceiveTransient(i)
        BY <1>1, <1>3, <2>4 DEF ReceiveTransient, Request
    <2>5. CASE ReceiveTooMany(i)
        BY <1>1, <1>2, <1>3, <2>5 DEF ReceiveTooMany, Request
    <2>6. CASE ReceiveError(i) \/ ReceiveOk(i) \/ Cancel(i)
        BY <1>2, <2>6 DEF ReceiveError, ReceiveOk, Cancel
    <2>7. CASE AfterSleep(i)
        <3>1. CASE req[i].attempt < MaxRetries
            BY <1>1, <1>3, <2>7, <3>1 DEF AfterSleep, Request
        <3>2. CASE ~(req[i].attempt < MaxRetries)
            BY <1>2, <2>7, <3>2 DEF AfterSleep
        <3>3. QED
            BY <3>1, <3>2
    <2>8. QED
        BY <2>1, <2>2, <2>3, <2>4, <2>5, <2>6, <2>7 DEF HearStep
<1>5. QED
    BY <1>3, <1>4

(* No step lets a call that goes on have returned. *)
LEMMA ReturnedIsDoneStep ==
    ASSUME TypeOK, ReturnedIsDone, [Next]_vars
    PROVE  ReturnedIsDone'
<1>1. ASSUME NEW i \in Intents,
             \/ CallerStep(i) \/ Send(i) \/ HearStep(i) \/ AfterSleep(i)
             \/ Cancel(i)
      PROVE  ReturnedIsDone'
    <2>1. \A j \in Intents : j # i => req'[j] = req[j]
        BY <1>1, IntentStep
    <2>2. req'[i].verdict = Returned => req'[i].phase = "done"
        BY <1>1, ReturnedStays
    <2>3. QED
        BY <2>1, <2>2 DEF ReturnedIsDone
<1>2. ASSUME NEW m \in wire, Serve(m) \/ Lose(m)
      PROVE  UNCHANGED req
    BY <1>2 DEF Serve, Accept, Lose
<1>3. CASE UNCHANGED vars
    BY <1>3 DEF vars, ReturnedIsDone
<1>4. QED
    BY <1>1, <1>2, <1>3 DEF Next, ReturnedIsDone

-----------------------------------------------------------------------------
(* The theorems. *)

(* Before the first call every intent is idle, or not there at all.          *)
LEMMA InitialRequests ==
    ASSUME Init
    PROVE  /\ req \in [Intents -> Request]
           /\ \A i \in Intents :
                req[i].phase \in {"absent", "idle"} /\ req[i].verdict = Pending
<1>1. PICK active \in Calling : req = [i \in Intents |->
          [phase |-> IF i \in active THEN "idle" ELSE "absent", call |-> 0,
           tries |-> 0, attempt |-> 0, lastError |-> FALSE,
           lastStatus |-> 0, verdict |-> Pending]]
    BY DEF Init
<1>2. \A p \in {"absent", "idle"} :
        [phase |-> p, call |-> 0, tries |-> 0, attempt |-> 0,
         lastError |-> FALSE, lastStatus |-> 0, verdict |-> Pending] \in Request
    BY VerdictFacts, RequestAssumption DEF Request
<1>3. QED
    BY <1>1, <1>2


(* The inductive invariant holds in every state: types, the agreement of     *)
(* what took effect with the keys the server knows, and the agreement of     *)
(* each loop with what its attempts met.                                     *)
THEOREM SafetyTheorem == Spec => []IInv
<1>1. Init => IInv
    <2> SUFFICES ASSUME Init PROVE IInv
        OBVIOUS
    <2>1. TypeOK
        <3>1. /\ heard = [i \in Intents |-> <<>>]
              /\ doubt = [i \in Intents |-> FALSE]
              /\ wire = {} /\ known = {}
              /\ answer = [i \in Intents |-> 0]
              /\ fired = [o \in Orders |-> 0]
            BY DEF Init
        <3>2. QED
            BY <3>1, InitialRequests DEF TypeOK
    <2>2. ServerInv
        <3>1. \A i \in Intents : answer[i] # Ok
            <4>1. \A i \in Intents : answer[i] = 0
                BY DEF Init
            <4>2. Ok # 0
                BY DEF Ok
            <4>3. QED
                BY <4>1, <4>2
        <3>2. \A i \in Intents : req[i].verdict # Returned
            BY OnlyOkReturns, InitialRequests
        <3>3. \A o \in OwnKeyed : fired[o] = 0
            BY RequestAssumption DEF Init
        <3>4. wire = {} /\ known = {}
            BY DEF Init
        <3>5. WireKeys /\ KnownFired /\ KeyedCount
            BY <3>3, <3>4 DEF WireKeys, KnownFired, KeyedCount
        <3>6. QED
            BY <3>1, <3>2, <3>5
            DEF ServerInv, OkMeansAllFired, ReturnedMeansAllFired
    <2>3. LoopInv
        <3>1. \A i \in Intents :
                req[i].phase \in {"absent", "idle"} /\ heard[i] = <<>>
            BY InitialRequests DEF Init
        <3>2. Len(<<>>) = 0 /\ 0 <= MaxRetries + 1
            BY RequestAssumption
        <3>3. \A i \in Intents : LoopAgrees(req[i], heard[i])
            BY <3>1 DEF LoopAgrees
        <3>4. \A i \in Intents : VerdictAgrees(req[i], heard[i])
            <4>1. SUFFICES ASSUME NEW i \in Intents
                           PROVE  VerdictAgrees(req[i], <<>>)
                BY <3>1
            <4>2. Len(<<>>) <= MaxRetries + 1
                BY <3>2
            <4>3. \A n \in 1..(Len(<<>>) - 1) : FALSE
                BY <3>2
            <4>4. req[i].phase # "done"
                BY <3>1
            <4>5. QED
                BY <4>2, <4>3, <4>4 DEF VerdictAgrees
        <3>5. QED
            BY <3>3, <3>4 DEF LoopInv, Agrees
    <2>4. ReturnedIsDone
        BY OnlyOkReturns, InitialRequests DEF ReturnedIsDone
    <2>5. QED
        BY <2>1, <2>2, <2>3, <2>4 DEF IInv
<1>2. IInv /\ [Next]_vars => IInv'
    BY Typing, ServerStep, LoopInvStep, ReturnedIsDoneStep DEF IInv
<1>3. QED
    BY <1>1, <1>2, PTL DEF Spec

(* The requests, the wire and the server's memory keep their types.          *)
THEOREM TypeCorrect == Spec => []TypeOK
    BY SafetyTheorem, PTL DEF IInv

(* An order that comes with a key of the caller's takes effect at most once  *)
(* (idempotency_key or client_order_id of place_order, client_order_id of an *)
(* entry of place_orders).                                                   *)
THEOREM AtMostOnce == Spec => []OwnKeyFiresOnce
<1>1. IInv => OwnKeyFiresOnce
    <2>1. SUFFICES ASSUME IInv, NEW o \in OwnKeyed PROVE fired[o] <= 1
        BY DEF OwnKeyFiresOnce
    <2>2. fired[o] = IF <<o, 0>> \in known THEN 1 ELSE 0
        BY <2>1 DEF IInv, ServerInv, KeyedCount
    <2>3. QED
        BY <2>2
<1>2. QED
    BY <1>1, SafetyTheorem, PTL

(* A call that returns has placed all its orders. *)
THEOREM ReturnIsHonest == Spec => []ReturnedMeansAllFired
<1>1. IInv => ReturnedMeansAllFired
    BY DEF IInv, ServerInv
<1>2. QED
    BY <1>1, SafetyTheorem, PTL

(* The verdict of request() is what its attempts amount to, and it comes at  *)
(* the first final outcome or when max_retries + 1 attempts are spent.       *)
THEOREM VerdictIsRight == Spec => []VerdictFollowsAttempts
<1>1. IInv => VerdictFollowsAttempts
    BY DEF IInv, LoopInv, Agrees, VerdictAgrees, VerdictFollowsAttempts
<1>2. QED
    BY <1>1, SafetyTheorem, PTL

-----------------------------------------------------------------------------
(* Refinement. *)

(* A step of an intent confirms orders that took effect, or stutters. *)
LEMMA IntentRefines ==
    ASSUME IInv, IInv', NEW i \in Intents,
           \/ CallerStep(i) \/ Send(i) \/ HearStep(i) \/ AfterSleep(i)
           \/ Cancel(i)
    PROVE  [Promise!Next]_(Promise!vars)
<1>1. fired' = fired
    BY IntentStep DEF IInv
<1>2. \A j \in Intents :
         req[j].verdict = Returned => req'[j].verdict = Returned
    <2>1. \A j \in Intents : j # i => req'[j] = req[j]
        BY IntentStep DEF IInv
    <2>2. req[i].verdict = Returned => req'[i].verdict = Returned
        BY ReturnedStays DEF IInv
    <2>3. QED
        BY <2>1, <2>2
<1>3. Confirmed \subseteq Confirmed'
    BY <1>2 DEF Confirmed
<1>4. \A o \in Confirmed' : fired[o] = 1
    <2>1. SUFFICES ASSUME NEW o \in Confirmed' PROVE fired'[o] = 1
        BY <1>1
    <2>2. o \in OwnKeyed /\ fired'[o] >= 1
        BY DEF Confirmed, IInv, ServerInv, ReturnedMeansAllFired
    <2>3. fired'[o] = IF <<o, 0>> \in known' THEN 1 ELSE 0
        BY <2>2 DEF IInv, ServerInv, KeyedCount
    <2>4. QED
        BY <2>2, <2>3
<1>5. Promise!Confirm(Confirmed') \/ UNCHANGED Promise!vars
    BY <1>1, <1>3, <1>4 DEF Promise!Confirm, Confirmed, Promise!vars
<1>6. Confirmed' \in SUBSET OwnKeyed
    BY DEF Confirmed
<1>7. QED
    BY <1>5, <1>6 DEF Promise!Next

(* A server that accepts orders places those whose key it did not know. *)
LEMMA AcceptRefines ==
    ASSUME IInv, NEW m \in wire, NEW S \in SUBSET Batch[m.intent],
           NEW status \in Status, Accept(m, S, status)
    PROVE  [Promise!Next]_(Promise!vars)
<1>0. PICK New \in SUBSET OwnKeyed :
          New = {o \in S \cap OwnKeyed : <<o, 0>> \notin known}
    OBVIOUS
<1>1. /\ m.intent \in Intents /\ Batch[m.intent] \subseteq Orders
      /\ m.keys = [o \in Batch[m.intent] |-> Key(o, m.call)]
    <2>1. m.intent \in Intents
        BY DEF IInv, TypeOK, Message
    <2>2. QED
        <3>1. m.keys = [o \in Batch[m.intent] |-> Key(o, m.call)]
            BY DEF IInv, ServerInv, WireKeys
        <3>2. QED
            BY <2>1, <3>1, RequestAssumption
<1>2. fired \in [Orders -> Nat] /\ OwnKeyed \subseteq Orders
    BY RequestAssumption DEF IInv, TypeOK
<1>3. \A o \in OwnKeyed : fired'[o] = IF o \in New THEN fired[o] + 1 ELSE fired[o]
    <2>1. SUFFICES ASSUME NEW o \in OwnKeyed
                   PROVE  fired'[o] = IF o \in New THEN fired[o] + 1 ELSE fired[o]
        OBVIOUS
    <2>2. fired'[o] = IF o \in S /\ m.keys[o] \notin known
                      THEN fired[o] + 1 ELSE fired[o]
        BY <1>2 DEF Accept
    <2>3. o \in S => m.keys[o] = <<o, 0>>
        BY <1>1 DEF Key
    <2>4. QED
        BY <1>0, <2>2, <2>3
<1>4. \A o \in New : fired[o] = 0
    BY <1>0 DEF IInv, ServerInv, KeyedCount
<1>5. Confirmed' = Confirmed
    BY DEF Accept, Confirmed
<1>6. Promise!Place(New)
    <2>1. \A o \in New : [q \in OwnKeyed |-> fired[q]][o] = 0
        BY <1>4
    <2>2. [o \in OwnKeyed |-> fired'[o]]
            = [o \in OwnKeyed |->
                IF o \in New THEN 1 ELSE [q \in OwnKeyed |-> fired[q]][o]]
        BY <1>3, <1>4
    <2>3. QED
        BY <1>5, <2>1, <2>2 DEF Promise!Place
<1>7. Promise!Next
    BY <1>6 DEF Promise!Next
<1>8. QED
    BY <1>7

(* Retries, repeated calls, cancellations, late requests and lost answers    *)
(* keep the promise of place_order and place_orders: each step is a step of  *)
(* OrderOnce or a stutter.                                                   *)
THEOREM Refinement == Spec => KeyedOrdersPlacedOnce
<1>1. Init => Promise!Init
    <2> SUFFICES ASSUME Init PROVE Promise!Init
        OBVIOUS
    <2>1. \A o \in OwnKeyed : fired[o] = 0
        BY RequestAssumption DEF Init
    <2>2. Confirmed = {}
        BY OnlyOkReturns, InitialRequests DEF Confirmed
    <2>3. QED
        BY <2>1, <2>2 DEF Promise!Init
<1>2. IInv /\ IInv' /\ [Next]_vars => [Promise!Next]_(Promise!vars)
    <2> SUFFICES ASSUME IInv, IInv', [Next]_vars
                 PROVE  [Promise!Next]_(Promise!vars)
        OBVIOUS
    <2>1. ASSUME NEW m \in wire, Lose(m)
          PROVE  UNCHANGED Promise!vars
        BY <2>1 DEF Lose, serverVars, Promise!vars, Confirmed
    <2>2. CASE UNCHANGED vars
        BY <2>2 DEF vars, serverVars, Promise!vars, Confirmed
    <2>3. QED
        BY <2>1, <2>2, IntentRefines, AcceptRefines DEF Next, Serve
<1>3. QED
    BY <1>1, <1>2, SafetyTheorem, PTL
    DEF Spec, Promise!Spec, KeyedOrdersPlacedOnce
-----------------------------------------------------------------------------
(* What keys and answers protect across the calls an application makes for   *)
(* one intent: a minted key places an order once per call, and only an       *)
(* attempt whose effect is unknown can place it twice.                       *)

IntentSteps(i) ==
    CallerStep(i) \/ Send(i) \/ HearStep(i) \/ AfterSleep(i) \/ Cancel(i)

-----------------------------------------------------------------------------
(* Minted keys. *)

(* The calls of i whose key for o the server knows. *)
KnownCalls(i, o) == {c \in 1..req[i].call : <<o, c>> \in known}

(* A request belongs to a call that has begun. *)
WireIsOfACall == \A m \in wire : m.call \in 1..req[m.intent].call

(* An intent past its first state has begun a call. *)
CallsBegun ==
    \A i \in Intents : req[i].phase \notin {"absent", "idle"} => req[i].call >= 1

(* An order took effect only when its intent had begun a call. *)
FiredInACall ==
    \A i \in Intents : \A o \in Batch[i] : fired[o] >= 1 => req[i].call >= 1

(* The server knows no key of a call to come, and an order took effect once  *)
(* for each key of its own that it knows.                                    *)
MintedCount ==
    \A i \in Intents : \A o \in Batch[i] \ OwnKeyed :
        /\ \A c \in Nat : <<o, c>> \in known => c <= req[i].call
        /\ fired[o] = Cardinality(KnownCalls(i, o))

CallInv == WireIsOfACall /\ CallsBegun /\ FiredInACall /\ MintedCount

LEMMA OneTo ==
    ASSUME NEW n \in Nat
    PROVE  IsFiniteSet(1..n) /\ Cardinality(1..n) = n
<1>1. IsFiniteSet(1..n) /\ Cardinality(1..n) = IF 1 > n THEN 0 ELSE n - 1 + 1
    BY FS_Interval
<1>2. QED
    BY <1>1

(* The number of calls of an intent grows by a call that begins.             *)
LEMMA CallStep ==
    ASSUME TypeOK, NEW i \in Intents, IntentSteps(i)
    PROVE  /\ \/ req'[i].call = req[i].call /\ req[i].phase \notin {"absent", "idle"}
              \/ req'[i].call = req[i].call + 1
           /\ \A m \in wire' \ wire :
                m.intent = i /\ m.call = req[i].call /\ req'[i].call = req[i].call
<1> USE DEF historyVars, serverVars
<1>1. req \in [Intents -> Request] /\ req[i] \in Request
    BY DEF TypeOK
<1>2. ASSUME NEW verdict, Ends(i, verdict)
      PROVE  req'[i].call = req[i].call
    BY <1>1, <1>2 DEF Ends, Request
<1>3. CASE CallerStep(i)
    BY <1>1, <1>3
    DEF CallerStep, PlaceOrder, WarmupRetry, CallAgain, StartCall
<1>4. CASE Send(i)
    BY <1>1, <1>4 DEF Send, Request
<1>5. CASE TransportFails(i)
    BY <1>1, <1>5 DEF TransportFails, Hear, Request
<1>6. CASE ReceiveTransient(i)
    BY <1>1, <1>6 DEF ReceiveTransient, Hear, Request
<1>7. CASE ReceiveTooMany(i)
    BY <1>1, <1>2, <1>7 DEF ReceiveTooMany, Hear, Request
<1>8. CASE ReceiveError(i) \/ ReceiveOk(i)
    BY <1>2, <1>8 DEF ReceiveError, ReceiveOk, Hear
<1>9. CASE AfterSleep(i)
    BY <1>1, <1>2, <1>9 DEF AfterSleep, Request
<1>10. CASE Cancel(i)
    BY <1>1, <1>2, <1>10 DEF Cancel
<1>11. QED
    BY <1>3, <1>4, <1>5, <1>6, <1>7, <1>8, <1>9, <1>10
    DEF IntentSteps, HearStep

(* The steps of an intent keep the count: a key of a call that begins is one  *)
(* the server has not seen.                                                  *)
LEMMA IntentKeepsCalls ==
    ASSUME TypeOK, CallInv, NEW i \in Intents, IntentSteps(i)
    PROVE  CallInv'
<1>1. /\ UNCHANGED <<known, fired>>
      /\ \A j \in Intents : j # i => req'[j] = req[j]
    BY IntentStep DEF IntentSteps
<1>2. /\ \/ req'[i].call = req[i].call /\ req[i].phase \notin {"absent", "idle"}
         \/ req'[i].call = req[i].call + 1
      /\ \A m \in wire' \ wire :
           m.intent = i /\ m.call = req[i].call /\ req'[i].call = req[i].call
    BY CallStep
<1>3. \A j \in Intents : req[j].call \in Nat
    BY RequestAssumption DEF TypeOK, Request
<1>4. \A j \in Intents :
        /\ req'[j].call \in Nat /\ req'[j].call >= req[j].call
        /\ req'[j].call <= req[j].call + 1
    BY <1>1, <1>2, <1>3
<1>5. req'[i].call >= 1
    BY <1>2, <1>3 DEF CallInv, CallsBegun
<1>6. WireIsOfACall'
    <2>1. SUFFICES ASSUME NEW m \in wire' PROVE m.call \in 1..req'[m.intent].call
        BY DEF WireIsOfACall
    <2>2. CASE m \in wire
        <3>1. m.intent \in Intents /\ m.call \in 1..req[m.intent].call
            BY <2>2 DEF TypeOK, Message, CallInv, WireIsOfACall
        <3>2. QED
            BY <1>3, <1>4, <3>1
    <2>3. CASE m \notin wire
        BY <1>2, <1>3, <1>5, <2>3
    <2>4. QED
        BY <2>2, <2>3
<1>7. CallsBegun'
    BY <1>1, <1>5 DEF CallInv, CallsBegun
<1>8. FiredInACall'
    BY <1>1, <1>3, <1>4 DEF CallInv, FiredInACall
<1>9. MintedCount'
    <2>1. SUFFICES ASSUME NEW j \in Intents, NEW o \in Batch[j] \ OwnKeyed
                   PROVE  /\ \A c \in Nat : <<o, c>> \in known => c <= req'[j].call
                          /\ fired[o] = Cardinality(KnownCalls(j, o)')
        BY <1>1 DEF MintedCount, KnownCalls
    <2>2. \A c \in Nat : <<o, c>> \in known => c <= req[j].call
        BY DEF CallInv, MintedCount
    <2>3. KnownCalls(j, o)' = KnownCalls(j, o)
        BY <1>1, <1>3, <1>4, <2>2 DEF KnownCalls
    <2>4. QED
        BY <1>3, <1>4, <2>2, <2>3 DEF CallInv, MintedCount
<1>10. QED
    BY <1>6, <1>7, <1>8, <1>9 DEF CallInv

(* A server that accepts a request counts one more key for the call that     *)
(* made it, or one it knew already.                                          *)
LEMMA AcceptKeepsCalls ==
    ASSUME TypeOK, ServerInv, CallInv, NEW m \in wire,
           NEW S \in SUBSET Batch[m.intent], NEW status \in Status,
           Accept(m, S, status)
    PROVE  CallInv'
<1>1. /\ m.intent \in Intents /\ m.call \in Nat
      /\ m.call \in 1..req[m.intent].call
      /\ m.keys = [o \in Batch[m.intent] |-> Key(o, m.call)]
    BY DEF TypeOK, Message, ServerInv, WireKeys, CallInv, WireIsOfACall
<1>2. req' = req /\ wire' \subseteq wire
    BY DEF Accept
<1>3. \A j \in Intents : req[j].call \in Nat
    BY RequestAssumption DEF TypeOK, Request
<1>4. known' = known \cup {Key(o, m.call) : o \in S}
    BY <1>1 DEF Accept
<1>5. \A o \in Orders :
        fired'[o] = IF o \in S /\ Key(o, m.call) \notin known
                    THEN fired[o] + 1 ELSE fired[o]
    BY <1>1, RequestAssumption DEF Accept
<1>6. \A j \in Intents : \A o \in Batch[j] : o \in Orders /\ (o \in S => j = m.intent)
    BY <1>1, RequestAssumption
<1>7. FiredInACall'
    <2>1. SUFFICES ASSUME NEW j \in Intents, NEW o \in Batch[j], fired'[o] >= 1
                   PROVE  req[j].call >= 1
        BY <1>2 DEF FiredInACall
    <2>2. CASE o \in S
        BY <1>1, <1>3, <1>6, <2>2
    <2>3. CASE o \notin S
        BY <1>5, <1>6, <2>1, <2>3 DEF CallInv, FiredInACall
    <2>4. QED
        BY <2>2, <2>3
<1>8. MintedCount'
    <2>1. SUFFICES ASSUME NEW j \in Intents, NEW o \in Batch[j] \ OwnKeyed
                   PROVE  /\ \A c \in Nat : <<o, c>> \in known' => c <= req[j].call
                          /\ fired'[o] = Cardinality(KnownCalls(j, o)')
        BY <1>2 DEF MintedCount
    <2>2. /\ \A c \in Nat : <<o, c>> \in known => c <= req[j].call
          /\ fired[o] = Cardinality(KnownCalls(j, o))
        BY DEF CallInv, MintedCount
    <2>3. \A q \in S : Key(q, m.call)[1] = q
        BY DEF Key
    <2>4. CASE o \in S
        <3>1. j = m.intent /\ Key(o, m.call) = <<o, m.call>>
            BY <1>6, <2>4 DEF Key
        <3>2. \A c \in Nat : <<o, c>> \in known' <=> <<o, c>> \in known \/ c = m.call
            BY <1>1, <1>4, <2>3, <2>4, <3>1
        <3>3. KnownCalls(j, o)' = KnownCalls(j, o) \cup {m.call}
            BY <1>1, <1>2, <1>3, <3>1, <3>2 DEF KnownCalls
        <3>4. IsFiniteSet(KnownCalls(j, o))
            <4>1. IsFiniteSet(1..req[j].call)
                BY <1>3, OneTo
            <4>2. KnownCalls(j, o) \in SUBSET (1..req[j].call)
                BY DEF KnownCalls
            <4>3. QED
                BY <4>1, <4>2, FS_Subset
        <3>5. Cardinality(KnownCalls(j, o) \cup {m.call}) =
                IF m.call \in KnownCalls(j, o) THEN Cardinality(KnownCalls(j, o))
                ELSE Cardinality(KnownCalls(j, o)) + 1
            BY <3>4, FS_AddElement
        <3>6. m.call \in KnownCalls(j, o) <=> Key(o, m.call) \in known
            BY <1>1, <3>1 DEF KnownCalls
        <3>7. fired'[o] = Cardinality(KnownCalls(j, o)')
            BY <1>5, <1>6, <2>2, <2>4, <3>3, <3>5, <3>6
        <3>8. QED
            BY <1>1, <2>2, <3>1, <3>2, <3>7
    <2>5. CASE o \notin S
        <3>1. \A c \in Nat : <<o, c>> \in known' <=> <<o, c>> \in known
            BY <1>4, <2>3, <2>5
        <3>2. KnownCalls(j, o)' = KnownCalls(j, o)
            BY <1>2, <1>3, <3>1 DEF KnownCalls
        <3>3. QED
            BY <1>5, <1>6, <2>2, <2>5, <3>1, <3>2
    <2>6. QED
        BY <2>4, <2>5
<1>9. QED
    BY <1>2, <1>7, <1>8 DEF CallInv, WireIsOfACall, CallsBegun

(* The invariant of the calls, on top of the one of the loop and the server. *)
THEOREM CallsTheorem == Spec => []CallInv
<1>1. Init => CallInv
    <2> SUFFICES ASSUME Init PROVE CallInv
        OBVIOUS
    <2>1. /\ wire = {} /\ known = {} /\ fired = [o \in Orders |-> 0]
          /\ \A i \in Intents : \A o \in Batch[i] : o \in Orders
        BY RequestAssumption DEF Init
    <2>2. \A i \in Intents : \A o \in Batch[i] : KnownCalls(i, o) = {}
        BY <2>1 DEF KnownCalls
    <2>3. \A i \in Intents : req[i].phase \in {"absent", "idle"}
        BY InitialRequests
    <2>4. \A i \in Intents : \A o \in Batch[i] :
            fired[o] = 0 /\ Cardinality(KnownCalls(i, o)) = 0
        BY <2>1, <2>2, FS_EmptySet
    <2>5. QED
        BY <2>1, <2>3, <2>4
        DEF CallInv, WireIsOfACall, CallsBegun, FiredInACall, MintedCount
<1>2. IInv /\ CallInv /\ [Next]_vars => CallInv'
    <2> SUFFICES ASSUME IInv, CallInv, [Next]_vars PROVE CallInv'
        OBVIOUS
    <2>1. TypeOK /\ ServerInv
        BY DEF IInv
    <2>2. ASSUME NEW m \in wire, Lose(m) PROVE CallInv'
        BY <2>2 DEF Lose, serverVars, CallInv, WireIsOfACall, CallsBegun,
            FiredInACall, MintedCount, KnownCalls
    <2>3. CASE UNCHANGED vars
        BY <2>3 DEF vars, serverVars, CallInv, WireIsOfACall, CallsBegun,
            FiredInACall, MintedCount, KnownCalls
    <2>4. QED
        BY <2>1, <2>2, <2>3, IntentKeepsCalls, AcceptKeepsCalls
        DEF Next, Serve, IntentSteps
<1>3. QED
    BY <1>1, <1>2, SafetyTheorem, PTL DEF Spec

(* However many attempts a call makes and whichever of them arrive late, an  *)
(* order takes effect at most once for each call (place_order, place_orders).*)
THEOREM OncePerCall == Spec => []MintedKeyFiresOncePerCall
<1>1. IInv /\ CallInv => MintedKeyFiresOncePerCall
    <2>1. SUFFICES ASSUME IInv, CallInv, NEW i \in Intents, NEW o \in Batch[i]
                   PROVE  fired[o] <= req[i].call
        BY DEF MintedKeyFiresOncePerCall
    <2>2. req[i].call \in Nat /\ o \in Orders
        BY <2>1, RequestAssumption DEF IInv, TypeOK, Request
    <2>3. CASE o \in OwnKeyed
        <3>1. fired[o] = IF <<o, 0>> \in known THEN 1 ELSE 0
            BY <2>1, <2>3 DEF IInv, ServerInv, KeyedCount
        <3>2. fired[o] >= 1 => req[i].call >= 1
            BY <2>1 DEF CallInv, FiredInACall
        <3>3. QED
            BY <2>2, <3>1, <3>2
    <2>4. CASE o \notin OwnKeyed
        <3>1. fired[o] = Cardinality(KnownCalls(i, o))
            BY <2>1, <2>4 DEF CallInv, MintedCount
        <3>2. IsFiniteSet(1..req[i].call) /\ Cardinality(1..req[i].call) = req[i].call
            BY <2>2, OneTo
        <3>3. KnownCalls(i, o) \in SUBSET (1..req[i].call)
            BY DEF KnownCalls
        <3>4. Cardinality(KnownCalls(i, o)) <= Cardinality(1..req[i].call)
            BY <3>2, <3>3, FS_Subset
        <3>5. QED
            BY <3>1, <3>2, <3>4
    <2>5. QED
        BY <2>3, <2>4
<1>2. QED
    BY <1>1, SafetyTheorem, CallsTheorem, PTL

(* A key places an order once for as long as it is the same key. *)
THEOREM KeysAreOnce == Spec => []KeysFireOnce
<1>1. OwnKeyFiresOnce /\ MintedKeyFiresOncePerCall => KeysFireOnce
    BY DEF KeysFireOnce
<1>2. QED
    BY <1>1, AtMostOnce, OncePerCall, PTL

(* What a call tells its caller is true, of a failure and of a success.       *)
THEOREM VerdictHolds == Spec => []VerdictIsTrue
<1>1. VerdictFollowsAttempts /\ ReturnedMeansAllFired => VerdictIsTrue
    BY DEF VerdictIsTrue
<1>2. QED
    BY <1>1, VerdictIsRight, ReturnIsHonest, PTL

-----------------------------------------------------------------------------
(* Doubt. *)

(* An answer is only there while it is waited for. *)
AnswersAwaited == \A i \in Intents : req[i].phase # "waiting" => answer[i] = 0

(* The effect of i's orders is known: nothing old is on the wire, what is on *)
(* it is not answered and has done nothing, and what took effect, once, is   *)
(* answered by something other than a refusal or has been returned.          *)
EffectKnown(i) ==
    /\ \A m \in wire : m.intent = i => Current(m)
    /\ (\E m \in wire : m.intent = i) =>
          answer[i] = 0 /\ \A o \in Batch[i] : fired[o] = 0
    /\ \A o \in Batch[i] : fired[o] \in {0, 1}
    /\ (\E o \in Batch[i] : fired[o] # 0) =>
          \/ req[i].verdict = Returned
          \/ answer[i] \notin {0, NotInCatalog, TooMany}

DoubtInv == AnswersAwaited /\ \A i \in Intents : ~doubt[i] => EffectKnown(i)

(* What a step of an intent does to its answer and to the doubt.             *)
LEMMA DoubtStep ==
    ASSUME TypeOK, AnswersAwaited, NEW i \in Intents, IntentSteps(i)
    PROVE  /\ AnswersAwaited'
           /\ \A j \in Intents : doubt[j] => doubt'[j]
           /\ \A j \in Intents : j # i => answer'[j] = answer[j]
<1> USE DEF historyVars, serverVars
<1>1. /\ req \in [Intents -> Request] /\ doubt \in [Intents -> BOOLEAN]
      /\ answer \in [Intents -> Status \cup {0}]
    BY DEF TypeOK
<1>2. \A j \in Intents : j # i => req'[j] = req[j]
    BY IntentStep DEF IntentSteps
<1>3. CASE CallerStep(i) \/ AfterSleep(i)
    <2>1. UNCHANGED <<doubt, answer>> /\ req[i].phase # "waiting"
        BY <1>3 DEF CallerStep, PlaceOrder, WarmupRetry, WarmingUp, CallAgain,
            StartCall, AfterSleep
    <2>2. QED
        BY <1>2, <2>1 DEF AnswersAwaited
<1>4. CASE Send(i)
    <2>1. UNCHANGED <<doubt, answer>> /\ req[i].phase # "waiting"
        BY <1>4 DEF Send
    <2>2. QED
        BY <1>2, <2>1 DEF AnswersAwaited
<1>5. CASE HearStep(i)
    <2>1. PICK outcome \in Status \cup {Network} : Hear(i, outcome)
        BY <1>5, HearTyping
    <2>2. QED
        BY <1>1, <1>2, <2>1 DEF Hear, AnswersAwaited, Definite
<1>6. CASE Cancel(i)
    BY <1>1, <1>2, <1>6 DEF Cancel, AnswersAwaited
<1>7. QED
    BY <1>3, <1>4, <1>5, <1>6 DEF IntentSteps

(* A step of an intent that leaves no doubt leaves the effect known.         *)
LEMMA IntentKeepsKnown ==
    ASSUME TypeOK, ReturnedIsDone, AnswersAwaited, NEW i \in Intents,
           IntentSteps(i), ~doubt'[i], EffectKnown(i)
    PROVE  EffectKnown(i)'
<1> USE DEF historyVars, serverVars
<1>1. /\ req \in [Intents -> Request] /\ req[i] \in Request
      /\ doubt \in [Intents -> BOOLEAN]
      /\ answer \in [Intents -> Status \cup {0}]
    BY DEF TypeOK
<1>2. fired' = fired
    BY IntentStep DEF IntentSteps
<1>3. ASSUME NEW verdict, Ends(i, verdict)
      PROVE  req'[i].verdict = verdict
    BY <1>1, <1>3 DEF Ends, Request
<1>4. ASSUME req[i].phase # "waiting"
      PROVE  ~\E m \in wire : m.intent = i
    BY <1>4 DEF EffectKnown, Current
<1>5. ASSUME req[i].phase # "waiting", req[i].verdict # Returned
      PROVE  \A o \in Batch[i] : fired[o] = 0
    BY <1>5 DEF EffectKnown, AnswersAwaited
<1>6. CASE CallerStep(i)
    <2>1. /\ UNCHANGED <<wire, answer>>
          /\ req[i].phase \in {"idle", "done"} /\ req[i].verdict # Returned
        BY <1>6, OnlyOkReturns
        DEF CallerStep, PlaceOrder, WarmupRetry, WarmingUp, CallAgain, StartCall,
            ReturnedIsDone
    <2>2. QED
        BY <1>2, <1>4, <1>5, <2>1 DEF EffectKnown
<1>7. CASE Send(i)
    <2>1. req[i].phase = "pacing" /\ req[i].verdict # Returned /\ answer'[i] = 0
        BY <1>7 DEF Send, ReturnedIsDone, AnswersAwaited
    <2>2. \A m \in wire' : m.intent = i => Current(m)'
        BY <1>1, <1>4, <1>7, <2>1 DEF Send, Current, Request
    <2>3. \A o \in Batch[i] : fired'[o] = 0
        BY <1>2, <1>5, <2>1
    <2>4. QED
        BY <2>1, <2>2, <2>3 DEF EffectKnown
<1>8. CASE HearStep(i)
    <2>1. req[i].phase = "waiting" /\ req[i].verdict # Returned
        BY <1>8 DEF HearStep, TransportFails, ReceiveTransient, ReceiveTooMany,
            ReceiveError, ReceiveOk, Hear, ReturnedIsDone
    <2>2. wire' = wire
        BY <1>8 DEF HearStep, TransportFails, ReceiveTransient, ReceiveTooMany,
            ReceiveError, ReceiveOk, Hear
    <2>3. ASSUME NEW outcome, Hear(i, outcome)
          PROVE  Definite(outcome)
        BY <1>1, <2>3 DEF Hear
    <2>4. CASE ReceiveOk(i)
        <3>1. answer[i] # 0 /\ req'[i].verdict = Returned
            BY <1>3, <2>4 DEF ReceiveOk, Ok
        <3>2. ~\E m \in wire' : m.intent = i
            BY <2>2, <3>1 DEF EffectKnown
        <3>3. QED
            BY <1>2, <3>1, <3>2 DEF EffectKnown
    <2>5. CASE ~ReceiveOk(i)
        <3>1. answer[i] \in {NotInCatalog, TooMany}
            BY <1>8, <2>3, <2>5, StatusesDiffer, RequestAssumption
            DEF HearStep, TransportFails, ReceiveTransient, ReceiveTooMany,
                ReceiveError, Definite, Network, Ok, NotInCatalog, TooMany, Refused
        <3>2. answer[i] # 0
            BY <3>1 DEF NotInCatalog, TooMany
        <3>3. /\ ~\E m \in wire' : m.intent = i
              /\ \A o \in Batch[i] : fired'[o] = 0
            BY <1>2, <2>1, <2>2, <3>1, <3>2 DEF EffectKnown
        <3>4. QED
            BY <3>3 DEF EffectKnown
    <2>6. QED
        BY <2>4, <2>5
<1>9. CASE AfterSleep(i)
    <2>1. wire' = wire /\ req[i].phase = "sleeping" /\ req[i].verdict # Returned
        BY <1>9 DEF AfterSleep, ReturnedIsDone
    <2>2. QED
        BY <1>2, <1>4, <1>5, <2>1 DEF EffectKnown
<1>10. CASE Cancel(i)
    BY <1>1, <1>10 DEF Cancel
<1>11. QED
    BY <1>6, <1>7, <1>8, <1>9, <1>10 DEF IntentSteps

(* What the steps of another intent put on the wire and in the answers is    *)
(* that intent's.                                                            *)
LEMMA OthersKeepKnown ==
    ASSUME TypeOK, AnswersAwaited, NEW i \in Intents, IntentSteps(i),
           NEW j \in Intents, j # i, EffectKnown(j)
    PROVE  EffectKnown(j)'
<1>1. /\ UNCHANGED fired /\ req'[j] = req[j]
      /\ \A m \in wire' \ wire : m.intent = i
    BY IntentStep, CallStep DEF IntentSteps
<1>2. answer'[j] = answer[j]
    BY DoubtStep
<1>3. \A m \in wire' : m.intent = j => m \in wire
    BY <1>1
<1>4. \A m \in wire : m.intent = j => (Current(m) => Current(m)')
    BY <1>1 DEF Current
<1>5. QED
    BY <1>1, <1>2, <1>3, <1>4 DEF EffectKnown

(* A request without doubt is the only one of its intent on the wire: it is   *)
(* the current one, and there is one request for an attempt.                 *)
LEMMA OneCurrent ==
    ASSUME TypeOK, WireKeys, NEW m \in wire, NEW n \in wire,
           m.intent = n.intent, Current(m), Current(n)
    PROVE  m = n
<1>1. m \in Message(m.intent) /\ n \in Message(m.intent)
    BY DEF TypeOK, Message
<1>2. m.call = n.call /\ m.attempt = n.attempt /\ m.keys = n.keys
    <2>1. m.call = n.call /\ m.attempt = n.attempt
        BY DEF Current
    <2>2. /\ m.keys = [o \in Batch[m.intent] |-> Key(o, m.call)]
          /\ n.keys = [o \in Batch[n.intent] |-> Key(o, n.call)]
        BY DEF WireKeys
    <2>3. QED
        BY <2>1, <2>2
<1>3. ASSUME NEW k \in Message(m.intent)
      PROVE  k = [intent |-> k.intent, call |-> k.call, attempt |-> k.attempt,
                  keys |-> k.keys]
    BY <1>3 DEF Message
<1>4. QED
    BY <1>1, <1>2, <1>3

(* The server answers the one request there is, and no other intent's.       *)
LEMMA AcceptKeepsKnown ==
    ASSUME TypeOK, ServerInv, AnswersAwaited, NEW m \in wire,
           NEW S \in SUBSET Batch[m.intent], NEW status \in Status,
           Accept(m, S, status), NEW j \in Intents, EffectKnown(j)
    PROVE  EffectKnown(j)'
<1>1. /\ m.intent \in Intents /\ wire' = wire \ {m} /\ req' = req
      /\ answer \in [Intents -> Status \cup {0}]
    BY DEF TypeOK, Message, Accept
<1>2. \A o \in Orders :
        fired'[o] = IF o \in S /\ m.keys[o] \notin known
                    THEN fired[o] + 1 ELSE fired[o]
    BY DEF Accept
<1>3. \A o \in Batch[j] : o \in Orders /\ (o \in S => j = m.intent)
    BY <1>1, RequestAssumption
<1>4. \A n \in wire : Current(n)' <=> Current(n)
    BY <1>1 DEF Current
<1>5. CASE j # m.intent
    <2>1. answer'[j] = answer[j] /\ \A o \in Batch[j] : fired'[o] = fired[o]
        BY <1>1, <1>2, <1>3, <1>5 DEF Accept
    <2>2. QED
        BY <1>1, <1>4, <2>1 DEF EffectKnown
<1>6. CASE j = m.intent
    <2>1. Current(m) /\ \A o \in Batch[j] : fired[o] = 0
        BY <1>6 DEF EffectKnown
    <2>2. ~\E n \in wire' : n.intent = j
        <3>1. \A n \in wire : n.intent = j => Current(n)
            BY DEF EffectKnown
        <3>2. QED
            BY <1>1, <1>6, <2>1, <3>1, OneCurrent DEF ServerInv
    <2>3. answer'[j] = status /\ status # 0
        BY <1>1, <1>6, <2>1, RequestAssumption
        DEF Accept, Status, Ok, NotInCatalog, Refused, TooMany
    <2>4. \A o \in Batch[j] : fired'[o] \in {0, 1} /\ (o \notin S => fired'[o] = 0)
        BY <1>2, <1>3, <2>1
    <2>5. S # {} => status \notin {NotInCatalog, TooMany}
        BY DEF Accept
    <2>6. QED
        BY <2>2, <2>3, <2>4, <2>5 DEF EffectKnown
<1>7. QED
    BY <1>5, <1>6

(* What is not in doubt is known, in every state.                            *)
THEOREM DoubtTheorem == Spec => []DoubtInv
<1>1. Init => DoubtInv
    <2> SUFFICES ASSUME Init PROVE DoubtInv
        OBVIOUS
    <2>1. /\ wire = {} /\ \A i \in Intents : answer[i] = 0
          /\ \A i \in Intents : \A o \in Batch[i] : fired[o] = 0
        BY RequestAssumption DEF Init
    <2>2. QED
        BY <2>1 DEF DoubtInv, AnswersAwaited, EffectKnown
<1>2. IInv /\ DoubtInv /\ [Next]_vars => DoubtInv'
    <2> SUFFICES ASSUME IInv, DoubtInv, [Next]_vars PROVE DoubtInv'
        OBVIOUS
    <2> USE DEF historyVars, serverVars
    <2>1. TypeOK /\ ServerInv /\ ReturnedIsDone /\ AnswersAwaited
        BY DEF IInv, DoubtInv
    <2>2. ASSUME NEW i \in Intents, IntentSteps(i) PROVE DoubtInv'
        <3>1. AnswersAwaited' /\ \A j \in Intents : doubt[j] => doubt'[j]
            BY <2>1, <2>2, DoubtStep
        <3>2. ASSUME NEW j \in Intents, ~doubt'[j] PROVE EffectKnown(j)'
            <4>1. EffectKnown(j)
                BY <3>1, <3>2 DEF DoubtInv
            <4>2. QED
                BY <2>1, <2>2, <3>2, <4>1, IntentKeepsKnown, OthersKeepKnown
        <3>3. QED
            BY <3>1, <3>2 DEF DoubtInv
    <2>3. ASSUME NEW m \in wire, NEW S \in SUBSET Batch[m.intent],
                 NEW status \in Status, Accept(m, S, status)
          PROVE  DoubtInv'
        <3>1. req' = req /\ doubt' = doubt
            BY <2>3 DEF Accept
        <3>2. AnswersAwaited'
            <4>1. answer \in [Intents -> Status \cup {0}]
                BY <2>1 DEF TypeOK
            <4>2. QED
                BY <2>1, <2>3, <3>1, <4>1 DEF Accept, Current, AnswersAwaited
        <3>3. \A j \in Intents : ~doubt'[j] => EffectKnown(j)'
            BY <2>1, <2>3, <3>1, AcceptKeepsKnown DEF DoubtInv
        <3>4. QED
            BY <3>2, <3>3 DEF DoubtInv
    <2>4. ASSUME NEW m \in wire, Lose(m) PROVE DoubtInv'
        BY <2>4 DEF Lose, DoubtInv, AnswersAwaited, EffectKnown, Current
    <2>5. CASE UNCHANGED vars
        BY <2>5 DEF vars, DoubtInv, AnswersAwaited, EffectKnown, Current
    <2>6. QED
        BY <2>2, <2>3, <2>4, <2>5 DEF Next, Serve, IntentSteps
<1>3. QED
    BY <1>1, <1>2, SafetyTheorem, PTL DEF Spec

(* An order is placed twice only after an attempt whose effect was unknown:   *)
(* calling again after a 404 of a market that warms up or after 429 cannot    *)
(* do it (request, retry_on_market_warmup).                                  *)
THEOREM TwiceOnlyInDoubt == Spec => []DoubledOnlyInDoubt
<1>1. IInv /\ DoubtInv => DoubledOnlyInDoubt
    <2>1. SUFFICES ASSUME DoubtInv, NEW i \in Intents, NEW o \in Batch[i],
                          fired[o] > 1, ~doubt[i]
                   PROVE  FALSE
        BY DEF DoubledOnlyInDoubt
    <2>2. fired[o] \in {0, 1}
        BY <2>1 DEF DoubtInv, EffectKnown
    <2>3. QED
        BY <2>1, <2>2
<1>2. QED
    BY <1>1, SafetyTheorem, DoubtTheorem, PTL
=============================================================================
