----------------------------- MODULE BooksProofs ------------------------------
(***************************************************************************)
(* The tick-size cache of the drop-in (IInv), whose book a read answers      *)
(* (BInv), and what is told of a book (QInv): every quote is of its best     *)
(* levels, every estimate is exact and an order sent with it fills.  For     *)
(* every set of tokens, books and calls.                                     *)
(***************************************************************************)
EXTENDS Books, FiniteSetTheorems, WellFoundedInduction, TLAPS

(* What the cache holds has been shown since the token was last cleared. *)
CacheIsShown ==
    /\ DOMAIN shown = DOMAIN Outcome /\ DOMAIN ticks \subseteq DOMAIN Outcome
    /\ shown = [t \in DOMAIN shown |-> shown[t]]
    /\ \A t \in DOMAIN ticks : ticks[t] \in shown[t]

CallIsOne == client \in Clients /\ (call = Idle \/ call \in Calls[client])

OutIsASequence == \E S : out \in Seq(S)

(* A tick that is told is of a token that has an outcome.                    *)
AnsweredHaveOutcomes ==
    call.op = "tick" =>
        \A i \in DOMAIN out : call.requests[i].token \in DOMAIN Outcome

IInv ==
    /\ CacheIsShown /\ CallIsOne /\ OutIsASequence
    /\ AnsweredHaveOutcomes
    /\ ClearedTickIsReadAgain

(* An answer is added behind the others. *)
LEMMA Added ==
    ASSUME NEW S, out \in Seq(S), NEW r, out' = Append(out, r)
    PROVE  /\ OutIsASequence'
           /\ DOMAIN out = 1..Len(out) /\ Len(out) \in Nat
           /\ DOMAIN out' = 1..(Len(out) + 1)
           /\ \A i \in 1..Len(out) : out'[i] = out[i]
           /\ out'[Len(out) + 1] = r
<1>1. out \in Seq(S \cup {r}) /\ r \in S \cup {r}
    OBVIOUS
<1>2. out' \in Seq(S \cup {r})
    BY <1>1
<1>3. QED
    BY <1>1, <1>2 DEF OutIsASequence

(* The token of a call for tick sizes is one that has an outcome.            *)
LEMMA TokenHasOutcome ==
    ASSUME CallIsOne, OutIsASequence, Reading({"tick"})
    PROVE  Next1.token \in DOMAIN Outcome
<1>1. PICK S : out \in Seq(S)
    BY DEF OutIsASequence
<1>2. call.op = "tick" /\ ~Finished
    BY DEF Reading
<1>3. call \in Calls[client] /\ client \in Clients
    BY <1>2 DEF CallIsOne, Idle
<1>4. /\ call.requests \in Seq(Range(call.requests)) /\ call.requests # <<>>
      /\ \A i \in DOMAIN call.requests : call.requests[i].token \in DOMAIN Outcome
    BY <1>2, <1>3, BooksAssumption
<1>5. Len(call.requests) \in Nat /\ Len(call.requests) >= 1
      /\ DOMAIN call.requests = 1..Len(call.requests)
    BY <1>4
<1>6. Max({1, Len(call.requests)}) = Len(call.requests)
    BY <1>5 DEF Max
<1>7. ~(Len(out) >= Len(call.requests))
    BY <1>2, <1>6 DEF Finished
<1>8. Len(out) + 1 \in 1..Len(call.requests)
    BY <1>1, <1>5, <1>7
<1>9. QED
    BY <1>4, <1>5, <1>8 DEF Next1

(* A tick that is told is in what has been shown, and stays there while the  *)
(* call lasts.                                                               *)
LEMMA ToldIsShown ==
    ASSUME IInv, Reading({"tick"}), NEW kind, NEW of, NEW book, NEW value,
           Answer(kind, of, book, value), call' = call,
           DOMAIN shown' = DOMAIN shown,
           \A t \in DOMAIN shown : shown[t] \subseteq shown'[t],
           value \in shown'[Next1.token]
    PROVE  OutIsASequence' /\ AnsweredHaveOutcomes' /\ ClearedTickIsReadAgain'
<1> DEFINE r == [kind |-> kind, of |-> of, book |-> book, value |-> value]
<1>1. PICK S : out \in Seq(S)
    BY DEF IInv, OutIsASequence
<1>2. out' = Append(out, r)
    BY DEF Answer
<1> HIDE DEF r
<1>3. /\ OutIsASequence'
      /\ DOMAIN out = 1..Len(out) /\ Len(out) \in Nat
      /\ DOMAIN out' = 1..(Len(out) + 1)
      /\ \A i \in 1..Len(out) : out'[i] = out[i]
      /\ out'[Len(out) + 1] = r
    BY <1>1, <1>2, Added
<1>4. AnsweredHaveOutcomes'
    <2>1. Next1.token \in DOMAIN Outcome
        BY TokenHasOutcome DEF IInv
    <2>2. QED
        BY <1>3, <2>1 DEF IInv, AnsweredHaveOutcomes, Next1
<1>5. ClearedTickIsReadAgain'
    <2>1. SUFFICES ASSUME NEW i \in DOMAIN out', call.op = "tick",
                          out'[i].kind \in {"book", "cached", "default"}
                   PROVE  out'[i].value \in shown'[call.requests[i].token]
        BY DEF ClearedTickIsReadAgain
    <2>2. CASE i = Len(out) + 1
        BY <1>3, <2>2 DEF Next1, r
    <2>3. CASE i # Len(out) + 1
        <3>1. i \in 1..Len(out) /\ out'[i] = out[i]
            BY <1>3, <2>3
        <3>2. /\ out[i].value \in shown[call.requests[i].token]
              /\ call.requests[i].token \in DOMAIN shown
            BY <1>3, <2>1, <3>1
            DEF IInv, ClearedTickIsReadAgain, AnsweredHaveOutcomes, CacheIsShown
        <3>3. QED
            BY <3>1, <3>2
    <2>4. QED
        BY <2>2, <2>3
<1>6. QED
    BY <1>3, <1>4, <1>5

(* Reading a tick size keeps the invariant: whatever is put into the cache   *)
(* is shown at the same time.                                                *)
LEMMA GetTickSizeInv == IInv /\ GetTickSize => IInv'
<1> SUFFICES ASSUME IInv, GetTickSize PROVE IInv'
    OBVIOUS
<1> DEFINE token == Next1.token
           of == Shows(BookRoute(token))
<1>1. Reading({"tick"}) /\ UNCHANGED <<client, call>>
    BY DEF GetTickSize
<1>2. token \in DOMAIN Outcome /\ CallIsOne'
    BY <1>1, TokenHasOutcome DEF IInv, CallIsOne
<1>3. \/ /\ token \in DOMAIN ticks
         /\ Answer("cached", of, Nothing, ticks[token])
         /\ UNCHANGED <<ticks, shown>>
      \/ /\ token \notin DOMAIN ticks
         /\ \E kind, book, tick :
              /\ Answer(kind, of, book, tick)
              /\ ticks' = Cached(token, tick)
              /\ shown' = [shown EXCEPT ![token] = @ \cup {tick}]
    BY DEF GetTickSize
<1> HIDE DEF token, of
<1>4. CASE /\ token \in DOMAIN ticks
           /\ Answer("cached", of, Nothing, ticks[token])
           /\ UNCHANGED <<ticks, shown>>
    <2>1. CacheIsShown' /\ ticks[token] \in shown'[token]
        BY <1>4 DEF IInv, CacheIsShown
    <2>2. OutIsASequence' /\ AnsweredHaveOutcomes' /\ ClearedTickIsReadAgain'
        BY <1>1, <1>4, <2>1, ToldIsShown DEF token
    <2>3. QED
        BY <1>2, <2>1, <2>2 DEF IInv
<1>5. CASE /\ token \notin DOMAIN ticks
           /\ \E kind, book, tick :
                /\ Answer(kind, of, book, tick)
                /\ ticks' = Cached(token, tick)
                /\ shown' = [shown EXCEPT ![token] = @ \cup {tick}]
    <2>1. PICK kind, book, tick :
            /\ Answer(kind, of, book, tick)
            /\ ticks' = Cached(token, tick)
            /\ shown' = [shown EXCEPT ![token] = @ \cup {tick}]
        BY <1>5
    <2>2. /\ DOMAIN shown' = DOMAIN shown /\ token \in DOMAIN shown
          /\ \A t \in DOMAIN shown : shown[t] \subseteq shown'[t]
          /\ tick \in shown'[token]
        BY <1>2, <2>1 DEF IInv, CacheIsShown
    <2>3. CacheIsShown'
        BY <1>2, <2>1, <2>2 DEF IInv, CacheIsShown, Cached
    <2>4. OutIsASequence' /\ AnsweredHaveOutcomes' /\ ClearedTickIsReadAgain'
        BY <1>1, <2>1, <2>2, ToldIsShown DEF token
    <2>5. QED
        BY <1>2, <2>3, <2>4 DEF IInv
<1>6. QED
    BY <1>3, <1>4, <1>5

(* So does clearing the cache, of one token or of all.                       *)
LEMMA ClearInv == IInv /\ ClearTickSizeCache => IInv'
<1> SUFFICES ASSUME IInv, ClearTickSizeCache PROVE IInv'
    OBVIOUS
<1>1. /\ call' = call /\ client' = client /\ call.op = "clear"
      /\ ticks' = IF IsEmpty(Next1.token) THEN <<>> ELSE Without(Next1.token)
      /\ shown' = [t \in DOMAIN shown |->
                     IF IsEmpty(Next1.token) \/ t = Next1.token THEN {} ELSE shown[t]]
      /\ Answer("cleared", <<>>, Nothing, None)
    BY DEF ClearTickSizeCache, Reading
<1>2. OutIsASequence'
    BY <1>1, Added DEF IInv, OutIsASequence, Answer
<1>3. CacheIsShown'
    BY <1>1 DEF IInv, CacheIsShown, Without
<1>4. QED
    BY <1>1, <1>2, <1>3
    DEF IInv, CallIsOne, AnsweredHaveOutcomes, ClearedTickIsReadAgain

(* A read of any other kind answers, and leaves the cache alone. *)
LEMMA OtherReadInv ==
    ASSUME IInv, call.op # "tick", UNCHANGED <<client, call, ticks, shown>>,
           \E kind, of, book, value : Answer(kind, of, book, value)
    PROVE  IInv'
<1>1. OutIsASequence'
    BY Added DEF IInv, OutIsASequence, Answer
<1>2. QED
    BY <1>1 DEF IInv, CacheIsShown, CallIsOne, AnsweredHaveOutcomes,
        ClearedTickIsReadAgain

(* The cache of tick sizes and what has been told of it, in every state.     *)
THEOREM TickTheorem == Spec => []IInv
<1>1. Init => IInv
    <2> SUFFICES ASSUME Init PROVE IInv
        OBVIOUS
    <2>1. out = <<>> /\ out \in Seq({}) /\ ticks = <<>>
        BY DEF Init
    <2>2. QED
        BY <2>1 DEF Init, IInv, CacheIsShown, CallIsOne, OutIsASequence,
            AnsweredHaveOutcomes, ClearedTickIsReadAgain
<1>2. IInv /\ [Next]_vars => IInv'
    <2> SUFFICES ASSUME IInv, [Next]_vars PROVE IInv'
        OBVIOUS
    <2>1. ASSUME NEW token, NEW value, Get(token, value)
          PROVE  \E kind, of, book, told : Answer(kind, of, book, told)
        BY <2>1 DEF Get
    <2>2. CASE Begin
        <3>1. out' = <<>> /\ out' \in Seq({})
            BY <2>2 DEF Begin
        <3>2. QED
            BY <2>2, <3>1 DEF Begin, IInv, CacheIsShown, CallIsOne, OutIsASequence,
                AnsweredHaveOutcomes, ClearedTickIsReadAgain
    <2>3. CASE PublicRead \/ AsyncRead \/ SecureRead \/ AsyncSecureRead
        <3>1. /\ call.op # "tick" /\ UNCHANGED <<client, call, ticks, shown>>
              /\ \E kind, of, book, told : Answer(kind, of, book, told)
            BY <2>1, <2>3 DEF PublicRead, AsyncRead, SecureRead, AsyncSecureRead,
                TypedRead, Reading
        <3>2. QED
            BY <3>1, OtherReadInv
    <2>4. CASE Estimate \/ AsyncEstimate
        <3>1. /\ call.op # "tick" /\ UNCHANGED <<client, call, ticks, shown>>
              /\ \E kind, of, book, told : Answer(kind, of, book, told)
            BY <2>1, <2>4 DEF Estimate, AsyncEstimate, EstimateOf, Reading
        <3>2. QED
            BY <3>1, OtherReadInv
    <2>5. CASE ClobRead \/ ClobLast \/ ClobAverage
        <3>1. /\ call.op # "tick" /\ UNCHANGED <<client, call, ticks, shown>>
              /\ \E kind, of, book, told : Answer(kind, of, book, told)
            BY <2>1, <2>5 DEF ClobRead, ClobLast, ClobAverage, Reading
        <3>2. QED
            BY <3>1, OtherReadInv
    <2>6. CASE BookMoves \/ PlaceFok \/ Done \/ UNCHANGED vars
        BY <2>6 DEF BookMoves, PlaceFok, Done, vars, IInv, CacheIsShown, CallIsOne,
            OutIsASequence, AnsweredHaveOutcomes, ClearedTickIsReadAgain
    <2>7. QED
        BY <2>2, <2>3, <2>4, <2>5, <2>6, GetTickSizeInv, ClearInv DEF Next
<1>3. QED
    BY <1>1, <1>2, PTL DEF Spec

(* A tick size that was dropped from the cache does not come back: what is   *)
(* told of a token was read, or fell back to the default, since it was last  *)
(* cleared (get_tick_size, clear_tick_size_cache).                           *)
THEOREM ClearedTicksStayAway == Spec => []ClearedTickIsReadAgain
    BY TickTheorem, PTL DEF IInv
-----------------------------------------------------------------------------
(* What is read. *)

(* A request that is answered is one of the call's.                          *)
LEMMA RequestUnderWay ==
    ASSUME IInv, ~Finished
    PROVE  /\ call \in Calls[client] /\ client \in Clients
           /\ call.requests \in Seq(Range(call.requests))
           /\ Len(out) \in Nat /\ Len(out) <= Len(call.requests)
           /\ call.requests # <<>> =>
                Len(out) + 1 \in DOMAIN call.requests
<1>1. PICK S : out \in Seq(S)
    BY DEF IInv, OutIsASequence
<1>2. Len(out) \in Nat
    BY <1>1
<1>3. call # Idle
    BY <1>2 DEF Finished, Idle
<1>4. call \in Calls[client] /\ client \in Clients
    BY <1>3 DEF IInv, CallIsOne
<1>5. call.requests \in Seq(Range(call.requests))
    BY <1>4, RequestsAssumption
<1>6. /\ Len(call.requests) \in Nat /\ DOMAIN call.requests = 1..Len(call.requests)
      /\ call.requests # <<>> => Len(call.requests) # 0
    BY <1>5
<1>7. \/ Len(call.requests) = 0 /\ Max({1, Len(call.requests)}) = 1
      \/ Len(call.requests) >= 1 /\ Max({1, Len(call.requests)}) = Len(call.requests)
    BY <1>6 DEF Max
<1>8. ~(Len(out) >= IF call.op = "idle" THEN 0 ELSE Max({1, Len(call.requests)}))
    BY DEF Finished
<1>9. Len(out) < Max({1, Len(call.requests)})
    BY <1>2, <1>7, <1>8
<1>10. QED
    BY <1>2, <1>4, <1>5, <1>6, <1>7, <1>9

(* The route of a token leads to the book of the outcome it stands for, if   *)
(* to any (BookRoute).                                                       *)
LEMMA RouteLeadsHome ==
    ASSUME NEW c \in Clients, NEW k \in Calls[c], NEW i \in DOMAIN k.requests
    PROVE  LET token == k.requests[i].token
               of == Shows(BookRoute(token))
           IN  of # <<>> => of = Outcome[token] /\ token \in DOMAIN Outcome
<1> DEFINE token == k.requests[i].token
           of == Shows(BookRoute(token))
<1>1. NamesOutcome(token) =>
        /\ token \in DOMAIN Outcome
        /\ Outcome[token] = <<MarketPart(token), Upper(LabelPart(token))>>
    BY RequestsAssumption
<1> HIDE DEF token
<1>2. CASE NamesOutcome(token)
    <2>1. Upper(LabelPart(token)) # ""
        BY <1>2 DEF NamesOutcome, Outcomes
    <2>2. of = <<MarketPart(token), Upper(LabelPart(token))>>
        BY <1>2, <2>1 DEF Shows, BookRoute
    <2>3. QED
        BY <1>1, <1>2, <2>2 DEF token
<1>3. CASE ~NamesOutcome(token)
    <2>1. of = IF token \in DOMAIN Outcome THEN Outcome[token] ELSE <<>>
        BY <1>3 DEF Shows, BookRoute
    <2>2. QED
        BY <2>1 DEF token
<1>4. QED
    BY <1>2, <1>3

BInv ==
    /\ TypeOK
    /\ DOMAIN books = Range(Outcome)
    /\ ReadsTheOutcomeMeant

(* An answer of the book its request means, in which a last trade is told as *)
(* it is there, leaves all answers such.                                     *)
LEMMA AnswerIsMeant ==
    ASSUME IInv, BInv, ~Finished, call' = call,
           NEW kind, NEW of, NEW book, NEW value, Answer(kind, of, book, value),
           of # <<>> => of = Outcome[Next1.token],
           call.op = "last" /\ book.last # None => value = book.last
    PROVE  ReadsTheOutcomeMeant' /\ Len(out') <= Len(call'.requests) + 1
<1> DEFINE r == [kind |-> kind, of |-> of, book |-> book, value |-> value]
<1>1. PICK S : out \in Seq(S)
    BY DEF IInv, OutIsASequence
<1>2. out' = Append(out, r)
    BY DEF Answer
<1>r. r.of = of /\ r.book = book /\ r.value = value
    OBVIOUS
<1> HIDE DEF r
<1>3. /\ DOMAIN out = 1..Len(out) /\ Len(out) \in Nat
      /\ DOMAIN out' = 1..(Len(out) + 1)
      /\ \A i \in 1..Len(out) : out'[i] = out[i]
      /\ out'[Len(out) + 1] = r
    BY <1>1, <1>2, Added
<1>4. Len(out') = Len(out) + 1
    BY <1>1, <1>2
<1>5. Len(out') <= Len(call'.requests) + 1
    <2>1. call.requests \in Seq(Range(call.requests)) /\ Len(out) <= Len(call.requests)
        BY RequestUnderWay
    <2>2. Len(call.requests) \in Nat
        BY <2>1
    <2>3. QED
        BY <1>3, <1>4, <2>1, <2>2
<1>6. ReadsTheOutcomeMeant'
    <2>1. SUFFICES ASSUME NEW i \in DOMAIN out'
                   PROVE  /\ out'[i].of # <<>> => out'[i].of = Outcome[call.requests[i].token]
                          /\ call.op = "last" /\ out'[i].book.last # None =>
                               out'[i].value = out'[i].book.last
        BY DEF ReadsTheOutcomeMeant
    <2>2. CASE i = Len(out) + 1
        BY <1>3, <1>r, <2>2 DEF Next1
    <2>3. CASE i # Len(out) + 1
        <3>1. i \in DOMAIN out /\ out'[i] = out[i]
            BY <1>3, <2>3
        <3>2. QED
            BY <3>1 DEF BInv, ReadsTheOutcomeMeant
    <2>4. QED
        BY <2>2, <2>3
<1>7. QED
    BY <1>5, <1>6

(* So does a GET of a book, if what is told of a last trade is the book's.   *)
LEMMA GetIsMeant ==
    ASSUME IInv, BInv, ~Finished, call.requests # <<>>, call' = call,
           NEW value, Get(Next1.token, value),
           \A book \in Snapshots :
               call.op = "last" /\ book.last # None => value[book] = book.last
    PROVE  ReadsTheOutcomeMeant' /\ Len(out') <= Len(call'.requests) + 1
<1> DEFINE of == Shows(BookRoute(Next1.token))
<1>1. of # <<>> => of = Outcome[Next1.token] /\ Next1.token \in DOMAIN Outcome
    BY RequestUnderWay, RouteLeadsHome DEF Next1
<1>2. \/ of # <<>> /\ Answer("book", of, books[of], value[books[of]])
      \/ Answer("error", <<>>, Nothing, None)
    BY DEF Get
<1> HIDE DEF of
<1>3. CASE of # <<>> /\ Answer("book", of, books[of], value[books[of]])
    <2>1. of \in DOMAIN books
        BY <1>1, <1>3 DEF BInv, Range
    <2>2. books[of] \in Snapshots
        BY <2>1 DEF BInv, TypeOK
    <2>3. QED
        BY <1>1, <1>3, <2>2, AnswerIsMeant
<1>4. CASE Answer("error", <<>>, Nothing, None)
    <2>1. Nothing.last = None
        BY DEF Nothing
    <2>2. QED
        BY <1>4, <2>1, AnswerIsMeant
<1>5. QED
    BY <1>2, <1>3, <1>4

(* An error is no book. *)
LEMMA ErrorIsMeant ==
    ASSUME IInv, BInv, ~Finished, call' = call,
           Answer("error", <<>>, Nothing, None)
    PROVE  ReadsTheOutcomeMeant' /\ Len(out') <= Len(call'.requests) + 1
<1>1. Nothing.last = None
    BY DEF Nothing
<1>2. QED
    BY <1>1, AnswerIsMeant

(* What an action must leave alone, but for its answer.                      *)
Kept == UNCHANGED <<client, books, moves, calls, call, fok>>

(* An answer that is meant, with the cache's types, is all there is to show. *)
LEMMA KeptIsMeant ==
    ASSUME BInv, Kept, ReadsTheOutcomeMeant',
           Len(out') <= Len(call'.requests) + 1,
           DOMAIN ticks' \subseteq DOMAIN Outcome,
           \A token \in DOMAIN ticks' : ticks'[token] \in Nat \ {0}
    PROVE  BInv'
BY DEF BInv, Kept, TypeOK

(* The reads of the four typed clients.                                      *)
LEMMA TypedReadMeant ==
    ASSUME IInv, BInv, NEW c, TypedRead(c)
    PROVE  BInv'
<1>1. /\ ~Finished /\ Kept /\ call' = call /\ ticks' = ticks
      /\ call.op \in {"book", "mid", "spread", "price", "last"}
    BY DEF TypedRead, Reading, Kept
<1>2. ReadsTheOutcomeMeant' /\ Len(out') <= Len(call'.requests) + 1
    <2>1. CASE ~ValidRequests(call) \/ IsEmpty(Next1.token)
        <3>1. Answer("error", <<>>, Nothing, None)
            BY <2>1 DEF TypedRead
        <3>2. QED
            BY <1>1, <3>1, ErrorIsMeant
    <2>2. CASE ~(~ValidRequests(call) \/ IsEmpty(Next1.token))
        <3> DEFINE value == [book \in Snapshots |->
              CASE call.op = "book" -> AdaptBook(book)
                [] call.op = "mid" -> OrZero(Midpoint(book))
                [] call.op = "spread" -> OrZero(Spread(book))
                [] call.op = "last" -> OrZero(LastTrade(book))
                [] call.op = "price" -> OrZero(PublicPrice(book, Next1.side))]
        <3>1. Get(Next1.token, value)
            BY <2>2 DEF TypedRead
        <3>2. \A book \in Snapshots :
                call.op = "last" /\ book.last # None => value[book] = book.last
            BY DEF OrZero, LastTrade
        <3>3. call.requests # <<>>
            BY <2>2 DEF ValidRequests
        <3> HIDE DEF value
        <3>4. QED
            BY <1>1, <3>1, <3>2, <3>3, GetIsMeant
    <2>3. QED
        BY <2>1, <2>2
<1>3. QED
    BY <1>1, <1>2, KeptIsMeant DEF BInv, TypeOK

(* Their estimates.                                                          *)
LEMMA EstimateMeant ==
    ASSUME IInv, BInv, NEW clients, EstimateOf(clients)
    PROVE  BInv'
<1>1. /\ ~Finished /\ Kept /\ call' = call /\ ticks' = ticks
      /\ call.op = "estimate"
    BY DEF EstimateOf, Reading, Kept
<1>2. ReadsTheOutcomeMeant' /\ Len(out') <= Len(call'.requests) + 1
    <2>1. CASE ~ValidEstimate(Next1)
        <3>1. Answer("error", <<>>, Nothing, None)
            BY <2>1 DEF EstimateOf
        <3>2. QED
            BY <1>1, <3>1, ErrorIsMeant
    <2>2. CASE ValidEstimate(Next1)
        <3> DEFINE value == [book \in Snapshots |-> EstimateFromBook(book, Next1)]
        <3>1. Get(Next1.token, value)
            BY <2>2 DEF EstimateOf
        <3>2. call.requests # <<>>
            BY <1>1, RequestUnderWay, RequestsAssumption
        <3> HIDE DEF value
        <3>3. QED
            BY <1>1, <3>1, <3>2, GetIsMeant
    <2>3. QED
        BY <2>1, <2>2
<1>3. QED
    BY <1>1, <1>2, KeptIsMeant DEF BInv, TypeOK

(* The reads of the drop-in.                                                 *)
LEMMA ClobReadMeant ==
    ASSUME IInv, BInv, ClobRead \/ ClobLast \/ ClobAverage
    PROVE  BInv'
<1>1. /\ ~Finished /\ Kept /\ call' = call /\ ticks' = ticks /\ client = "clob"
    BY DEF ClobRead, ClobLast, ClobAverage, Reading, Kept
<1>2. PICK value : /\ Get(Next1.token, value)
                   /\ \A book \in Snapshots :
                        call.op = "last" /\ book.last # None =>
                            value[book] = book.last
    <2>1. CASE ClobRead
        <3>1. call.op # "last"
            BY <2>1 DEF ClobRead, Reading
        <3>2. QED
            BY <2>1, <3>1 DEF ClobRead
    <2>2. CASE ClobLast
        <3>1. PICK record \in Records :
                Get(Next1.token, [book \in Snapshots |->
                    IF LastTrade(book) # None THEN LastTrade(book) ELSE record])
            BY <2>2 DEF ClobLast
        <3> DEFINE value == [book \in Snapshots |->
                    IF LastTrade(book) # None THEN LastTrade(book) ELSE record]
        <3>2. \A book \in Snapshots :
                book.last # None => value[book] = book.last
            BY DEF LastTrade
        <3>3. Get(Next1.token, value)
            BY <3>1
        <3> HIDE DEF value
        <3>4. QED
            BY <3>2, <3>3
    <2>3. CASE ClobAverage
        <3>1. call.op # "last"
            BY <2>3 DEF ClobAverage, Reading
        <3>2. QED
            BY <2>3, <3>1 DEF ClobAverage
    <2>4. QED
        BY <2>1, <2>2, <2>3
<1>3. call.requests # <<>>
    BY <1>1, RequestUnderWay, RequestsAssumption
<1>4. ReadsTheOutcomeMeant' /\ Len(out') <= Len(call'.requests) + 1
    BY <1>1, <1>2, <1>3, GetIsMeant
<1>5. QED
    BY <1>1, <1>4, KeptIsMeant DEF BInv, TypeOK

(* A tick size is read of its token's own book, and is none that is no tick. *)
LEMMA GetTickSizeMeant ==
    ASSUME IInv, BInv, GetTickSize
    PROVE  BInv'
<1> DEFINE token == Next1.token
           of == Shows(BookRoute(token))
<1>1. /\ ~Finished /\ Kept /\ call' = call /\ call.op = "tick"
      /\ Reading({"tick"}) /\ client = "clob"
    BY DEF GetTickSize, Reading, Kept
<1>2. token \in DOMAIN Outcome
    BY <1>1, TokenHasOutcome DEF IInv
<1>3. call.requests # <<>>
    BY <1>1, RequestUnderWay, RequestsAssumption
<1>4. of # <<>> => of = Outcome[token]
    BY <1>1, <1>3, RequestUnderWay, RouteLeadsHome DEF Next1
<1>5. \/ /\ token \in DOMAIN ticks /\ ticks' = ticks
         /\ Answer("cached", of, Nothing, ticks[token])
      \/ /\ of # <<>> /\ ticks' = Cached(token, TickOf(books[of]))
         /\ Answer("book", of, books[of], TickOf(books[of]))
      \/ /\ ticks' = Cached(token, DefaultTick)
         /\ Answer("default", of, Nothing, DefaultTick)
    BY DEF GetTickSize
<1>6. of # <<>> => TickOf(books[of]) \in Nat \ {0}
    <2>1. of # <<>> => of \in DOMAIN books
        BY <1>2, <1>4 DEF BInv, Range
    <2>2. of # <<>> => books[of] \in Snapshots
        BY <2>1 DEF BInv, TypeOK
    <2>3. QED
        BY <2>2, SnapshotsAssumption DEF TickOf, DefaultTick
<1> HIDE DEF token, of
<1>7. \A tick \in Nat \ {0} : ticks' = Cached(token, tick) =>
        /\ DOMAIN ticks' \subseteq DOMAIN Outcome
        /\ \A t \in DOMAIN ticks' : ticks'[t] \in Nat \ {0}
    BY <1>2 DEF Cached, BInv, TypeOK
<1>8. /\ DOMAIN ticks' \subseteq DOMAIN Outcome
      /\ \A t \in DOMAIN ticks' : ticks'[t] \in Nat \ {0}
    <2>1. DefaultTick \in Nat \ {0}
        BY DEF DefaultTick
    <2>2. CASE ticks' = ticks
        BY <2>2 DEF BInv, TypeOK
    <2>3. QED
        BY <1>5, <1>6, <1>7, <2>1, <2>2
<1>9. ReadsTheOutcomeMeant' /\ Len(out') <= Len(call'.requests) + 1
    <2>1. PICK kind, book, value : Answer(kind, of, book, value)
        BY <1>5
    <2>2. QED
        BY <1>1, <1>4, <2>1, AnswerIsMeant DEF token
<1>10. QED
    BY <1>1, <1>8, <1>9, KeptIsMeant

(* Nothing is read to clear the cache.                                       *)
LEMMA ClearMeant ==
    ASSUME IInv, BInv, ClearTickSizeCache
    PROVE  BInv'
<1>1. /\ ~Finished /\ Kept /\ call' = call
      /\ ticks' = IF IsEmpty(Next1.token) THEN <<>> ELSE Without(Next1.token)
      /\ Answer("cleared", <<>>, Nothing, None)
    BY DEF ClearTickSizeCache, Reading, Kept
<1>2. /\ DOMAIN ticks' \subseteq DOMAIN Outcome
      /\ \A t \in DOMAIN ticks' : ticks'[t] \in Nat \ {0}
    BY <1>1 DEF BInv, TypeOK, Without
<1>3. Nothing.last = None
    BY DEF Nothing
<1>4. ReadsTheOutcomeMeant' /\ Len(out') <= Len(call'.requests) + 1
    BY <1>1, <1>3, AnswerIsMeant
<1>5. QED
    BY <1>1, <1>2, <1>4, KeptIsMeant

(* Every answer is of the outcome its token means, in every state.           *)
THEOREM ReadsTheorem == Spec => []BInv
<1>1. Init => BInv
    <2> SUFFICES ASSUME Init PROVE BInv
        OBVIOUS
    <2>1. /\ out = <<>> /\ Len(out) = 0 /\ DOMAIN out = {}
          /\ call.requests = <<>> /\ Len(call.requests) = 0
        BY DEF Init, Idle
    <2>2. TypeOK
        BY <2>1, SnapshotsAssumption DEF Init, TypeOK
    <2>3. QED
        BY <2>1, <2>2 DEF Init, BInv, ReadsTheOutcomeMeant
<1>2. IInv /\ BInv /\ [Next]_vars => BInv'
    <2> SUFFICES ASSUME IInv, BInv, [Next]_vars PROVE BInv'
        OBVIOUS
    <2>1. CASE Begin
        <3>1. /\ out' = <<>> /\ Len(out') = 0 /\ DOMAIN out' = {}
              /\ UNCHANGED <<client, books, moves, ticks>> /\ fok' = "none"
              /\ call' \in Calls[client] /\ calls' = calls + 1 /\ calls < MaxCalls
            BY <2>1 DEF Begin
        <3>2. Len(call'.requests) \in Nat
            BY <3>1, RequestsAssumption DEF BInv, TypeOK
        <3>3. TypeOK'
            BY <3>1, <3>2, SnapshotsAssumption DEF BInv, TypeOK
        <3>4. QED
            BY <3>1, <3>3 DEF BInv, ReadsTheOutcomeMeant
    <2>2. CASE BookMoves
        <3>1. TypeOK' /\ DOMAIN books' = DOMAIN books
            BY <2>2, SnapshotsAssumption DEF BookMoves, BInv, TypeOK
        <3>2. QED
            BY <2>2, <3>1 DEF BookMoves, BInv, ReadsTheOutcomeMeant
    <2>3. CASE PlaceFok
        BY <2>3 DEF PlaceFok, BInv, TypeOK, ReadsTheOutcomeMeant
    <2>4. CASE Done \/ UNCHANGED vars
        BY <2>4 DEF Done, vars, BInv, TypeOK, ReadsTheOutcomeMeant
    <2>5. QED
        BY <2>1, <2>2, <2>3, <2>4, TypedReadMeant, EstimateMeant, ClobReadMeant,
           GetTickSizeMeant, ClearMeant
        DEF Next, PublicRead, AsyncRead, SecureRead, AsyncSecureRead, Estimate,
            AsyncEstimate
<1>3. QED
    BY <1>1, <1>2, TickTheorem, PTL DEF Spec

(* Whatever form a token has, what is told of it was read from the book of   *)
(* its own outcome, and a last trade the book knows is not replaced by the   *)
(* market's record (the route of every book read).                           *)
THEOREM ReadsAreMeant == Spec => []ReadsTheOutcomeMeant
    BY ReadsTheorem, PTL DEF BInv

(* The types: in particular no call is answered more often than it asks.     *)
THEOREM TypesHold == Spec => []TypeOK
    BY ReadsTheorem, PTL DEF BInv
-----------------------------------------------------------------------------
(* What is computed of a book. *)

(* A set of naturals that is not empty has a least element.                  *)
LEMMA Least ==
    ASSUME NEW T \in SUBSET Nat, T # {}
    PROVE  \E m \in T : \A n \in T : ~(n < m)
<1> DEFINE R == OpToRel(<, Nat)
<1>1. IsWellFoundedOn(R, Nat)
    BY NatLessThanWellFounded
<1>2. \A m, n \in Nat : n < m => <<n, m>> \in R
    BY DEF OpToRel
<1> HIDE DEF R
<1>3. PICK m \in T : \A n \in T : <<n, m>> \notin R
    BY <1>1, WFMin
<1>4. QED
    BY <1>2, <1>3

(* Induction, on a set of naturals.                                          *)
LEMMA Induct ==
    ASSUME NEW T \in SUBSET Nat, 0 \in T, \A n \in Nat : n \in T => n + 1 \in T
    PROVE  T = Nat
<1>1. SUFFICES ASSUME Nat \ T # {} PROVE FALSE
    OBVIOUS
<1>2. PICK m \in Nat \ T : \A n \in Nat \ T : ~(n < m)
    BY <1>1, Least
<1>3. m # 0
    OBVIOUS
<1>4. m - 1 \in T
    BY <1>2, <1>3
<1>5. QED
    BY <1>2, <1>4

(* A table of running totals. *)
Totals(f, w, n) ==
    /\ f \in [0..n -> Int] /\ f[0] = 0
    /\ \A k \in 1..n : f[k] = f[k - 1] + w[k]

(* There is such a table for all numbers.                                    *)
LEMMA TotalsExist ==
    ASSUME NEW N \in Nat, NEW w \in [1..N -> Int]
    PROVE  \E f : Totals(f, w, N)
<1> DEFINE T == {n \in Nat : n <= N => \E f : Totals(f, w, n)}
<1>1. 0 \in T
    <2>1. Totals([k \in 0..0 |-> 0], w, 0)
        BY DEF Totals
    <2>2. QED
        BY <2>1
<1>2. ASSUME NEW n \in Nat, n \in T PROVE n + 1 \in T
    <2>1. SUFFICES ASSUME n + 1 <= N PROVE \E f : Totals(f, w, n + 1)
        OBVIOUS
    <2>2. PICK f : Totals(f, w, n)
        BY <1>2, <2>1
    <2> DEFINE g == [k \in 0..(n + 1) |-> IF k = n + 1 THEN f[n] + w[n + 1] ELSE f[k]]
    <2>3. f \in [0..n -> Int] /\ f[n] \in Int /\ w[n + 1] \in Int /\ f[0] = 0
        BY <2>1, <2>2 DEF Totals
    <2>4. g \in [0..(n + 1) -> Int] /\ g[0] = 0
        BY <2>3
    <2>5. \A k \in 1..(n + 1) : g[k] = g[k - 1] + w[k]
        <3>1. SUFFICES ASSUME NEW k \in 1..(n + 1) PROVE g[k] = g[k - 1] + w[k]
            OBVIOUS
        <3>2. CASE k = n + 1
            BY <3>2
        <3>3. CASE k \in 1..n
            <4>1. f[k] = f[k - 1] + w[k]
                BY <2>2, <3>3 DEF Totals
            <4>2. g[k] = f[k] /\ g[k - 1] = f[k - 1]
                BY <3>3
            <4>3. QED
                BY <4>1, <4>2
        <3>4. QED
            BY <3>1, <3>2, <3>3
    <2>6. QED
        BY <2>4, <2>5 DEF Totals
<1> HIDE DEF T
<1>3. T = Nat
    BY <1>1, <1>2, Induct DEF T
<1>4. N \in T /\ N <= N
    BY <1>3
<1>5. QED
    BY <1>4 DEF T

(* A recursive sum is such a table. *)
LEMMA SumIsTotals ==
    ASSUME NEW N \in Nat, NEW w \in [1..N -> Int], NEW c,
           c = CHOOSE f : f = [n \in 0..N |-> IF n = 0 THEN 0 ELSE f[n - 1] + w[n]]
    PROVE  Totals(c, w, N)
<1> DEFINE Q(f) == f = [n \in 0..N |-> IF n = 0 THEN 0 ELSE f[n - 1] + w[n]]
<1>1. PICK f : Totals(f, w, N)
    BY TotalsExist
<1>2. Q(f)
    <2>1. /\ f = [n \in 0..N |-> f[n]]
          /\ \A n \in 0..N : f[n] = IF n = 0 THEN 0 ELSE f[n - 1] + w[n]
        BY <1>1 DEF Totals
    <2>2. QED
        BY <2>1
<1>3. Q(c)
    <2>1. Q(CHOOSE g : Q(g))
        BY <1>2
    <2>2. QED
        BY <2>1
<1>4. /\ c[0] = 0 /\ \A n \in 1..N : c[n] = c[n - 1] + w[n]
      /\ c = [n \in 0..N |-> c[n]]
    <2>1. \A n \in 0..N : c[n] = IF n = 0 THEN 0 ELSE c[n - 1] + w[n]
        BY <1>3
    <2>2. 0 \in 0..N /\ \A n \in 1..N : n \in 0..N /\ n # 0
        OBVIOUS
    <2>3. c[0] = 0
        BY <2>1, <2>2
    <2>4. \A n \in 1..N : c[n] = c[n - 1] + w[n]
        BY <2>1, <2>2
    <2>5. DOMAIN c = 0..N /\ c = [n \in DOMAIN c |-> c[n]]
        BY <1>3
    <2>6. QED
        BY <2>3, <2>4, <2>5
<1> HIDE DEF Q
<1> DEFINE T == {n \in Nat : n <= N => c[n] \in Int}
<1>5. 0 \in T
    BY <1>4
<1>6. ASSUME NEW n \in Nat, n \in T PROVE n + 1 \in T
    <2>1. SUFFICES ASSUME n + 1 <= N PROVE c[n + 1] \in Int
        OBVIOUS
    <2>2. c[n] \in Int /\ n + 1 \in 1..N
        BY <1>6, <2>1
    <2>3. c[n + 1] = c[(n + 1) - 1] + w[n + 1] /\ w[n + 1] \in Int
        BY <1>4, <2>2
    <2>5. (n + 1) - 1 = n
        OBVIOUS
    <2>4. QED
        BY <2>2, <2>3, <2>5
<1> HIDE DEF T
<1>7. T = Nat
    BY <1>5, <1>6, Induct DEF T
<1>8. \A n \in 0..N : c[n] \in Int
    BY <1>7 DEF T
<1>9. QED
    BY <1>4, <1>8 DEF Totals

Readable == [price : Nat, size : Nat]

Weight(levels, side) ==
    [i \in DOMAIN levels |-> levels[i].size * (IF side = "BUY" THEN levels[i].price ELSE 1)]

(* What a level is worth: of a buy its notional, of a sell its size.         *)
LEMMA WeightIs ==
    ASSUME NEW levels \in Seq(Readable), NEW side
    PROVE  /\ Weight(levels, side) \in [1..Len(levels) -> Nat]
           /\ Weight(levels, side) = IF side = "BUY" THEN Notionals(levels) ELSE Sizes(levels)
<1>1. /\ DOMAIN levels = 1..Len(levels)
      /\ \A i \in 1..Len(levels) : levels[i].size \in Nat /\ levels[i].price \in Nat
    <2>1. DOMAIN levels = 1..Len(levels)
          /\ \A i \in 1..Len(levels) : levels[i] \in Readable
        OBVIOUS
    <2>2. QED
        BY <2>1 DEF Readable
<1>2. \A i \in 1..Len(levels) :
        /\ levels[i].size * levels[i].price \in Nat
        /\ levels[i].size * 1 = levels[i].size
    BY <1>1
<1>3. CASE side = "BUY"
    BY <1>1, <1>2, <1>3 DEF Weight, Notionals
<1>4. CASE side # "BUY"
    BY <1>1, <1>2, <1>4 DEF Weight, Sizes
<1>5. QED
    BY <1>3, <1>4

(* cumulative of marginal_price adds up what the levels are worth.           *)
LEMMA CumulativeIs ==
    ASSUME NEW levels \in Seq(Readable), NEW side
    PROVE  Totals(Cumulative(levels, side), Weight(levels, side), Len(levels))
<1> DEFINE N == Len(levels)
           w == Weight(levels, side)
           c == Cumulative(levels, side)
<1>1. N \in Nat /\ DOMAIN levels = 1..N
    OBVIOUS
<1>2. w \in [1..N -> Nat]
    BY WeightIs
<1>3. \A n \in 1..N :
        w[n] = levels[n].size * (IF side = "BUY" THEN levels[n].price ELSE 1)
    BY <1>1 DEF Weight
<1>4. \A f : [n \in 0..N |-> IF n = 0 THEN 0 ELSE f[n - 1] + w[n]]
           = [n \in 0..N |-> IF n = 0 THEN 0
                 ELSE f[n - 1] + levels[n].size * (IF side = "BUY" THEN levels[n].price ELSE 1)]
    BY <1>1, <1>3
<1>5. c = CHOOSE f : f = [n \in 0..N |-> IF n = 0 THEN 0 ELSE f[n - 1] + w[n]]
    <2> HIDE DEF w
    <2>1. QED
        BY <1>4 DEF Cumulative
<1> HIDE DEF N, w, c
<1>6. w \in [1..N -> Int]
    BY <1>2
<1>7. Totals(c, w, N)
    BY <1>1, <1>5, <1>6, SumIsTotals
<1>8. QED
    BY <1>7 DEF N, w, c

(* Levels that can be read. *)
KeptLevels(f, side, n) ==
    /\ DOMAIN f = 0..n /\ f = [k \in 0..n |-> f[k]] /\ f[0] = <<>>
    /\ \A k \in 1..n : f[k] = IF side[k].price = None THEN f[k - 1]
                              ELSE Append(f[k - 1], side[k])

(* There is such a list for every side.                                      *)
LEMMA KeptExist ==
    ASSUME NEW side, NEW N \in Nat
    PROVE  \E f : KeptLevels(f, side, N)
<1> DEFINE T == {n \in Nat : \E f : KeptLevels(f, side, n)}
<1>1. 0 \in T
    <2>1. KeptLevels([k \in 0..0 |-> <<>>], side, 0)
        BY DEF KeptLevels
    <2>2. QED
        BY <2>1
<1>2. ASSUME NEW n \in Nat, n \in T PROVE n + 1 \in T
    <2>1. PICK f : KeptLevels(f, side, n)
        BY <1>2
    <2> DEFINE last == IF side[n + 1].price = None THEN f[n]
                       ELSE Append(f[n], side[n + 1])
               g == [k \in 0..(n + 1) |-> IF k = n + 1 THEN last ELSE f[k]]
    <2>2. g[n + 1] = last /\ g[n] = f[n] /\ g[0] = <<>>
        BY <2>1 DEF KeptLevels
    <2>3. \A k \in 1..n : g[k] = f[k] /\ g[k - 1] = f[k - 1]
        OBVIOUS
    <2>4. DOMAIN g = 0..(n + 1) /\ g = [k \in 0..(n + 1) |-> g[k]]
        OBVIOUS
    <2> HIDE DEF g
    <2>5. \A k \in 1..(n + 1) :
            g[k] = IF side[k].price = None THEN g[k - 1] ELSE Append(g[k - 1], side[k])
        <3>1. TAKE k \in 1..(n + 1)
        <3>2. CASE k = n + 1
            <4>1. k - 1 = n
                BY <3>2
            <4>2. QED
                BY <2>2, <3>2, <4>1
        <3>3. CASE k # n + 1
            <4>1. k \in 1..n
                BY <3>3
            <4>2. QED
                BY <2>1, <2>3, <4>1 DEF KeptLevels
        <3>4. QED
            BY <3>2, <3>3
    <2>6. KeptLevels(g, side, n + 1)
        BY <2>2, <2>4, <2>5 DEF KeptLevels
    <2>7. QED
        BY <2>6
<1> HIDE DEF T
<1>3. T = Nat
    BY <1>1, <1>2, Induct DEF T
<1>4. QED
    BY <1>3 DEF T

(* _to_levels keeps the levels that can be read.                             *)
LEMMA LevelsAreReadable ==
    ASSUME NEW side \in Seq([price : Nat \cup {None}, size : Nat])
    PROVE  Levels(side) \in Seq(Readable)
<1> DEFINE N == Len(side)
           Q(f) == f = [n \in 0..N |->
                          IF n = 0 THEN <<>>
                          ELSE IF side[n].price = None THEN f[n - 1]
                          ELSE Append(f[n - 1], side[n])]
           c == CHOOSE f : Q(f)
<1>1. N \in Nat
    OBVIOUS
<1>2. Levels(side) = c[N]
    BY DEF Levels
<1>3. PICK f : KeptLevels(f, side, N)
    BY <1>1, KeptExist
<1>4. Q(f)
    <2>1. \A n \in 0..N : f[n] = IF n = 0 THEN <<>>
                                 ELSE IF side[n].price = None THEN f[n - 1]
                                 ELSE Append(f[n - 1], side[n])
        <3>1. \A n \in 0..N : n = 0 \/ n \in 1..N
            BY <1>1
        <3>2. QED
            BY <1>3, <3>1 DEF KeptLevels
    <2>2. f = [n \in 0..N |-> f[n]]
        BY <1>3 DEF KeptLevels
    <2>3. QED
        BY <2>1, <2>2
<1>5. Q(c)
    BY <1>4
<1>6. /\ c[0] = <<>>
      /\ \A n \in 1..N : c[n] = IF side[n].price = None THEN c[n - 1]
                                ELSE Append(c[n - 1], side[n])
    <2>1. \A n \in 0..N : c[n] = IF n = 0 THEN <<>>
                                 ELSE IF side[n].price = None THEN c[n - 1]
                                 ELSE Append(c[n - 1], side[n])
        BY <1>5
    <2>2. 0 \in 0..N /\ \A n \in 1..N : n \in 0..N /\ n # 0
        BY <1>1
    <2> HIDE DEF c
    <2>3. QED
        BY <2>1, <2>2
<1>7. \A n \in 1..N : side[n].price # None => side[n] \in Readable
    <2>1. PICK S : S = [price : Nat \cup {None}, size : Nat]
        OBVIOUS
    <2>2. side \in Seq(S)
        BY <2>1
    <2>3. \A n \in 1..N : side[n] \in S
        BY <2>2
    <2>4. QED
        BY <2>1, <2>3 DEF Readable
<1> HIDE DEF c, Q
<1> DEFINE T == {n \in Nat : n <= N => c[n] \in Seq(Readable)}
<1>8. 0 \in T
    <2>1. <<>> \in Seq(Readable)
        OBVIOUS
    <2>2. QED
        BY <1>6, <2>1
<1>9. ASSUME NEW n \in Nat, n \in T PROVE n + 1 \in T
    <2>1. SUFFICES ASSUME n + 1 <= N PROVE c[n + 1] \in Seq(Readable)
        OBVIOUS
    <2>2. c[n] \in Seq(Readable) /\ n + 1 \in 1..N /\ (n + 1) - 1 = n
        BY <1>1, <1>9, <2>1
    <2>3. c[n + 1] = IF side[n + 1].price = None THEN c[n]
                     ELSE Append(c[n], side[n + 1])
        BY <1>6, <2>2
    <2>4. side[n + 1].price # None => side[n + 1] \in Readable
        BY <1>7, <2>2
    <2>5. QED
        BY <2>2, <2>3, <2>4
<1> HIDE DEF T
<1>10. T = Nat
    BY <1>8, <1>9, Induct DEF T
<1>11. N \in T /\ N <= N
    BY <1>1, <1>10
<1>12. QED
    BY <1>2, <1>11 DEF T

(* What comes before a position: the positions are in an order without ties.  *)
LEMMA BeforeIsAnOrder ==
    ASSUME NEW n \in Nat, NEW key \in [1..n -> Int]
    PROVE  /\ \A i \in 1..n : Before(key, i) \in SUBSET (1..n) /\ i \notin Before(key, i)
           /\ \A i, j \in 1..n : i # j => i \in Before(key, j) \/ j \in Before(key, i)
           /\ \A i, j \in 1..n : i \in Before(key, j) =>
                /\ Before(key, i) \in SUBSET Before(key, j)
                /\ key[i] <= key[j]
<1>1. DOMAIN key = 1..n /\ \A i \in 1..n : key[i] \in Int
    OBVIOUS
<1>2. \A i, j \in 1..n : i \in Before(key, j) <=> key[i] < key[j] \/ (key[i] = key[j] /\ i < j)
    BY <1>1 DEF Before
<1>3. \A i \in 1..n : Before(key, i) \in SUBSET (1..n)
    BY <1>1 DEF Before
<1>4. \A i \in 1..n : i \notin Before(key, i)
    BY <1>1, <1>2
<1>5. \A i, j \in 1..n : i # j => i \in Before(key, j) \/ j \in Before(key, i)
    BY <1>1, <1>2
<1>6. ASSUME NEW i \in 1..n, NEW j \in 1..n, i \in Before(key, j)
      PROVE  Before(key, i) \in SUBSET Before(key, j) /\ key[i] <= key[j]
    <2>1. ASSUME NEW k \in 1..n, k \in Before(key, i) PROVE k \in Before(key, j)
        BY <1>1, <1>2, <1>6, <2>1
    <2>2. QED
        BY <1>1, <1>2, <1>3, <1>6, <2>1
<1>7. QED
    BY <1>3, <1>4, <1>5, <1>6

Rank(key, i) == Cardinality(Before(key, i))

(* Whoever comes before another has the lower rank.                          *)
LEMMA RankIsAnOrder ==
    ASSUME NEW n \in Nat, NEW key \in [1..n -> Int]
    PROVE  /\ \A i \in 1..n : Rank(key, i) \in 0..(n - 1)
           /\ \A i, j \in 1..n : i \in Before(key, j) => Rank(key, i) < Rank(key, j)
<1>1. IsFiniteSet(1..n) /\ Cardinality(1..n) = n
    BY FS_Interval
<1>2. ASSUME NEW i \in 1..n
      PROVE  IsFiniteSet(Before(key, i)) /\ Rank(key, i) \in Nat /\ Rank(key, i) <= n
             /\ Rank(key, i) # n
    <2>1. Before(key, i) \in SUBSET (1..n) /\ i \notin Before(key, i)
        BY BeforeIsAnOrder
    <2>2. QED
        BY <1>1, <2>1, FS_Subset, FS_CardinalityType DEF Rank
<1>3. ASSUME NEW i \in 1..n, NEW j \in 1..n, i \in Before(key, j)
      PROVE  Rank(key, i) < Rank(key, j)
    <2>1. /\ Before(key, i) \in SUBSET Before(key, j) /\ i \notin Before(key, i)
        BY <1>3, BeforeIsAnOrder
    <2>2. Rank(key, i) <= Rank(key, j) /\ Rank(key, i) # Rank(key, j)
        BY <1>2, <1>3, <2>1, FS_Subset DEF Rank
    <2>3. QED
        BY <1>2, <2>2
<1>4. QED
    BY <1>2, <1>3

(* Positions in the order of their ranks. *)
LEMMA RanksAreAll ==
    ASSUME NEW n \in Nat, NEW key \in [1..n -> Int]
    PROVE  /\ \A i, j \in 1..n : Rank(key, i) = Rank(key, j) => i = j
           /\ \A k \in 1..n : \E i \in 1..n : Rank(key, i) = k - 1
<1>1. ASSUME NEW i \in 1..n, NEW j \in 1..n, i # j PROVE Rank(key, i) # Rank(key, j)
    <2>1. i \in Before(key, j) \/ j \in Before(key, i)
        BY <1>1, BeforeIsAnOrder
    <2>2. Rank(key, i) < Rank(key, j) \/ Rank(key, j) < Rank(key, i)
        BY <2>1, RankIsAnOrder
    <2>3. Rank(key, i) \in Int /\ Rank(key, j) \in Int
        BY RankIsAnOrder
    <2>4. QED
        BY <2>2, <2>3
<1> DEFINE f == [i \in 1..n |-> Rank(key, i) + 1]
<1>2. \A i \in 1..n : Rank(key, i) \in Int /\ Rank(key, i) + 1 \in 1..n
    <2>1. \A i \in 1..n : Rank(key, i) \in 0..(n - 1)
        BY RankIsAnOrder
    <2>2. QED
        BY <2>1
<1>3. f \in Injection(1..n, 1..n)
    <2>1. f \in [1..n -> 1..n]
        BY <1>2
    <2>2. \A i, j \in 1..n : f[i] = f[j] => i = j
        BY <1>1, <1>2
    <2> HIDE DEF f
    <2>3. QED
        BY <2>1, <2>2 DEF Injection, IsInjective
<1>4. IsFiniteSet(1..n)
    BY FS_Interval
<1>5. f \in Surjection(1..n, 1..n)
    <2> HIDE DEF f
    <2>1. QED
        BY <1>3, <1>4, FS_Injection
<1>6. ASSUME NEW k \in 1..n PROVE \E i \in 1..n : Rank(key, i) = k - 1
    <2>1. PICK i \in 1..n : f[i] = k
        <3> HIDE DEF f
        <3>1. QED
            BY <1>5 DEF Surjection
    <2>2. Rank(key, i) + 1 = k /\ Rank(key, i) \in Int
        BY <1>2, <2>1
    <2>3. QED
        BY <2>2
<1>7. QED
    BY <1>1, <1>6

(* A list arranged: the same levels, each at another place.                  *)
Arranges(p, sorted, levels) ==
    /\ levels \in Seq(Readable) /\ sorted \in Seq(Readable)
    /\ Len(sorted) = Len(levels)
    /\ p \in Bijection(1..Len(levels), 1..Len(levels))
    /\ \A k \in 1..Len(levels) : sorted[k] = levels[p[k]]

(* sorted(levels, key) arranges the levels, by key.                          *)
LEMMA SortedIs ==
    ASSUME NEW levels \in Seq(Readable), NEW key \in [1..Len(levels) -> Int]
    PROVE  \E p : /\ Arranges(p, Sorted(levels, key), levels)
                  /\ \A j, k \in 1..Len(levels) : j < k => key[p[j]] <= key[p[k]]
<1>1. PICK n : n = Len(levels)
    OBVIOUS
<1>2. n \in Nat /\ DOMAIN levels = 1..n /\ key \in [1..n -> Int]
      /\ \A i \in 1..n : levels[i] \in Readable
    BY <1>1
<1>3. PICK p : p = [k \in 1..n |-> CHOOSE i \in 1..n : Rank(key, i) = k - 1]
    OBVIOUS
<1>4. \A k \in 1..n : p[k] \in 1..n /\ Rank(key, p[k]) = k - 1
    <2>1. \A k \in 1..n : \E i \in 1..n : Rank(key, i) = k - 1
        BY <1>2, RanksAreAll
    <2>2. QED
        BY <1>3, <2>1
<1>5. p \in Bijection(1..n, 1..n)
    <2>1. p \in [1..n -> 1..n]
        BY <1>3, <1>4
    <2>2. \A j, k \in 1..n : p[j] = p[k] => j = k
        <3>1. SUFFICES ASSUME NEW j \in 1..n, NEW k \in 1..n, p[j] = p[k] PROVE j = k
            OBVIOUS
        <3>2. j - 1 = k - 1
            BY <1>4, <3>1
        <3>3. QED
            BY <3>2
    <2>3. \A i \in 1..n : \E k \in 1..n : p[k] = i
        <3>1. TAKE i \in 1..n
        <3>2. Rank(key, i) \in 0..(n - 1)
            BY <1>2, RankIsAnOrder
        <3>3. PICK k : k = Rank(key, i) + 1
            OBVIOUS
        <3>4. k \in 1..n /\ k - 1 = Rank(key, i)
            BY <1>2, <3>2, <3>3
        <3>5. Rank(key, p[k]) = Rank(key, i) /\ p[k] \in 1..n
            BY <1>4, <3>4
        <3>6. p[k] = i
            BY <1>2, <3>5, RanksAreAll
        <3>7. QED
            BY <3>4, <3>6
    <2>4. QED
        BY <2>1, <2>2, <2>3 DEF Bijection, Injection, Surjection, IsInjective
<1>6. Sorted(levels, key) = [k \in 1..n |-> levels[p[k]]]
    BY <1>2, <1>3 DEF Sorted, Rank
<1>7. /\ Sorted(levels, key) \in Seq(Readable) /\ Len(Sorted(levels, key)) = n
      /\ \A k \in 1..n : Sorted(levels, key)[k] = levels[p[k]]
    <2>1. PICK s : s = [k \in 1..n |-> levels[p[k]]]
        OBVIOUS
    <2>2. s \in [1..n -> Readable]
        BY <1>2, <1>4, <2>1
    <2>3. s \in Seq(Readable) /\ Len(s) = n
        BY <1>2, <2>2
    <2>4. QED
        BY <1>6, <2>1, <2>3
<1>8. \A j, k \in 1..n : j < k => key[p[j]] <= key[p[k]]
    <2>1. SUFFICES ASSUME NEW j \in 1..n, NEW k \in 1..n, j < k
                   PROVE  key[p[j]] <= key[p[k]]
        OBVIOUS
    <2>2. p[j] \in 1..n /\ p[k] \in 1..n /\ Rank(key, p[j]) = j - 1
          /\ Rank(key, p[k]) = k - 1
        BY <1>4
    <2>3. p[j] # p[k] /\ ~(Rank(key, p[k]) < Rank(key, p[j]))
        BY <2>1, <2>2
    <2>4. p[k] \notin Before(key, p[j])
        BY <1>2, <2>2, <2>3, RankIsAnOrder
    <2>5. p[j] \in Before(key, p[k])
        BY <1>2, <2>2, <2>3, <2>4, BeforeIsAnOrder
    <2>6. QED
        BY <1>2, <2>2, <2>5, BeforeIsAnOrder
<1>9. QED
    BY <1>1, <1>2, <1>5, <1>7, <1>8 DEF Arranges

(* One price is met before another, or with it. *)
Nearer(side, a, b) == IF side = "BUY" THEN a <= b ELSE a >= b

InOrder(sorted, side) ==
    \A j, k \in 1..Len(sorted) :
        j < k => Nearer(side, sorted[j].price, sorted[k].price)

(* A level that can be read has a price and a size.                          *)
LEMMA PricesAreNumbers ==
    ASSUME NEW levels \in Seq(Readable)
    PROVE  /\ DOMAIN levels = 1..Len(levels) /\ Len(levels) \in Nat
           /\ \A i \in 1..Len(levels) : levels[i].price \in Nat /\ levels[i].size \in Nat
<1>1. \A i \in 1..Len(levels) : levels[i] \in Readable
    OBVIOUS
<1>2. QED
    BY <1>1 DEF Readable

(* The asks are sorted cheapest first.                                       *)
LEMMA AscendingIs ==
    ASSUME NEW levels \in Seq(Readable)
    PROVE  \E p : Arranges(p, Ascending(levels), levels) /\ InOrder(Ascending(levels), "BUY")
<1>1. PICK key : key = [i \in DOMAIN levels |-> levels[i].price]
    OBVIOUS
<1>2. key \in [1..Len(levels) -> Int] /\ \A i \in 1..Len(levels) : key[i] = levels[i].price
    BY <1>1, PricesAreNumbers
<1>3. PICK s : s = Sorted(levels, key)
    OBVIOUS
<1>4. PICK p : /\ Arranges(p, s, levels)
               /\ \A j, k \in 1..Len(levels) : j < k => key[p[j]] <= key[p[k]]
    BY <1>2, <1>3, SortedIs
<1>5. \A k \in 1..Len(levels) : p[k] \in 1..Len(levels) /\ key[p[k]] = s[k].price
    BY <1>2, <1>4 DEF Arranges, Bijection, Injection
<1>6. Len(s) = Len(levels)
    BY <1>4 DEF Arranges
<1>7. InOrder(s, "BUY")
    BY <1>4, <1>5, <1>6 DEF InOrder, Nearer
<1>8. s = Ascending(levels)
    BY <1>1, <1>3 DEF Ascending
<1>9. QED
    BY <1>4, <1>7, <1>8

(* The bids are sorted dearest first.                                        *)
LEMMA DescendingIs ==
    ASSUME NEW levels \in Seq(Readable)
    PROVE  \E p : Arranges(p, Descending(levels), levels) /\ InOrder(Descending(levels), "SELL")
<1>1. PICK key : key = [i \in DOMAIN levels |-> -levels[i].price]
    OBVIOUS
<1>2. /\ key \in [1..Len(levels) -> Int]
      /\ \A i \in 1..Len(levels) : key[i] = -levels[i].price /\ levels[i].price \in Int
    BY <1>1, PricesAreNumbers
<1>3. PICK s : s = Sorted(levels, key)
    OBVIOUS
<1>4. PICK p : /\ Arranges(p, s, levels)
               /\ \A j, k \in 1..Len(levels) : j < k => key[p[j]] <= key[p[k]]
    BY <1>2, <1>3, SortedIs
<1>5. \A k \in 1..Len(levels) :
        p[k] \in 1..Len(levels) /\ key[p[k]] = -s[k].price /\ s[k].price \in Int
    BY <1>2, <1>4 DEF Arranges, Bijection, Injection
<1>6. Len(s) = Len(levels)
    BY <1>4 DEF Arranges
<1>7. InOrder(s, "SELL")
    <2>1. SUFFICES ASSUME NEW j \in 1..Len(levels), NEW k \in 1..Len(levels), j < k
                   PROVE  s[j].price >= s[k].price
        BY <1>6 DEF InOrder, Nearer
    <2>2. key[p[j]] <= key[p[k]]
        BY <1>4, <2>1
    <2>3. -s[j].price <= -s[k].price /\ s[j].price \in Int /\ s[k].price \in Int
        BY <1>5, <2>2
    <2>4. QED
        BY <2>3
<1>8. s = Descending(levels)
    BY <1>1, <1>3 DEF Descending
<1>9. QED
    BY <1>4, <1>7, <1>8

(* Both sides of a book are of levels that can be read.                      *)
LEMMA SidesAreReadable ==
    ASSUME NEW book \in Snapshots
    PROVE  /\ Levels(book.bids) \in Seq(Readable) /\ Levels(book.asks) \in Seq(Readable)
           /\ \A side : Opposite(book, side) \in Seq(Readable)
<1>1. /\ book.bids \in Seq([price : Nat \cup {None}, size : Nat])
      /\ book.asks \in Seq([price : Nat \cup {None}, size : Nat])
    BY SnapshotsAssumption
<1>2. Levels(book.bids) \in Seq(Readable) /\ Levels(book.asks) \in Seq(Readable)
    BY <1>1, LevelsAreReadable
<1>3. QED
    BY <1>2 DEF Opposite

(* The levels an order meets are those of the other side, in its order.      *)
LEMMA FacingIs ==
    ASSUME NEW book \in Snapshots, NEW side
    PROVE  \E p : /\ Arranges(p, Facing(book, side), Opposite(book, side))
                  /\ InOrder(Facing(book, side), side)
<1>1. Levels(book.bids) \in Seq(Readable) /\ Levels(book.asks) \in Seq(Readable)
    BY SidesAreReadable
<1>2. CASE side = "BUY"
    BY <1>1, <1>2, AscendingIs DEF Facing, Opposite
<1>3. CASE side # "BUY"
    <2>1. PICK p : /\ Arranges(p, Descending(Levels(book.bids)), Levels(book.bids))
                   /\ InOrder(Descending(Levels(book.bids)), "SELL")
        BY <1>1, DescendingIs
    <2>2. InOrder(Descending(Levels(book.bids)), side)
        BY <1>3, <2>1 DEF InOrder, Nearer
    <2>3. QED
        BY <1>3, <2>1, <2>2 DEF Facing, Opposite
<1>4. QED
    BY <1>2, <1>3

(* The units of levels. *)
Units(at, worth) == UNION {{i} \X (1..worth[i]) : i \in at}

(* Each unit of a level is in.                                               *)
LEMMA UnitsHave ==
    ASSUME NEW at, NEW worth, NEW units, units = Units(at, worth)
    PROVE  \A i \in at : \A k \in 1..worth[i] : <<i, k>> \in units
BY DEF Units

(* No unit is of another level.                                              *)
LEMMA UnitsAre ==
    ASSUME NEW at, NEW worth, NEW units, units = Units(at, worth)
    PROVE  \A x \in units : \E i \in at : \E k \in 1..worth[i] : x = <<i, k>>
BY DEF Units

(* The units of the first levels are their running total.                    *)
LEMMA PrefixCount ==
    ASSUME NEW N \in Nat, NEW w \in [1..N -> Nat], NEW f, Totals(f, w, N)
    PROVE  \A u \in 0..N : IsFiniteSet(Units(1..u, w)) /\ Count(1..u, w) = f[u]
<1> DEFINE T == {u \in Nat : u <= N =>
                    IsFiniteSet(Units(1..u, w)) /\ Cardinality(Units(1..u, w)) = f[u]}
<1>1. 0 \in T
    <2>1. Units(1..0, w) = {}
        BY DEF Units
    <2>2. QED
        BY <2>1, FS_EmptySet DEF Totals
<1>2. ASSUME NEW u \in Nat, u \in T PROVE u + 1 \in T
    <2>1. SUFFICES ASSUME u + 1 <= N
                   PROVE  /\ IsFiniteSet(Units(1..(u + 1), w))
                          /\ Cardinality(Units(1..(u + 1), w)) = f[u + 1]
        OBVIOUS
    <2>2. IsFiniteSet(Units(1..u, w)) /\ Cardinality(Units(1..u, w)) = f[u]
        BY <1>2, <2>1
    <2>3. u + 1 \in 1..N /\ (u + 1) - 1 = u /\ w[u + 1] \in Nat
        BY <2>1
    <2>4. f[u + 1] = f[u] + w[u + 1] /\ f[u] \in Int
        BY <2>1, <2>3 DEF Totals
    <2>5. PICK more : more = {u + 1} \X (1..w[u + 1])
        OBVIOUS
    <2>6. IsFiniteSet(more) /\ Cardinality(more) = w[u + 1]
        <3>1. IsFiniteSet({u + 1}) /\ Cardinality({u + 1}) = 1
            BY FS_Singleton
        <3>2. IsFiniteSet(1..w[u + 1]) /\ Cardinality(1..w[u + 1]) = w[u + 1]
            <4>1. PICK size \in Nat : size = w[u + 1]
                BY <2>3
            <4>2. IsFiniteSet(1..size) /\ Cardinality(1..size) = size
                BY FS_Interval
            <4>3. QED
                BY <4>1, <4>2
        <3>3. /\ IsFiniteSet({u + 1} \X (1..w[u + 1]))
              /\ Cardinality({u + 1} \X (1..w[u + 1]))
                   = Cardinality({u + 1}) * Cardinality(1..w[u + 1])
            BY <3>1, <3>2, FS_Product, Zenon
        <3>4. QED
            BY <2>3, <2>5, <3>1, <3>2, <3>3
    <2>7. Units(1..(u + 1), w) = Units(1..u, w) \cup more
        <3>1. 1..(u + 1) = (1..u) \cup {u + 1}
            OBVIOUS
        <3>2. QED
            BY <2>5, <3>1 DEF Units
    <2>8. Units(1..u, w) \cap more = {}
        BY <2>5, UnitsAre
    <2>9. Cardinality({}) = 0
        BY FS_EmptySet
    <2>10. /\ IsFiniteSet(Units(1..u, w) \cup more)
           /\ Cardinality(Units(1..u, w) \cup more)
                = Cardinality(Units(1..u, w)) + Cardinality(more)
                  - Cardinality(Units(1..u, w) \cap more)
        BY <2>2, <2>6, FS_Union, Zenon
    <2>11. Cardinality(Units(1..u, w) \cup more) = f[u] + w[u + 1] - 0
        BY <2>2, <2>6, <2>8, <2>9, <2>10
    <2>12. Cardinality(Units(1..u, w) \cup more) = f[u + 1]
        BY <2>3, <2>4, <2>11
    <2>13. QED
        BY <2>7, <2>10, <2>12
<1> HIDE DEF T
<1>3. T = Nat
    BY <1>1, <1>2, Induct DEF T
<1>4. \A u \in 0..N : u \in T /\ u <= N
    BY <1>3
<1>5. QED
    BY <1>4 DEF T, Count, Units

(* Weights moved along with the levels. *)
Moved(p, n, v, w) ==
    /\ p \in Bijection(1..n, 1..n) /\ v \in [1..n -> Nat] /\ w \in [1..n -> Nat]
    /\ \A k \in 1..n : v[k] = w[p[k]]

(* As many units are moved as there were.                                    *)
LEMMA MovedCount ==
    ASSUME NEW n \in Nat, NEW p, NEW v, NEW w, Moved(p, n, v, w), NEW u \in 0..n,
           IsFiniteSet(Units(1..u, v)), NEW R, R = {p[k] : k \in 1..u}
    PROVE  Count(R, w) = Count(1..u, v)
<1>m. /\ p \in Bijection(1..n, 1..n) /\ v \in [1..n -> Nat] /\ w \in [1..n -> Nat]
      /\ \A k \in 1..n : v[k] = w[p[k]]
    BY DEF Moved
<1>1. /\ \A k \in 1..n : p[k] \in 1..n
      /\ \A j, k \in 1..n : p[j] = p[k] => j = k
    <2>1. p \in [1..n -> 1..n] /\ IsInjective(p)
        BY <1>m DEF Bijection, Injection
    <2>2. DOMAIN p = 1..n /\ \A k \in 1..n : p[k] \in 1..n
        BY <2>1
    <2>3. \A j, k \in 1..n : p[j] = p[k] => j = k
        BY <2>1, <2>2 DEF IsInjective
    <2>4. QED
        BY <2>2, <2>3
<1>2. PICK first : first = 1..u
    OBVIOUS
<1>3. \A k \in first : k \in 1..n
    BY <1>2
<1>4. PICK at : at = {p[k] : k \in first}
    OBVIOUS
<1>5. PICK A : A = Units(first, v)
    OBVIOUS
<1>6. PICK B : B = Units(at, w)
    OBVIOUS
<1>a. /\ \A i \in first : \A k \in 1..v[i] : <<i, k>> \in A
      /\ \A x \in A : \E i \in first : \E k \in 1..v[i] : x = <<i, k>>
    <2>1. \A i \in first : \A k \in 1..v[i] : <<i, k>> \in A
        BY <1>5, UnitsHave
    <2>2. \A x \in A : \E i \in first : \E k \in 1..v[i] : x = <<i, k>>
        BY <1>5, UnitsAre
    <2>3. QED
        BY <2>1, <2>2
<1>b. /\ \A i \in at : \A k \in 1..w[i] : <<i, k>> \in B
      /\ \A x \in B : \E i \in at : \E k \in 1..w[i] : x = <<i, k>>
    <2>1. \A i \in at : \A k \in 1..w[i] : <<i, k>> \in B
        BY <1>6, UnitsHave
    <2>2. \A x \in B : \E i \in at : \E k \in 1..w[i] : x = <<i, k>>
        BY <1>6, UnitsAre
    <2>3. QED
        BY <2>1, <2>2
<1>c. /\ \A k \in first : p[k] \in at
      /\ \A i \in at : \E k \in first : i = p[k]
    BY <1>4
<1> DEFINE f == [x \in A |-> <<p[x[1]], x[2]>>]
<1>7. f \in [A -> B]
    <2>1. SUFFICES ASSUME NEW x \in A PROVE <<p[x[1]], x[2]>> \in B
        OBVIOUS
    <2>2. PICK i \in first : \E k \in 1..v[i] : x = <<i, k>>
        BY <1>a
    <2>3. PICK k \in 1..v[i] : x = <<i, k>>
        BY <2>2
    <2>4. p[i] \in at /\ v[i] = w[p[i]]
        BY <1>m, <1>3, <1>c
    <2>5. <<p[i], k>> \in B
        BY <1>b, <2>3, <2>4
    <2>6. x[1] = i /\ x[2] = k
        BY <2>3
    <2>7. QED
        BY <2>5, <2>6
<1>8. \A x, y \in A : f[x] = f[y] => x = y
    <2>1. SUFFICES ASSUME NEW x \in A, NEW y \in A, f[x] = f[y] PROVE x = y
        OBVIOUS
    <2>2. PICK i \in first : \E k \in 1..v[i] : x = <<i, k>>
        BY <1>a
    <2>3. PICK k : x = <<i, k>>
        BY <2>2
    <2>4. PICK j \in first : \E l \in 1..v[j] : y = <<j, l>>
        BY <1>a
    <2>5. PICK l : y = <<j, l>>
        BY <2>4
    <2>6. <<p[i], k>> = <<p[j], l>>
        BY <2>1, <2>3, <2>5
    <2>7. i \in 1..n /\ j \in 1..n
        BY <1>3
    <2>8. i = j /\ k = l
        BY <1>1, <2>6, <2>7
    <2>9. QED
        BY <2>3, <2>5, <2>8
<1>9. \A y \in B : \E x \in A : f[x] = y
    <2>1. TAKE y \in B
    <2>2. PICK i \in at : \E k \in 1..w[i] : y = <<i, k>>
        BY <1>b
    <2>3. PICK k \in 1..w[i] : y = <<i, k>>
        BY <2>2
    <2>4. PICK j \in first : i = p[j]
        BY <1>c
    <2>5. v[j] = w[i]
        BY <1>m, <1>3, <2>4
    <2>6. <<j, k>> \in A
        BY <1>a, <2>3, <2>5
    <2>7. f[<<j, k>>] = y
        BY <2>3, <2>4, <2>6
    <2>8. QED
        BY <2>6, <2>7
<1> HIDE DEF f
<1>10. f \in Bijection(A, B)
    BY <1>7, <1>8, <1>9 DEF Bijection, Injection, Surjection, IsInjective
<1>11. ExistsBijection(A, B) /\ IsFiniteSet(A)
    BY <1>2, <1>5, <1>10 DEF ExistsBijection
<1>12. Cardinality(B) = Cardinality(A)
    BY <1>11, FS_Bijection, Zenon
<1>13. QED
    BY <1>2, <1>4, <1>5, <1>6, <1>12 DEF Count, Units

(* A set of positions with all before each is an initial segment.            *)
LEMMA Closed ==
    ASSUME NEW n \in Nat, NEW T \in SUBSET (1..n),
           \A j, k \in 1..n : j < k /\ k \in T => j \in T
    PROVE  \E u \in 0..n : T = 1..u
<1> DEFINE U == {k \in Nat : k # 0 /\ k \notin T}
<1>1. n + 1 \in U
    OBVIOUS
<1>2. PICK m \in U : \A k \in U : ~(k < m)
    BY <1>1, Least
<1>3. m - 1 \in 0..n
    BY <1>1, <1>2
<1>4. \A k \in 1..(m - 1) : k \in T
    BY <1>2
<1>5. \A k \in T : k \in 1..(m - 1)
    BY <1>2
<1>6. T = 1..(m - 1)
    BY <1>4, <1>5
<1>7. QED
    BY <1>3, <1>6

(* What raw positions hold that come first when arranged. *)
LEMMA CountIs ==
    ASSUME NEW p, NEW sorted, NEW levels, Arranges(p, sorted, levels), NEW side,
           NEW u \in 0..Len(levels), NEW R \in SUBSET (1..Len(levels)),
           \A k \in 1..Len(levels) : k <= u <=> p[k] \in R
    PROVE  Count(R, Weight(levels, side)) = Cumulative(sorted, side)[u]
<1>1. PICK n : n = Len(levels)
    OBVIOUS
<1>2. /\ n \in Nat /\ levels \in Seq(Readable) /\ sorted \in Seq(Readable)
      /\ Len(sorted) = n /\ DOMAIN levels = 1..n /\ DOMAIN sorted = 1..n
      /\ p \in Bijection(1..n, 1..n)
      /\ \A k \in 1..n : sorted[k] = levels[p[k]]
    BY <1>1 DEF Arranges
<1>3. PICK v : v = Weight(sorted, side)
    OBVIOUS
<1>4. PICK w : w = Weight(levels, side)
    OBVIOUS
<1>5. v \in [1..n -> Nat] /\ w \in [1..n -> Nat]
    BY <1>1, <1>2, <1>3, <1>4, WeightIs
<1>6. \A k \in 1..n : p[k] \in 1..n
    BY <1>2 DEF Bijection, Injection
<1>7. \A k \in 1..n : v[k] = w[p[k]]
    BY <1>2, <1>3, <1>4, <1>6 DEF Weight
<1>8. PICK c : c = Cumulative(sorted, side)
    OBVIOUS
<1>9. Totals(c, v, n)
    BY <1>2, <1>3, <1>8, CumulativeIs
<1>10. u \in 0..n /\ R \in SUBSET (1..n) /\ \A k \in 1..n : k <= u <=> p[k] \in R
    BY <1>1
<1>11. IsFiniteSet(Units(1..u, v)) /\ Count(1..u, v) = c[u]
    BY <1>2, <1>5, <1>9, <1>10, PrefixCount
<1>12. R = {p[k] : k \in 1..u}
    <2>1. ASSUME NEW i \in R PROVE \E k \in 1..u : i = p[k]
        <3>1. PICK k \in 1..n : p[k] = i
            BY <1>2, <1>10 DEF Bijection, Surjection
        <3>2. QED
            BY <1>10, <3>1
    <2>2. \A k \in 1..u : p[k] \in R
        BY <1>2, <1>10
    <2>3. QED
        BY <2>1, <2>2
<1>13. Count(R, w) = Count(1..u, v)
    <2>1. Moved(p, n, v, w)
        BY <1>2, <1>5, <1>7 DEF Moved
    <2>2. n \in Nat /\ u \in 0..n /\ IsFiniteSet(Units(1..u, v))
        BY <1>2, <1>10, <1>11
    <2>3. QED
        BY <1>12, <2>1, <2>2, MovedCount
<1>14. QED
    BY <1>4, <1>8, <1>11, <1>13

(* What it is to be arranged, one by one.                                    *)
LEMMA ArrangedAre ==
    ASSUME NEW p, NEW sorted, NEW levels, Arranges(p, sorted, levels)
    PROVE  /\ Len(levels) \in Nat /\ Len(sorted) = Len(levels)
           /\ DOMAIN levels = 1..Len(levels) /\ DOMAIN sorted = 1..Len(levels)
           /\ levels \in Seq(Readable) /\ sorted \in Seq(Readable)
           /\ \A k \in 1..Len(levels) :
                /\ p[k] \in 1..Len(levels) /\ sorted[k] = levels[p[k]]
                /\ sorted[k].price \in Nat /\ sorted[k].size \in Nat
           /\ \A i \in 1..Len(levels) : \E k \in 1..Len(levels) : p[k] = i
<1>1. PICK n : n = Len(levels)
    OBVIOUS
<1>2. /\ n \in Nat /\ levels \in Seq(Readable) /\ sorted \in Seq(Readable)
      /\ Len(sorted) = n /\ DOMAIN levels = 1..n /\ DOMAIN sorted = 1..n
      /\ p \in Bijection(1..n, 1..n)
      /\ \A k \in 1..n : sorted[k] = levels[p[k]]
    BY <1>1 DEF Arranges
<1>3. \A k \in 1..n : p[k] \in 1..n
    BY <1>2 DEF Bijection, Injection
<1>4. \A i \in 1..n : \E k \in 1..n : p[k] = i
    BY <1>2 DEF Bijection, Surjection
<1>5. \A k \in 1..n : sorted[k].price \in Nat /\ sorted[k].size \in Nat
    BY <1>2, PricesAreNumbers
<1>6. QED
    BY <1>1, <1>2, <1>3, <1>4, <1>5

(* The levels up to a price are the first when arranged, and so are those    *)
(* better.                                                                   *)
LEMMA Reach ==
    ASSUME NEW p, NEW sorted, NEW levels, Arranges(p, sorted, levels),
           NEW side, InOrder(sorted, side), NEW q \in Int
    PROVE  /\ UpTo(levels, side, q) \in SUBSET (1..Len(levels))
           /\ \A k \in 1..Len(levels) :
                p[k] \in UpTo(levels, side, q) <=> Nearer(side, sorted[k].price, q)
           /\ \E u \in 0..Len(levels) : \A k \in 1..Len(levels) :
                k <= u <=> p[k] \in UpTo(levels, side, q)
<1>1. PICK n : n = Len(levels)
    OBVIOUS
<1>2. /\ n \in Nat /\ DOMAIN levels = 1..n /\ Len(sorted) = n
      /\ \A k \in 1..n : /\ p[k] \in 1..n /\ sorted[k] = levels[p[k]]
                         /\ sorted[k].price \in Nat
    BY <1>1, ArrangedAre
<1>3. UpTo(levels, side, q) \in SUBSET (1..n)
    BY <1>2 DEF UpTo
<1>4. \A k \in 1..n : p[k] \in UpTo(levels, side, q) <=> Nearer(side, sorted[k].price, q)
    BY <1>2 DEF UpTo, Nearer
<1>5. PICK T : T = {k \in 1..n : Nearer(side, sorted[k].price, q)}
    OBVIOUS
<1>6. \A j, k \in 1..n : j < k /\ k \in T => j \in T
    <2>1. SUFFICES ASSUME NEW j \in 1..n, NEW k \in 1..n, j < k, k \in T PROVE j \in T
        OBVIOUS
    <2>2. Nearer(side, sorted[j].price, sorted[k].price) /\ Nearer(side, sorted[k].price, q)
        BY <1>2, <1>5, <2>1 DEF InOrder
    <2>3. sorted[j].price \in Nat /\ sorted[k].price \in Nat
        BY <1>2
    <2>4. Nearer(side, sorted[j].price, q)
        BY <2>2, <2>3 DEF Nearer
    <2>5. QED
        BY <1>5, <2>4
<1>7. T \in SUBSET (1..n)
    BY <1>5
<1>8. PICK u \in 0..n : T = 1..u
    BY <1>2, <1>6, <1>7, Closed
<1>9. \A k \in 1..n : k <= u <=> p[k] \in UpTo(levels, side, q)
    <2>1. \A k \in 1..n : k <= u <=> k \in T
        BY <1>2, <1>8
    <2>2. \A k \in 1..n : k \in T <=> Nearer(side, sorted[k].price, q)
        BY <1>5
    <2>3. QED
        BY <1>4, <2>1, <2>2
<1>10. QED
    BY <1>1, <1>3, <1>4, <1>8, <1>9

(* Those better than a price come first too.                                 *)
LEMMA ReachBetter ==
    ASSUME NEW p, NEW sorted, NEW levels, Arranges(p, sorted, levels),
           NEW side, InOrder(sorted, side), NEW q \in Int
    PROVE  /\ Better(levels, side, q) \in SUBSET (1..Len(levels))
           /\ \A k \in 1..Len(levels) :
                p[k] \in Better(levels, side, q) <=>
                   Nearer(side, sorted[k].price, q) /\ sorted[k].price # q
           /\ \E m \in 0..Len(levels) : \A k \in 1..Len(levels) :
                k <= m <=> p[k] \in Better(levels, side, q)
<1>1. PICK n : n = Len(levels)
    OBVIOUS
<1>2. /\ n \in Nat /\ DOMAIN levels = 1..n /\ Len(sorted) = n
      /\ \A k \in 1..n : /\ p[k] \in 1..n /\ sorted[k] = levels[p[k]]
                         /\ sorted[k].price \in Nat
    BY <1>1, ArrangedAre
<1>3. UpTo(levels, side, q) \in SUBSET (1..n)
      /\ \A k \in 1..n : p[k] \in UpTo(levels, side, q) <=> Nearer(side, sorted[k].price, q)
    BY <1>1, Reach
<1>4. /\ Better(levels, side, q) \in SUBSET (1..n)
      /\ \A k \in 1..n : p[k] \in Better(levels, side, q) <=>
            Nearer(side, sorted[k].price, q) /\ sorted[k].price # q
    BY <1>2, <1>3 DEF Better
<1>5. PICK T : T = {k \in 1..n : Nearer(side, sorted[k].price, q) /\ sorted[k].price # q}
    OBVIOUS
<1>6. \A j, k \in 1..n : j < k /\ k \in T => j \in T
    <2>1. SUFFICES ASSUME NEW j \in 1..n, NEW k \in 1..n, j < k, k \in T PROVE j \in T
        OBVIOUS
    <2>2. /\ Nearer(side, sorted[j].price, sorted[k].price) /\ Nearer(side, sorted[k].price, q)
          /\ sorted[k].price # q
        BY <1>2, <1>5, <2>1 DEF InOrder
    <2>3. sorted[j].price \in Nat /\ sorted[k].price \in Nat
        BY <1>2
    <2>4. Nearer(side, sorted[j].price, q) /\ sorted[j].price # q
        BY <2>2, <2>3 DEF Nearer
    <2>5. QED
        BY <1>5, <2>4
<1>7. T \in SUBSET (1..n)
    BY <1>5
<1>8. PICK m \in 0..n : T = 1..m
    BY <1>2, <1>6, <1>7, Closed
<1>9. \A k \in 1..n : k <= m <=> p[k] \in Better(levels, side, q)
    <2>1. \A k \in 1..n : k <= m <=> k \in T
        BY <1>2, <1>8
    <2>2. \A k \in 1..n : k \in T <=> Nearer(side, sorted[k].price, q) /\ sorted[k].price # q
        BY <1>5
    <2>3. QED
        BY <1>4, <2>1, <2>2
<1>10. QED
    BY <1>1, <1>4, <1>8, <1>9

(* Running totals rise. *)
LEMMA TotalsRise ==
    ASSUME NEW N \in Nat, NEW w \in [1..N -> Nat], NEW f, Totals(f, w, N)
    PROVE  /\ \A j \in 0..N : f[j] \in Nat
           /\ \A j, k \in 0..N : j <= k => f[j] <= f[k]
<1> DEFINE T == {k \in Nat : k <= N =>
                    f[k] \in Nat /\ \A j \in 0..k : f[j] <= f[k] /\ f[j] \in Nat}
<1>1. 0 \in T
    BY DEF Totals
<1>2. ASSUME NEW k \in Nat, k \in T PROVE k + 1 \in T
    <2>1. SUFFICES ASSUME k + 1 <= N
                   PROVE  f[k + 1] \in Nat /\ \A j \in 0..(k + 1) : f[j] <= f[k + 1] /\ f[j] \in Nat
        OBVIOUS
    <2>2. f[k] \in Nat /\ \A j \in 0..k : f[j] <= f[k] /\ f[j] \in Nat
        BY <1>2, <2>1
    <2>3. k + 1 \in 1..N /\ (k + 1) - 1 = k
        BY <2>1
    <2>4. f[k + 1] = f[k] + w[k + 1] /\ w[k + 1] \in Nat
        BY <2>3 DEF Totals
    <2>5. f[k + 1] \in Nat /\ f[k] <= f[k + 1]
        BY <2>2, <2>4
    <2>6. \A j \in 0..(k + 1) : j = k + 1 \/ j \in 0..k
        OBVIOUS
    <2>7. QED
        BY <2>2, <2>5, <2>6
<1> HIDE DEF T
<1>3. T = Nat
    BY <1>1, <1>2, Induct DEF T
<1>4. \A k \in 0..N : k \in T /\ k <= N
    BY <1>3
<1>5. \A k \in 0..N : f[k] \in Nat /\ \A j \in 0..k : f[j] <= f[k]
    BY <1>4 DEF T
<1>6. ASSUME NEW j \in 0..N, NEW k \in 0..N, j <= k PROVE f[j] <= f[k]
    <2>1. j \in 0..k
        BY <1>6
    <2>2. QED
        BY <1>5, <2>1
<1>7. QED
    BY <1>5, <1>6

(* Where the walk of marginal_price ends. *)
Ends(m, sorted, side, target, type) ==
    /\ m \in 1..Len(sorted)
    /\ \/ Cumulative(sorted, side)[m] >= target
       \/ type = "FAK" /\ m = Len(sorted)
    /\ \A k \in 1..Len(sorted) : k < m => Cumulative(sorted, side)[k] < target

(* A marginal price is that of the level where the walk ends.                *)
LEMMA MarginalIs ==
    ASSUME NEW sorted \in Seq(Readable), NEW side, NEW target \in Int,
           NEW type \in {"FAK", "FOK"},
           MarginalPrice(sorted, target, type, side) # None
    PROVE  \E m : /\ Ends(m, sorted, side, target, type)
                  /\ MarginalPrice(sorted, target, type, side) = sorted[m].price
<1>1. PICK n : n = Len(sorted)
    OBVIOUS
<1>2. n \in Nat /\ DOMAIN sorted = 1..n
    BY <1>1
<1>3. PICK c : c = Cumulative(sorted, side)
    OBVIOUS
<1>4. PICK enough : enough = {k \in 1..n : c[k] >= target}
    OBVIOUS
<1>5. MarginalPrice(sorted, target, type, side)
        = IF enough # {} THEN sorted[Min(enough)].price
          ELSE IF sorted = <<>> \/ type = "FOK" THEN None
          ELSE sorted[n].price
    BY <1>1, <1>2, <1>3, <1>4 DEF MarginalPrice
<1>6. c \in [0..n -> Int]
    BY <1>1, <1>3, CumulativeIs DEF Totals
<1>7. CASE enough # {}
    <2>1. enough \in SUBSET Nat
        BY <1>2, <1>4
    <2>2. PICK m \in enough : \A k \in enough : ~(k < m)
        BY <1>7, <2>1, Least
    <2>3. \E x \in enough : \A y \in enough : x <= y
        BY <2>1, <2>2
    <2>4. Min(enough) \in enough /\ \A y \in enough : Min(enough) <= y
        BY <2>3 DEF Min
    <2>5. PICK l : l = Min(enough)
        OBVIOUS
    <2>6. l \in 1..n /\ c[l] >= target
        BY <1>4, <2>4, <2>5
    <2>7. \A k \in 1..n : k < l => c[k] < target
        <3>1. SUFFICES ASSUME NEW k \in 1..n, k < l PROVE c[k] < target
            OBVIOUS
        <3>2. k \notin enough
            <4>1. k \in enough => l <= k
                BY <2>4, <2>5
            <4>2. l \in Int /\ k \in Int
                BY <1>2, <2>6
            <4>3. QED
                BY <3>1, <4>1, <4>2
        <3>3. c[k] \in Int
            BY <1>6
        <3>4. QED
            BY <1>4, <3>2, <3>3
    <2>8. Ends(l, sorted, side, target, type)
        BY <1>1, <1>3, <2>6, <2>7 DEF Ends
    <2>9. QED
        BY <1>5, <1>7, <2>5, <2>8
<1>8. CASE enough = {}
    <2>1. sorted # <<>> /\ type = "FAK"
          /\ MarginalPrice(sorted, target, type, side) = sorted[n].price
        BY <1>5, <1>8
    <2>2. n \in 1..n
        BY <1>1, <1>2, <2>1
    <2>3. \A k \in 1..n : c[k] < target
        <3>1. TAKE k \in 1..n
        <3>2. k \notin enough /\ c[k] \in Int
            BY <1>6, <1>8
        <3>3. QED
            BY <1>4, <3>2
    <2>4. Ends(n, sorted, side, target, type)
        BY <1>1, <1>3, <2>1, <2>2, <2>3 DEF Ends
    <2>5. QED
        BY <2>1, <2>4
<1>9. QED
    BY <1>7, <1>8

(* What is held up to a price is a running total of the walk.                *)
LEMMA HeldIs ==
    ASSUME NEW p, NEW sorted, NEW levels, Arranges(p, sorted, levels),
           NEW side, InOrder(sorted, side), NEW q \in Int, NEW what
    PROVE  \E u \in 0..Len(levels) :
             /\ \A k \in 1..Len(levels) : k <= u <=> Nearer(side, sorted[k].price, q)
             /\ Count(UpTo(levels, side, q), Weight(levels, what)) = Cumulative(sorted, what)[u]
<1>1. PICK R : R = UpTo(levels, side, q)
    OBVIOUS
<1>2. R \in SUBSET (1..Len(levels))
      /\ \A k \in 1..Len(levels) : p[k] \in R <=> Nearer(side, sorted[k].price, q)
    BY <1>1, Reach
<1>3. PICK u \in 0..Len(levels) : \A k \in 1..Len(levels) : k <= u <=> p[k] \in R
    BY <1>1, Reach
<1>4. Count(R, Weight(levels, what)) = Cumulative(sorted, what)[u]
    BY <1>2, <1>3, CountIs
<1>5. QED
    BY <1>1, <1>2, <1>3, <1>4

(* An estimate, and what it was made of. *)
Estimated(e, book, r, p, m) ==
    /\ Arranges(p, Facing(book, r.side), Opposite(book, r.side))
    /\ InOrder(Facing(book, r.side), r.side)
    /\ Ends(m, Facing(book, r.side), r.side, r.target, r.type)
    /\ e = Facing(book, r.side)[m].price

(* Every estimate is made so.                                                *)
LEMMA EstimateIs ==
    ASSUME NEW book \in Snapshots, NEW r, r.target \in Int, ValidEstimate(r),
           NEW e, e = EstimateFromBook(book, r), e # None
    PROVE  \E p, m : Estimated(e, book, r, p, m)
<1>1. PICK side : side = r.side
    OBVIOUS
<1>2. PICK sorted : sorted = Facing(book, side)
    OBVIOUS
<1>3. PICK levels : levels = Opposite(book, side)
    OBVIOUS
<1>4. PICK p : Arranges(p, sorted, levels) /\ InOrder(sorted, side)
    BY <1>2, <1>3, FacingIs
<1>5. e = MarginalPrice(sorted, r.target, r.type, side)
    BY <1>1, <1>2 DEF EstimateFromBook
<1>6. sorted \in Seq(Readable) /\ r.type \in {"FAK", "FOK"}
    BY <1>4 DEF Arranges, ValidEstimate
<1>7. PICK m : Ends(m, sorted, side, r.target, r.type) /\ e = sorted[m].price
    BY <1>5, <1>6, MarginalIs
<1>8. QED
    BY <1>1, <1>2, <1>3, <1>4, <1>7 DEF Estimated

(* What an estimate says: EstimateIsTheWorstTouched of one answer. *)
LEMMA TouchedIsTheWorst ==
    ASSUME NEW book \in Snapshots, NEW r, r.target \in Int, ValidEstimate(r),
           NEW e, e = EstimateFromBook(book, r), e # None,
           NEW levels, levels = Opposite(book, r.side)
    PROVE  /\ e \in Prices(levels) /\ e \in Nat
           /\ \/ HeldUpTo(book, r, e) >= r.target
              \/ r.type = "FAK" /\ UpTo(levels, r.side, e) = DOMAIN levels
           /\ \A q \in Prices(levels) :
                (IF r.side = "BUY" THEN q < e ELSE q > e) => HeldUpTo(book, r, q) < r.target
<1>1. PICK side : side = r.side
    OBVIOUS
<1>2. PICK sorted : sorted = Facing(book, side)
    OBVIOUS
<1>3. PICK p, m : /\ Arranges(p, sorted, levels) /\ InOrder(sorted, side)
                  /\ Ends(m, sorted, side, r.target, r.type)
                  /\ e = sorted[m].price
    <2>1. PICK p, m : Estimated(e, book, r, p, m)
        BY EstimateIs
    <2>2. QED
        BY <1>1, <1>2, <2>1 DEF Estimated
<1>4. PICK n : n = Len(levels)
    OBVIOUS
<1>5. /\ n \in Nat /\ Len(sorted) = n /\ DOMAIN levels = 1..n
      /\ levels \in Seq(Readable) /\ sorted \in Seq(Readable)
      /\ \A k \in 1..n : /\ p[k] \in 1..n /\ sorted[k] = levels[p[k]]
                         /\ sorted[k].price \in Nat
      /\ \A i \in 1..n : \E k \in 1..n : p[k] = i
    BY <1>3, <1>4, ArrangedAre
<1>6. PICK c : c = Cumulative(sorted, side)
    OBVIOUS
<1>7. PICK w : w = Weight(sorted, side)
    OBVIOUS
<1>8. w \in [1..n -> Nat] /\ Totals(c, w, n)
    BY <1>5, <1>6, <1>7, WeightIs, CumulativeIs
<1>9. /\ m \in 1..n
      /\ c[m] >= r.target \/ (r.type = "FAK" /\ m = n)
      /\ \A k \in 1..n : k < m => c[k] < r.target
    BY <1>3, <1>5, <1>6 DEF Ends
<1>10. e \in Nat /\ e \in Prices(levels)
    BY <1>3, <1>5, <1>9 DEF Prices
<1>11. ASSUME NEW q \in Int
       PROVE  \E u \in 0..n : /\ \A k \in 1..n : k <= u <=> Nearer(side, sorted[k].price, q)
                              /\ HeldUpTo(book, r, q) = c[u]
    <2>1. PICK u \in 0..n :
            /\ \A k \in 1..n : k <= u <=> Nearer(side, sorted[k].price, q)
            /\ Count(UpTo(levels, side, q), Weight(levels, side)) = c[u]
        BY <1>3, <1>4, <1>6, HeldIs
    <2>2. Weight(levels, side) = IF side = "BUY" THEN Notionals(levels) ELSE Sizes(levels)
        BY <1>5, WeightIs
    <2>3. HeldUpTo(book, r, q) = c[u]
        BY <1>1, <2>1, <2>2 DEF HeldUpTo
    <2>4. QED
        BY <2>1, <2>3
<1>12. \/ HeldUpTo(book, r, e) >= r.target
       \/ r.type = "FAK" /\ UpTo(levels, side, e) = DOMAIN levels
    <2>1. PICK u \in 0..n :
            /\ \A k \in 1..n : k <= u <=> Nearer(side, sorted[k].price, e)
            /\ HeldUpTo(book, r, e) = c[u]
        BY <1>10, <1>11
    <2>2. m <= u
        <3>1. Nearer(side, sorted[m].price, e)
            BY <1>3, <1>10 DEF Nearer
        <3>2. QED
            BY <1>9, <2>1, <3>1
    <2>3. CASE c[m] >= r.target
        <3>1. /\ \A j \in 0..n : c[j] \in Nat
              /\ \A j, k \in 0..n : j <= k => c[j] <= c[k]
            BY <1>5, <1>8, TotalsRise
        <3>2. m \in 0..n /\ u \in 0..n
            BY <1>5, <1>9
        <3>3. c[m] <= c[u] /\ c[m] \in Nat /\ c[u] \in Nat
            BY <2>2, <3>1, <3>2
        <3>4. QED
            BY <2>1, <2>3, <3>3
    <2>4. CASE r.type = "FAK" /\ m = n
        <3>1. \A k \in 1..n : Nearer(side, sorted[k].price, e)
            BY <1>5, <2>1, <2>2, <2>4
        <3>2. \A i \in 1..n : Nearer(side, levels[i].price, e)
            <4>1. TAKE i \in 1..n
            <4>2. PICK k \in 1..n : p[k] = i
                BY <1>5
            <4>3. sorted[k] = levels[i]
                BY <1>5, <4>2
            <4>4. QED
                BY <3>1, <4>3
        <3>3. QED
            BY <1>5, <2>4, <3>2 DEF UpTo, Nearer
    <2>5. QED
        BY <1>9, <2>3, <2>4
<1>13. ASSUME NEW q \in Prices(levels), IF side = "BUY" THEN q < e ELSE q > e
       PROVE  HeldUpTo(book, r, q) < r.target
    <2>0. PICK i \in 1..n : q = levels[i].price
        BY <1>5 DEF Prices
    <2>1. q \in Nat
        BY <1>4, <1>5, <2>0, PricesAreNumbers
    <2>2. PICK u \in 0..n :
            /\ \A k \in 1..n : k <= u <=> Nearer(side, sorted[k].price, q)
            /\ HeldUpTo(book, r, q) = c[u]
        BY <1>11, <2>1
    <2>3. u < m
        <3>1. ~Nearer(side, sorted[m].price, q)
            BY <1>3, <1>10, <1>13, <2>1 DEF Nearer
        <3>2. QED
            BY <1>9, <2>2, <3>1
    <2>4. CASE u = 0
        BY <1>8, <2>2, <2>4 DEF Totals, ValidEstimate
    <2>5. CASE u # 0
        <3>1. u \in 1..n
            BY <1>5, <2>5
        <3>2. QED
            BY <1>9, <2>2, <2>3, <3>1
    <2>6. QED
        BY <2>4, <2>5
<1>14. QED
    BY <1>1, <1>10, <1>12, <1>13

(* Up to a price, what is held costs no more than that price for each share. *)
LEMMA CostIsBounded ==
    ASSUME NEW sorted \in Seq(Readable), NEW q \in Nat, NEW u \in 0..Len(sorted),
           \A k \in 1..u : sorted[k].price <= q
    PROVE  Cumulative(sorted, "BUY")[u] <= Cumulative(sorted, "SELL")[u] * q
<1>1. PICK n : n = Len(sorted)
    OBVIOUS
<1>2. PICK c : c = Cumulative(sorted, "BUY")
    OBVIOUS
<1>3. PICK s : s = Cumulative(sorted, "SELL")
    OBVIOUS
<1>4. PICK v : v = Weight(sorted, "BUY")
    OBVIOUS
<1>5. PICK w : w = Weight(sorted, "SELL")
    OBVIOUS
<1>6. /\ n \in Nat /\ v \in [1..n -> Nat] /\ w \in [1..n -> Nat]
      /\ Totals(c, v, n) /\ Totals(s, w, n)
    BY <1>1, <1>2, <1>3, <1>4, <1>5, WeightIs, CumulativeIs
<1>7. \A k \in 1..n : /\ sorted[k].price \in Nat /\ sorted[k].size \in Nat
                      /\ v[k] = sorted[k].size * sorted[k].price /\ w[k] = sorted[k].size
    <2>1. DOMAIN sorted = 1..n
          /\ \A k \in 1..n : sorted[k].price \in Nat /\ sorted[k].size \in Nat
        BY <1>1, PricesAreNumbers
    <2>2. v = Notionals(sorted) /\ w = Sizes(sorted)
        BY <1>4, <1>5, WeightIs
    <2>3. QED
        BY <2>1, <2>2 DEF Notionals, Sizes
<1>8. u \in 0..n
    BY <1>1
<1> DEFINE T == {k \in Nat : k <= u => c[k] <= s[k] * q}
<1>9. 0 \in T
    BY <1>6 DEF Totals
<1>10. ASSUME NEW k \in Nat, k \in T PROVE k + 1 \in T
    <2>1. SUFFICES ASSUME k + 1 <= u PROVE c[k + 1] <= s[k + 1] * q
        OBVIOUS
    <2>2. k + 1 \in 1..n /\ k + 1 \in 1..u /\ (k + 1) - 1 = k /\ k \in 0..n
        BY <1>6, <1>8, <2>1
    <2>3. c[k] <= s[k] * q
        BY <1>10, <2>1, <1>8
    <2>4. c[k + 1] = c[k] + v[k + 1] /\ s[k + 1] = s[k] + w[k + 1]
        BY <1>6, <2>2 DEF Totals
    <2>5. c[k] \in Int /\ s[k] \in Int
        BY <1>6, <2>2 DEF Totals
    <2>6. PICK x \in Nat, y \in Nat : /\ x = sorted[k + 1].price /\ y = sorted[k + 1].size
        BY <1>7, <2>2
    <2>7. x <= q
        BY <2>2, <2>6
    <2>8. v[k + 1] = y * x /\ w[k + 1] = y
        BY <1>7, <2>2, <2>6
    <2>9. y * x <= y * q
        BY <2>7
    <2>10. (s[k] + y) * q = s[k] * q + y * q
        BY <2>5
    <2>11. y * x \in Int /\ y * q \in Int /\ s[k] * q \in Int
        BY <2>5
    <2>12. c[k] + y * x <= s[k] * q + y * q
        <3>1. PICK a \in Int, b \in Int, d \in Int :
                a = y * x /\ b = s[k] * q /\ d = y * q
            BY <2>11
        <3>2. c[k] <= b /\ a <= d
            BY <2>3, <2>9, <3>1
        <3>3. c[k] + a <= b + d
            BY <2>5, <3>2
        <3>4. QED
            BY <3>1, <3>3
    <2>13. QED
        BY <2>4, <2>8, <2>10, <2>12
<1> HIDE DEF T
<1>11. T = Nat
    BY <1>9, <1>10, Induct DEF T
<1>12. u \in T /\ u <= u
    BY <1>6, <1>8, <1>11
<1>13. c[u] <= s[u] * q
    BY <1>12 DEF T
<1>14. QED
    BY <1>2, <1>3, <1>13

(* A FOK order that is sent with its estimate fills on the same book. *)
LEMMA EstimateFills ==
    ASSUME NEW book \in Snapshots, NEW r, r.target \in Int, ValidEstimate(r),
           r.type = "FOK", NEW e, e = EstimateFromBook(book, r), e # None
    PROVE  Fills(book, r, e)
<1>1. PICK side : side = r.side
    OBVIOUS
<1>2. PICK sorted : sorted = Facing(book, side)
    OBVIOUS
<1>3. PICK levels : levels = Opposite(book, side)
    OBVIOUS
<1>4. PICK p, m : Estimated(e, book, r, p, m)
    BY EstimateIs
<1>5. /\ Arranges(p, sorted, levels) /\ InOrder(sorted, side)
      /\ Ends(m, sorted, side, r.target, r.type)
      /\ e = sorted[m].price
    BY <1>1, <1>2, <1>3, <1>4 DEF Estimated
<1>6. PICK n : n = Len(levels)
    OBVIOUS
<1>7. /\ n \in Nat /\ Len(sorted) = n
      /\ levels \in Seq(Readable) /\ sorted \in Seq(Readable)
      /\ \A k \in 1..n : sorted[k].price \in Nat
    BY <1>5, <1>6, ArrangedAre
<1>8. side \in {"BUY", "SELL"}
    BY <1>1 DEF ValidEstimate
<1>9. levels = Opposite(book, r.side)
    BY <1>1, <1>3
<1>10. e \in Nat /\ HeldUpTo(book, r, e) >= r.target
    <2>1. e \in Nat /\ (HeldUpTo(book, r, e) >= r.target \/ r.type = "FAK")
        BY <1>9, TouchedIsTheWorst
    <2>2. r.type # "FAK"
        OBVIOUS
    <2>3. QED
        BY <2>1, <2>2
<1>11. Weight(levels, "BUY") = Notionals(levels) /\ Weight(levels, "SELL") = Sizes(levels)
    <2>1. Weight(levels, "BUY") = IF "BUY" = "BUY" THEN Notionals(levels) ELSE Sizes(levels)
        BY <1>7, WeightIs
    <2>2. Weight(levels, "SELL") = IF "SELL" = "BUY" THEN Notionals(levels) ELSE Sizes(levels)
        BY <1>7, WeightIs
    <2>3. QED
        BY <2>1, <2>2
<1>12. PICK shares : shares = Count(UpTo(levels, side, e), Sizes(levels))
    OBVIOUS
<1>13. CASE side = "BUY"
    <2>1. PICK u \in 0..n :
            /\ \A k \in 1..n : k <= u <=> Nearer(side, sorted[k].price, e)
            /\ Count(UpTo(levels, side, e), Weight(levels, "SELL")) = Cumulative(sorted, "SELL")[u]
        BY <1>5, <1>6, <1>10, HeldIs
    <2>2. PICK v \in 0..n :
            /\ \A k \in 1..n : k <= v <=> Nearer(side, sorted[k].price, e)
            /\ Count(UpTo(levels, side, e), Weight(levels, "BUY")) = Cumulative(sorted, "BUY")[v]
        BY <1>5, <1>6, <1>10, HeldIs
    <2>3. u = v
        <3>1. \A k \in 1..n : k <= u <=> k <= v
            BY <2>1, <2>2
        <3>2. u \in Nat /\ v \in Nat /\ u <= n /\ v <= n
            OBVIOUS
        <3>3. ASSUME u # 0 PROVE u <= v
            <4>1. u \in 1..n /\ u <= u
                BY <1>7, <3>2, <3>3
            <4>2. QED
                BY <3>1, <4>1
        <3>4. ASSUME v # 0 PROVE v <= u
            <4>1. v \in 1..n /\ v <= v
                BY <1>7, <3>2, <3>4
            <4>2. QED
                BY <3>1, <4>1
        <3>5. QED
            BY <3>2, <3>3, <3>4
    <2>4. \A k \in 1..u : sorted[k].price <= e
        <3>1. TAKE k \in 1..u
        <3>2. k \in 1..n /\ k <= u
            BY <1>7
        <3>3. Nearer(side, sorted[k].price, e)
            BY <2>1, <3>2
        <3>4. QED
            BY <1>13, <3>3 DEF Nearer
    <2>5. Cumulative(sorted, "BUY")[u] <= Cumulative(sorted, "SELL")[u] * e
        BY <1>7, <1>10, <2>4, CostIsBounded
    <2>6. Cumulative(sorted, "SELL")[u] = shares
        BY <1>11, <1>12, <2>1
    <2>7. HeldUpTo(book, r, e) = Cumulative(sorted, "BUY")[u]
        BY <1>1, <1>3, <1>11, <1>13, <2>2, <2>3 DEF HeldUpTo
    <2>8. Cumulative(sorted, "BUY")[u] \in Int /\ shares \in Int
        <3>1. /\ Totals(Cumulative(sorted, "BUY"), Weight(sorted, "BUY"), n)
              /\ Totals(Cumulative(sorted, "SELL"), Weight(sorted, "SELL"), n)
            BY <1>7, CumulativeIs
        <3>2. QED
            BY <2>6, <3>1 DEF Totals
    <2>9. shares * e \in Int
        BY <1>10, <2>8
    <2>10. shares * e >= r.target
        BY <1>10, <2>5, <2>6, <2>7, <2>8, <2>9
    <2>11. QED
        BY <1>1, <1>3, <1>12, <1>13, <2>10 DEF Fills
<1>14. CASE side = "SELL"
    <2>1. shares = HeldUpTo(book, r, e)
        BY <1>1, <1>3, <1>12, <1>14 DEF HeldUpTo
    <2>2. QED
        BY <1>1, <1>3, <1>10, <1>12, <1>14, <2>1 DEF Fills
<1>15. QED
    BY <1>8, <1>13, <1>14

(* The lesser of two numbers. *)
Lesser(a, b) == IF a < b THEN a ELSE b

(* min and max of two.                                                       *)
LEMMA MinIs ==
    ASSUME NEW a \in Int, NEW b \in Int
    PROVE  Min({a, b}) = Lesser(a, b)
BY DEF Min, Lesser

(* max(0, a).                                                                *)
LEMMA MaxIs ==
    ASSUME NEW a \in Int
    PROVE  Max({0, a}) = IF a > 0 THEN a ELSE 0
BY DEF Max

(* t is taken of z, for target behind h, where there is total in all. *)
Taken(t, target, h, z, total) ==
    /\ target \in Nat /\ h \in Nat /\ z \in Nat /\ total \in Nat /\ h + z <= total
    /\ t = Min({z, Max({0, target - h})})

(* What is taken of a level is what it adds to what is filled.               *)
LEMMA TakeIs ==
    ASSUME NEW target, NEW h, NEW z, NEW total, NEW t, Taken(t, target, h, z, total),
           NEW F, F = Lesser(target, total)
    PROVE  t = Lesser(h + z, F) - Lesser(h, F)
<1>t. /\ target \in Nat /\ h \in Nat /\ z \in Nat /\ total \in Nat /\ h + z <= total
      /\ t = Min({z, Max({0, target - h})})
    BY DEF Taken
<1>1. PICK left \in Int : left = target - h
    BY <1>t
<1>2. PICK rest \in Int : rest = (IF left > 0 THEN left ELSE 0)
    OBVIOUS
<1>3. Max({0, target - h}) = rest
    BY <1>1, <1>2, MaxIs
<1>4. Min({z, rest}) = Lesser(z, rest)
    BY <1>t, MinIs
<1>5. Lesser(z, rest) = Lesser(h + z, F) - Lesser(h, F)
    BY <1>t, <1>1, <1>2 DEF Lesser
<1>6. QED
    BY <1>t, <1>3, <1>4, <1>5

(* The walk of calculate_market_price: what it takes of each level, and what  *)
(* it has spent.                                                             *)
Walk(spent, take, sorted, target, N) ==
    /\ spent \in [0..N -> Int] /\ spent[0] = 0
    /\ \A k \in 1..N : spent[k] = spent[k - 1] + take[k] * sorted[k].price
    /\ \A k \in 1..N :
         take[k] = Min({sorted[k].size, Max({0, target - Cumulative(sorted, "SELL")[k - 1]})})

(* Sizes add up.                                                             *)
LEMMA SizesAdd ==
    ASSUME NEW sorted \in Seq(Readable), NEW s, s = Cumulative(sorted, "SELL"),
           NEW n, n = Len(sorted)
    PROVE  /\ n \in Nat /\ s[0] = 0
           /\ \A k \in 0..n : s[k] \in Nat
           /\ \A j, k \in 0..n : j <= k => s[j] <= s[k]
           /\ \A k \in 1..n : /\ s[k] = s[k - 1] + sorted[k].size
                              /\ sorted[k].size \in Nat /\ sorted[k].price \in Nat
<1>1. PICK w : w = Weight(sorted, "SELL")
    OBVIOUS
<1>2. n \in Nat /\ w \in [1..n -> Nat] /\ Totals(s, w, n)
    BY <1>1, WeightIs, CumulativeIs
<1>3. /\ \A k \in 0..n : s[k] \in Nat
      /\ \A j, k \in 0..n : j <= k => s[j] <= s[k]
    BY <1>2, TotalsRise
<1>4. \A k \in 1..n : w[k] = sorted[k].size /\ sorted[k].size \in Nat /\ sorted[k].price \in Nat
    <2>1. DOMAIN sorted = 1..n
          /\ \A k \in 1..n : sorted[k].price \in Nat /\ sorted[k].size \in Nat
        BY PricesAreNumbers
    <2>2. w = IF "SELL" = "BUY" THEN Notionals(sorted) ELSE Sizes(sorted)
        BY <1>1, WeightIs
    <2>3. w = Sizes(sorted)
        BY <2>2
    <2>4. QED
        BY <2>1, <2>3 DEF Sizes
<1>5. s[0] = 0 /\ \A k \in 1..n : s[k] = s[k - 1] + w[k]
    BY <1>2 DEF Totals
<1>6. QED
    BY <1>2, <1>3, <1>4, <1>5

(* Notionals add up, too.                                                    *)
LEMMA CostsAdd ==
    ASSUME NEW sorted \in Seq(Readable), NEW c, c = Cumulative(sorted, "BUY"),
           NEW n, n = Len(sorted)
    PROVE  /\ c[0] = 0 /\ \A k \in 0..n : c[k] \in Int
           /\ \A k \in 1..n : c[k] = c[k - 1] + sorted[k].size * sorted[k].price
<1>1. PICK w : w = Weight(sorted, "BUY")
    OBVIOUS
<1>2. Totals(c, w, n)
    BY <1>1, CumulativeIs
<1>3. \A k \in 1..n : w[k] = sorted[k].size * sorted[k].price
    <2>1. DOMAIN sorted = 1..n
        BY PricesAreNumbers
    <2>2. w = IF "BUY" = "BUY" THEN Notionals(sorted) ELSE Sizes(sorted)
        BY <1>1, WeightIs
    <2>3. w = Notionals(sorted)
        BY <2>2
    <2>4. QED
        BY <2>1, <2>3 DEF Notionals
<1>4. c[0] = 0 /\ \A k \in 1..n : c[k] = c[k - 1] + w[k]
    BY <1>2 DEF Totals
<1>5. \A k \in 0..n : c[k] \in Int
    BY <1>2 DEF Totals
<1>6. QED
    BY <1>3, <1>4, <1>5

Walked(a, sorted, target, n) ==
    \E spent, take : /\ Walk(spent, take, sorted, target, n)
                     /\ a.spent = spent[n]
                     /\ a.filled = Min({target, Cumulative(sorted, "SELL")[n]})

(* calculate_market_price is such a walk.                                    *)
LEMMA WalkIs ==
    ASSUME NEW book \in Snapshots, NEW r, r.target \in Nat,
           NEW sorted, sorted = Facing(book, Upper(r.side)), sorted \in Seq(Readable),
           NEW n, n = Len(sorted), NEW a, a = CalculateMarketPrice(book, r)
    PROVE  Walked(a, sorted, r.target, n)
<1>1. n \in Nat /\ DOMAIN sorted = 1..n
    BY PricesAreNumbers
<1>2. PICK s : s = Cumulative(sorted, "SELL")
    OBVIOUS
<1>3. /\ \A k \in 0..n : s[k] \in Nat
      /\ \A k \in 1..n : sorted[k].size \in Nat /\ sorted[k].price \in Nat
    BY <1>2, SizesAdd
<1>4. PICK target \in Nat : target = r.target
    OBVIOUS
<1>5. PICK take : take = [k \in 1..n |-> Min({sorted[k].size, Max({0, target - s[k - 1]})})]
    OBVIOUS
<1>6. PICK w : w = [k \in 1..n |-> take[k] * sorted[k].price]
    OBVIOUS
<1>7. \A k \in 1..n : take[k] \in Int
    <2>1. TAKE k \in 1..n
    <2>2. k - 1 \in 0..n
        OBVIOUS
    <2>3. PICK z \in Nat : z = sorted[k].size
        BY <1>3
    <2>4. PICK left \in Int : left = target - s[k - 1]
        BY <1>3, <2>2
    <2>5. PICK rest \in Int : rest = (IF left > 0 THEN left ELSE 0)
        OBVIOUS
    <2>6. Max({0, left}) = rest
        BY <2>5, MaxIs
    <2>7. Min({z, rest}) = Lesser(z, rest)
        BY MinIs
    <2>8. take[k] = Lesser(z, rest)
        BY <1>5, <2>3, <2>4, <2>6, <2>7
    <2>9. QED
        BY <2>8 DEF Lesser
<1>8. w \in [1..n -> Int]
    BY <1>3, <1>6, <1>7
<1>9. PICK spent : spent = CHOOSE f : f = [k \in 0..n |-> IF k = 0 THEN 0 ELSE f[k - 1] + w[k]]
    OBVIOUS
<1>10. Totals(spent, w, n)
    BY <1>1, <1>8, <1>9, SumIsTotals
<1>11. spent = CHOOSE f : f = [k \in 0..n |-> IF k = 0 THEN 0
                                 ELSE f[k - 1] + take[k] * sorted[k].price]
    <2>1. \A f : [k \in 0..n |-> IF k = 0 THEN 0 ELSE f[k - 1] + w[k]]
              = [k \in 0..n |-> IF k = 0 THEN 0 ELSE f[k - 1] + take[k] * sorted[k].price]
        BY <1>1, <1>6
    <2>2. QED
        BY <1>9, <2>1
<1>12. a = [spent |-> spent[n], filled |-> Min({target, s[n]})]
    BY <1>1, <1>2, <1>4, <1>5, <1>11 DEF CalculateMarketPrice
<1>13. Walk(spent, take, sorted, target, n)
    BY <1>1, <1>2, <1>5, <1>6, <1>10 DEF Walk, Totals
<1>14. QED
    BY <1>2, <1>4, <1>12, <1>13 DEF Walked

(* The walk has spent, up to n, what the levels before m cost, and q for each *)
(* share behind them: m levels are better than q, and those up to u are at q. *)
LEMMA SpentIs ==
    ASSUME NEW sorted \in Seq(Readable), NEW N, N = Len(sorted),
           NEW target \in Nat, NEW spent, NEW take, Walk(spent, take, sorted, target, N),
           NEW s, s = Cumulative(sorted, "SELL"), NEW c, c = Cumulative(sorted, "BUY"),
           NEW F, F = Lesser(target, s[N]), NEW q \in Nat,
           NEW m \in 0..N, NEW u \in 0..N, m <= u, s[m] <= F, F <= s[u],
           \A k \in 1..N : m < k /\ k <= u => sorted[k].price = q
    PROVE  spent[N] = c[m] + (F - s[m]) * q
<1>1. /\ N \in Nat /\ s[0] = 0
      /\ \A k \in 0..N : s[k] \in Nat
      /\ \A j, k \in 0..N : j <= k => s[j] <= s[k]
      /\ \A k \in 1..N : /\ s[k] = s[k - 1] + sorted[k].size
                         /\ sorted[k].size \in Nat /\ sorted[k].price \in Nat
    BY SizesAdd
<1>2. /\ c[0] = 0 /\ \A k \in 0..N : c[k] \in Int
      /\ \A k \in 1..N : c[k] = c[k - 1] + sorted[k].size * sorted[k].price
    BY CostsAdd
<1>3. /\ spent \in [0..N -> Int] /\ spent[0] = 0
      /\ \A k \in 1..N : spent[k] = spent[k - 1] + take[k] * sorted[k].price
      /\ \A k \in 1..N : take[k] = Min({sorted[k].size, Max({0, target - s[k - 1]})})
    BY DEF Walk
<1>4. F \in Nat
    BY <1>1 DEF Lesser
<1> DEFINE G(k) == IF k <= m THEN c[k] ELSE c[m] + (Lesser(s[k], F) - s[m]) * q
           T == {k \in Nat : k <= N => spent[k] = G(k)}
<1>5. 0 \in T
    BY <1>2, <1>3
<1>6. ASSUME NEW k \in Nat, k \in T PROVE k + 1 \in T
    <2>1. SUFFICES ASSUME k + 1 <= N PROVE spent[k + 1] = G(k + 1)
        OBVIOUS
    <2>2. k + 1 \in 1..N /\ (k + 1) - 1 = k /\ k \in 0..N /\ k + 1 \in 0..N /\ N \in 0..N
        BY <1>1, <2>1
    <2>3. spent[k] = G(k)
        BY <1>1, <1>6, <2>1
    <2>4. PICK z \in Nat, x \in Nat : z = sorted[k + 1].size /\ x = sorted[k + 1].price
        BY <1>1, <2>2
    <2>5. s[k] \in Nat /\ s[k + 1] \in Nat /\ s[N] \in Nat /\ s[m] \in Nat /\ s[u] \in Nat
          /\ c[k] \in Int /\ c[m] \in Int
        BY <1>1, <1>2, <2>2
    <2>6. s[k + 1] = s[k] + z /\ s[k + 1] <= s[N]
        <3>1. s[k + 1] = s[k] + z
            BY <1>1, <2>2, <2>4
        <3>2. s[k + 1] <= s[N]
            BY <1>1, <2>2
        <3>3. QED
            BY <3>1, <3>2
    <2>7. PICK t : t = take[k + 1]
        OBVIOUS
    <2>8. t = Min({z, Max({0, target - s[k]})})
        BY <1>3, <2>2, <2>4, <2>7
    <2>9. t = Lesser(s[k] + z, F) - Lesser(s[k], F)
        <3>1. s[k] + z <= s[N] /\ F = Lesser(target, s[N])
            BY <2>6
        <3>2. Taken(t, target, s[k], z, s[N])
            BY <2>4, <2>5, <2>8, <3>1 DEF Taken
        <3>3. QED
            BY <3>1, <3>2, TakeIs
    <2>10. t = Lesser(s[k + 1], F) - Lesser(s[k], F) /\ t \in Int
        <3>1. t = Lesser(s[k + 1], F) - Lesser(s[k], F)
            BY <2>6, <2>9
        <3>2. PICK h \in Nat, h1 \in Nat : h = s[k] /\ h1 = s[k + 1]
            BY <2>5
        <3>3. Lesser(h, F) \in Int /\ Lesser(h1, F) \in Int
            BY <1>4 DEF Lesser
        <3>4. QED
            BY <3>1, <3>2, <3>3
    <2>11. spent[k + 1] = spent[k] + t * x
        BY <1>3, <2>2, <2>4, <2>7
    <2>12. spent[k] \in Int
        BY <1>3, <2>2
    <2>13. CASE k + 1 <= m
        <3>1. s[k + 1] <= s[m]
            BY <1>1, <2>2, <2>13
        <3>2. t = z
            <4>1. PICK h \in Nat, h1 \in Nat, sm \in Nat : h = s[k] /\ h1 = s[k + 1] /\ sm = s[m]
                BY <2>5
            <4>2. h1 = h + z /\ h1 <= sm /\ sm <= F
                BY <2>6, <3>1, <4>1
            <4>3. t = Lesser(h1, F) - Lesser(h, F)
                BY <2>10, <4>1
            <4>4. Lesser(h1, F) = h1 /\ Lesser(h, F) = h
                BY <1>4, <4>2 DEF Lesser
            <4>5. QED
                BY <4>2, <4>3, <4>4
        <3>3. c[k + 1] = c[k] + z * x
            BY <1>2, <2>2, <2>4
        <3>4. G(k) = c[k] /\ G(k + 1) = c[k + 1]
            BY <2>13
        <3>5. QED
            BY <2>3, <2>11, <3>2, <3>3, <3>4
    <2>14. CASE m <= k
        <3>1. s[m] <= s[k]
            BY <1>1, <2>2, <2>14
        <3>0. PICK h \in Nat, sm \in Nat : h = s[k] /\ sm = s[m]
            BY <2>5
        <3>2. PICK d \in Int : d = Lesser(s[k], F) - s[m]
            <4>1. Lesser(h, F) \in Int
                BY <1>4 DEF Lesser
            <4>2. QED
                BY <3>0, <4>1
        <3>3. spent[k] = c[m] + d * q
            <4>1. CASE k = m
                <5>1. d = 0
                    <6>1. h <= F /\ sm = h
                        BY <3>0, <4>1
                    <6>2. Lesser(h, F) = h
                        BY <1>4, <6>1 DEF Lesser
                    <6>3. QED
                        BY <3>0, <3>2, <6>1, <6>2
                <5>2. G(k) = c[m]
                    BY <4>1
                <5>3. d * q = 0
                    BY <5>1
                <5>4. QED
                    BY <2>3, <2>5, <5>2, <5>3
            <4>2. CASE k # m
                <5>1. ~(k <= m)
                    BY <2>14, <4>2
                <5>2. G(k) = c[m] + (Lesser(s[k], F) - s[m]) * q
                    BY <5>1
                <5>3. QED
                    BY <2>3, <3>2, <5>2
            <4>3. QED
                BY <4>1, <4>2
        <3>4. Lesser(s[k + 1], F) - s[m] = d + t
            <4>1. Lesser(s[k + 1], F) \in Int /\ Lesser(s[k], F) \in Int
                BY <1>4, <2>5 DEF Lesser
            <4>2. PICK a \in Int, b \in Int :
                     a = Lesser(s[k + 1], F) /\ b = Lesser(s[k], F)
                BY <4>1
            <4>3. t = a - b /\ d = b - sm
                BY <2>10, <3>0, <3>2, <4>2
            <4>4. a - sm = d + t
                BY <4>3
            <4>5. QED
                BY <3>0, <4>2, <4>4
        <3>5. t * x = t * q
            <4>1. CASE k + 1 <= u
                <5>1. x = q
                    BY <2>2, <2>4, <2>14, <4>1
                <5>2. QED
                    BY <5>1
            <4>2. CASE ~(k + 1 <= u)
                <5>1. u <= k
                    BY <4>2
                <5>2. s[u] <= s[k]
                    BY <1>1, <2>2, <5>1
                <5>3. PICK h1 \in Nat, su \in Nat : h1 = s[k + 1] /\ su = s[u]
                    BY <2>5
                <5>4. h1 = h + z /\ su <= h /\ F <= su
                    BY <2>6, <3>0, <5>2, <5>3
                <5>5. t = Lesser(h1, F) - Lesser(h, F)
                    BY <2>10, <3>0, <5>3
                <5>6. t = 0
                    BY <1>4, <5>4, <5>5 DEF Lesser
                <5>7. QED
                    BY <5>6, <2>4
            <4>3. QED
                BY <4>1, <4>2
        <3>6. (d + t) * q = d * q + t * q
            BY <2>10
        <3>7. PICK i \in Int, j \in Int : i = d * q /\ j = t * q
            BY <2>10
        <3>8. spent[k + 1] = c[m] + (d + t) * q
            <4>1. spent[k + 1] = (c[m] + i) + j
                BY <2>11, <3>3, <3>5, <3>7
            <4>2. (c[m] + i) + j = c[m] + (i + j)
                BY <2>5
            <4>3. QED
                BY <3>6, <3>7, <4>1, <4>2
        <3>9. ~(k + 1 <= m)
            BY <2>14
        <3>10. G(k + 1) = c[m] + (d + t) * q
            BY <3>4, <3>9
        <3>11. QED
            BY <3>8, <3>10
    <2>15. QED
        BY <2>13, <2>14
<1> HIDE DEF T
<1>7. T = Nat
    BY <1>5, <1>6, Induct DEF T
<1>8. N \in T /\ N <= N
    BY <1>1, <1>7
<1>9. spent[N] = G(N)
    BY <1>8 DEF T
<1>10. N \in 0..N
    BY <1>1
<1>11. s[N] \in Nat /\ s[u] <= s[N] /\ s[m] \in Nat /\ s[u] \in Nat /\ c[m] \in Int
    BY <1>1, <1>2, <1>10
<1>12. Lesser(s[N], F) = F
    BY <1>4, <1>11 DEF Lesser
<1>13. CASE N <= m
    <2>1. N = m
        BY <1>1, <1>13
    <2>2. F = s[m]
        BY <1>4, <1>11, <2>1 DEF Lesser
    <2>3. (F - s[m]) * q = 0
        BY <1>4, <2>2
    <2>4. G(N) = c[m]
        BY <1>13, <2>1
    <2>5. QED
        BY <1>9, <1>11, <2>3, <2>4
<1>14. CASE ~(N <= m)
    <2>1. G(N) = c[m] + (Lesser(s[N], F) - s[m]) * q
        BY <1>14
    <2>2. QED
        BY <1>9, <1>12, <2>1
<1>15. QED
    BY <1>13, <1>14

(* What an average says: AverageIsOfTheBestShares of one answer.             *)
LEMMA AverageIs ==
    ASSUME NEW book \in Snapshots, NEW r, r.target \in Nat,
           NEW a, a = CalculateMarketPrice(book, r)
    PROVE  IsOfTheBestShares(a, book, r)
<1>1. PICK side : side = Upper(r.side)
    OBVIOUS
<1>2. PICK sorted : sorted = Facing(book, side)
    OBVIOUS
<1>3. PICK levels : levels = Opposite(book, side)
    OBVIOUS
<1>4. PICK p : Arranges(p, sorted, levels) /\ InOrder(sorted, side)
    BY <1>2, <1>3, FacingIs
<1>5. PICK n : n = Len(levels)
    OBVIOUS
<1>6. /\ n \in Nat /\ Len(sorted) = n /\ DOMAIN levels = 1..n
      /\ levels \in Seq(Readable) /\ sorted \in Seq(Readable)
      /\ \A k \in 1..n : sorted[k].price \in Nat
    BY <1>4, <1>5, ArrangedAre
<1>7. PICK s : s = Cumulative(sorted, "SELL")
    OBVIOUS
<1>8. PICK c : c = Cumulative(sorted, "BUY")
    OBVIOUS
<1>9. Weight(levels, "BUY") = Notionals(levels) /\ Weight(levels, "SELL") = Sizes(levels)
    <2>1. Weight(levels, "BUY") = IF "BUY" = "BUY" THEN Notionals(levels) ELSE Sizes(levels)
        BY <1>6, WeightIs
    <2>2. Weight(levels, "SELL") = IF "SELL" = "BUY" THEN Notionals(levels) ELSE Sizes(levels)
        BY <1>6, WeightIs
    <2>3. QED
        BY <2>1, <2>2
<1>10. \A k \in 0..n : s[k] \in Nat
    BY <1>6, <1>7, SizesAdd
<1>11. Count(DOMAIN levels, Sizes(levels)) = s[n]
    <2>1. PICK R : R = 1..n
        OBVIOUS
    <2>2. R \in SUBSET (1..Len(levels)) /\ n \in 0..Len(levels)
        BY <1>5, <1>6, <2>1
    <2>3. \A k \in 1..Len(levels) : k <= n <=> p[k] \in R
        BY <1>4, <1>5, <2>1, ArrangedAre
    <2>4. Count(R, Weight(levels, "SELL")) = s[n]
        BY <1>4, <1>7, <2>2, <2>3, CountIs
    <2>5. QED
        BY <1>6, <1>9, <2>1, <2>4
<1>12. PICK target \in Nat : target = r.target
    OBVIOUS
<1>13. PICK F : F = Lesser(target, s[n])
    OBVIOUS
<1>14. PICK spent, take : /\ Walk(spent, take, sorted, target, n)
                          /\ a.spent = spent[n]
                          /\ a.filled = Min({target, s[n]})
    <2>1. sorted = Facing(book, Upper(r.side)) /\ n = Len(sorted)
        BY <1>1, <1>2, <1>6
    <2>2. Walked(a, sorted, r.target, n)
        BY <1>6, <2>1, WalkIs
    <2>3. QED
        BY <1>7, <1>12, <2>2 DEF Walked
<1>15. a.filled = F /\ F \in Nat
    <2>1. n \in 0..n /\ s[n] \in Nat
        BY <1>6, <1>10
    <2>2. Min({target, s[n]}) = F
        BY <1>13, <2>1, MinIs
    <2>3. QED
        BY <1>13, <1>14, <2>1, <2>2 DEF Lesser
<1>16. ASSUME NEW q \in Prices(levels),
              a.filled \in Count(Better(levels, side, q), Sizes(levels))
                             ..Count(UpTo(levels, side, q), Sizes(levels))
       PROVE  a.spent = Count(Better(levels, side, q), Notionals(levels))
                        + (a.filled - Count(Better(levels, side, q), Sizes(levels))) * q
    <2>1. q \in Nat
        <3>1. PICK i \in 1..n : q = levels[i].price
            BY <1>6 DEF Prices
        <3>2. QED
            BY <1>5, <1>6, <3>1, PricesAreNumbers
    <2>0. q \in Int
        BY <2>1
    <2>2. PICK better : better = Better(levels, side, q)
        OBVIOUS
    <2>3. PICK upTo : upTo = UpTo(levels, side, q)
        OBVIOUS
    <2>4. /\ better \in SUBSET (1..Len(levels))
          /\ \A k \in 1..Len(levels) : p[k] \in better <=>
               Nearer(side, sorted[k].price, q) /\ sorted[k].price # q
        BY <1>4, <2>0, <2>2, ReachBetter
    <2>5. PICK m \in 0..Len(levels) : \A k \in 1..Len(levels) : k <= m <=> p[k] \in better
        BY <1>4, <2>0, <2>2, ReachBetter
    <2>6. /\ upTo \in SUBSET (1..Len(levels))
          /\ \A k \in 1..Len(levels) : p[k] \in upTo <=> Nearer(side, sorted[k].price, q)
        BY <1>4, <2>0, <2>3, Reach
    <2>7. PICK u \in 0..Len(levels) : \A k \in 1..Len(levels) : k <= u <=> p[k] \in upTo
        BY <1>4, <2>0, <2>3, Reach
    <2>8. Count(better, Sizes(levels)) = s[m] /\ Count(better, Notionals(levels)) = c[m]
        <3>1. Count(better, Weight(levels, "SELL")) = s[m]
            BY <1>4, <1>7, <2>4, <2>5, CountIs
        <3>2. Count(better, Weight(levels, "BUY")) = c[m]
            BY <1>4, <1>8, <2>4, <2>5, CountIs
        <3>3. QED
            BY <1>9, <3>1, <3>2
    <2>9. Count(upTo, Sizes(levels)) = s[u]
        <3>1. Count(upTo, Weight(levels, "SELL")) = s[u]
            BY <1>4, <1>7, <2>6, <2>7, CountIs
        <3>2. QED
            BY <1>9, <3>1
    <2>10. m \in 0..n /\ u \in 0..n
        BY <1>5
    <2>11. m <= u
        <3>1. CASE m = 0
            BY <2>10, <3>1
        <3>2. CASE m # 0
            <4>1. m \in 1..Len(levels) /\ m <= m
                BY <1>5, <1>6, <2>10, <3>2
            <4>2. QED
                BY <2>4, <2>5, <2>6, <2>7, <4>1
        <3>3. QED
            BY <3>1, <3>2
    <2>12. \A k \in 1..n : m < k /\ k <= u => sorted[k].price = q
        <3>1. SUFFICES ASSUME NEW k \in 1..n, m < k, k <= u PROVE sorted[k].price = q
            OBVIOUS
        <3>2. k \in 1..Len(levels) /\ ~(k <= m)
            BY <1>5, <2>10, <3>1
        <3>3. p[k] \in upTo /\ p[k] \notin better
            BY <2>5, <2>7, <3>1, <3>2
        <3>4. QED
            BY <2>4, <2>6, <3>2, <3>3
    <2>13. s[m] <= F /\ F <= s[u]
        <3>1. F \in s[m]..s[u]
            BY <1>15, <1>16, <2>2, <2>3, <2>8, <2>9
        <3>2. QED
            BY <1>10, <1>15, <2>10, <3>1
    <2>14. spent[n] = c[m] + (F - s[m]) * q
        BY <1>6, <1>7, <1>8, <1>13, <1>14, <2>1, <2>10, <2>11, <2>12, <2>13, SpentIs, SMTT(30)
    <2>15. QED
        BY <1>14, <1>15, <2>2, <2>8, <2>14
<1>17. a.filled = LET held == Count(DOMAIN levels, Sizes(levels))
                  IN  IF r.target < held THEN r.target ELSE held
    BY <1>11, <1>12, <1>13, <1>15 DEF Lesser
<1>18. QED
    BY <1>1, <1>3, <1>16, <1>17 DEF IsOfTheBestShares

(* Every level is in both lists equally often. *)
SameLevels(levels, raw) ==
    \A level : Cardinality({k \in DOMAIN levels : levels[k] = level})
                 = Cardinality({k \in DOMAIN raw : raw[k] = level})

(* A list arranged has every level as often as before.                       *)
LEMMA AsOften ==
    ASSUME NEW p, NEW sorted, NEW levels, Arranges(p, sorted, levels)
    PROVE  SameLevels(sorted, levels)
<1> SUFFICES ASSUME NEW level
             PROVE  Cardinality({k \in DOMAIN sorted : sorted[k] = level})
                      = Cardinality({k \in DOMAIN levels : levels[k] = level})
    BY DEF SameLevels
<1>1. PICK n : n = Len(levels)
    OBVIOUS
<1>2. /\ n \in Nat /\ DOMAIN levels = 1..n /\ DOMAIN sorted = 1..n
      /\ \A k \in 1..n : p[k] \in 1..n /\ sorted[k] = levels[p[k]]
      /\ \A i \in 1..n : \E k \in 1..n : p[k] = i
    BY <1>1, ArrangedAre
<1>3. \A j, k \in 1..n : p[j] = p[k] => j = k
    <2>1. p \in Bijection(1..n, 1..n)
        BY <1>1 DEF Arranges
    <2>2. p \in [1..n -> 1..n] /\ IsInjective(p)
        BY <2>1 DEF Bijection, Injection
    <2>3. DOMAIN p = 1..n
        BY <2>2
    <2>4. QED
        BY <2>2, <2>3 DEF IsInjective
<1>4. PICK A : A = {k \in 1..n : sorted[k] = level}
    OBVIOUS
<1>5. PICK B : B = {k \in 1..n : levels[k] = level}
    OBVIOUS
<1>6. PICK f : f = [k \in A |-> p[k]]
    OBVIOUS
<1>7. \A k \in A : k \in 1..n /\ f[k] = p[k] /\ p[k] \in B
    BY <1>2, <1>4, <1>5, <1>6
<1>8. f \in [A -> B]
    BY <1>6, <1>7
<1>9. \A j, k \in A : f[j] = f[k] => j = k
    BY <1>3, <1>7
<1>10. \A i \in B : \E k \in A : f[k] = i
    <2>1. TAKE i \in B
    <2>2. PICK k \in 1..n : p[k] = i
        BY <1>2, <1>5
    <2>3. k \in A
        BY <1>2, <1>4, <1>5, <2>2
    <2>4. QED
        BY <1>7, <2>2, <2>3
<1>11. f \in Bijection(A, B)
    BY <1>8, <1>9, <1>10 DEF Bijection, Injection, Surjection, IsInjective
<1>12. IsFiniteSet(1..n) /\ A \in SUBSET (1..n)
    BY <1>2, <1>4, FS_Interval
<1>13. IsFiniteSet(A)
    BY <1>12, FS_Subset
<1>14. ExistsBijection(A, B) /\ IsFiniteSet(A)
    BY <1>11, <1>13 DEF ExistsBijection
<1>15. Cardinality(B) = Cardinality(A)
    BY <1>14, FS_Bijection, Zenon
<1>16. QED
    BY <1>2, <1>4, <1>5, <1>15

(* What is told of a book is the book. *)
LEMMA AdaptedIs ==
    ASSUME NEW book \in Snapshots
    PROVE  KeepsItsLevels(AdaptBook(book), book)
<1>1. PICK bids : bids = Ascending(Levels(book.bids))
    OBVIOUS
<1>2. PICK asks : asks = Descending(Levels(book.asks))
    OBVIOUS
<1>3. Levels(book.bids) \in Seq(Readable) /\ Levels(book.asks) \in Seq(Readable)
    BY SidesAreReadable
<1>4. PICK p : Arranges(p, bids, Levels(book.bids)) /\ InOrder(bids, "BUY")
    BY <1>1, <1>3, AscendingIs
<1>5. PICK o : Arranges(o, asks, Levels(book.asks)) /\ InOrder(asks, "SELL")
    BY <1>2, <1>3, DescendingIs
<1>6. SameLevels(bids, Levels(book.bids))
    BY <1>4, AsOften
<1>7. SameLevels(asks, Levels(book.asks))
    BY <1>5, AsOften
<1>8. \A j, k \in DOMAIN bids : j < k => bids[j].price <= bids[k].price
    <2>1. DOMAIN bids = 1..Len(bids)
        BY <1>4 DEF Arranges
    <2>2. QED
        BY <1>4, <2>1 DEF InOrder, Nearer
<1>9. \A j, k \in DOMAIN asks : j < k => asks[j].price >= asks[k].price
    <2>1. DOMAIN asks = 1..Len(asks)
        BY <1>5 DEF Arranges
    <2>2. QED
        BY <1>5, <2>1 DEF InOrder, Nearer
<1>10. AdaptBook(book).bids = bids /\ AdaptBook(book).asks = asks
    BY <1>1, <1>2 DEF AdaptBook
<1>11. QED
    BY <1>6, <1>7, <1>8, <1>9, <1>10 DEF KeepsItsLevels, SameLevels

(* The ends of a readable side. *)
LEMMA BestIs ==
    ASSUME NEW levels \in Seq(Readable), levels # <<>>
    PROVE  /\ BestBid(levels) \in Prices(levels) /\ BestAsk(levels) \in Prices(levels)
           /\ \A q \in Prices(levels) : q <= BestBid(levels) /\ BestAsk(levels) <= q
           /\ BestBid(levels) \in Nat /\ BestAsk(levels) \in Nat
<1>1. PICK sorted : sorted = Ascending(levels)
    OBVIOUS
<1>2. PICK p : Arranges(p, sorted, levels) /\ InOrder(sorted, "BUY")
    BY <1>1, AscendingIs
<1>3. PICK n : n = Len(levels)
    OBVIOUS
<1>4. /\ n \in Nat /\ DOMAIN levels = 1..n /\ Len(sorted) = n
      /\ \A k \in 1..n : /\ p[k] \in 1..n /\ sorted[k] = levels[p[k]]
                         /\ sorted[k].price \in Nat
      /\ \A i \in 1..n : \E k \in 1..n : p[k] = i
    <2>1. Arranges(p, sorted, levels)
        BY <1>2
    <2> HIDE <1>1
    <2>2. QED
        BY <1>3, <2>1, ArrangedAre
<1>5. 1 \in 1..n /\ n \in 1..n
    BY <1>3, <1>4
<1>6. PICK S : S = Prices(levels)
    OBVIOUS
<1>7. S = {sorted[k].price : k \in 1..n}
    <2>1. \A i \in 1..n : \E k \in 1..n : levels[i].price = sorted[k].price
        <3>1. TAKE i \in 1..n
        <3>2. PICK k \in 1..n : p[k] = i
            BY <1>4
        <3>3. QED
            BY <1>4, <3>2
    <2>2. S = {levels[i].price : i \in 1..n}
        BY <1>4, <1>6 DEF Prices
    <2>3. \A k \in 1..n : \E i \in 1..n : sorted[k].price = levels[i].price
        BY <1>4
    <2>4. ASSUME NEW x \in S PROVE \E k \in 1..n : x = sorted[k].price
        <3>1. PICK i \in 1..n : x = levels[i].price
            BY <2>2
        <3>2. QED
            BY <2>1, <3>1
    <2>5. \A k \in 1..n : sorted[k].price \in S
        BY <2>2, <2>3
    <2>6. QED
        BY <2>4, <2>5
<1>8. \A k \in 1..n : sorted[1].price <= sorted[k].price /\ sorted[k].price <= sorted[n].price
    <2>1. TAKE k \in 1..n
    <2>2. k = 1 \/ 1 < k
        OBVIOUS
    <2>3. k = n \/ k < n
        BY <1>4
    <2>4. 1 < k => sorted[1].price <= sorted[k].price
        BY <1>2, <1>4, <1>5 DEF InOrder, Nearer
    <2>5. k < n => sorted[k].price <= sorted[n].price
        BY <1>2, <1>4, <1>5 DEF InOrder, Nearer
    <2>6. sorted[1].price \in Nat /\ sorted[n].price \in Nat /\ sorted[k].price \in Nat
        BY <1>4, <1>5
    <2>7. QED
        BY <2>2, <2>3, <2>4, <2>5, <2>6
<1>9. /\ sorted[n].price \in S /\ \A q \in S : q <= sorted[n].price
      /\ sorted[1].price \in S /\ \A q \in S : sorted[1].price <= q
    BY <1>5, <1>7, <1>8
<1>10. ASSUME NEW q \in S PROVE q \in Nat
    <2>1. PICK k \in 1..n : q = sorted[k].price
        BY <1>7
    <2>2. QED
        BY <1>4, <2>1
<1>11. Max(S) \in S /\ \A q \in S : q <= Max(S)
    <2>1. Max(S) = CHOOSE x \in S : \A y \in S : x >= y
        BY DEF Max
    <2>2. \E x \in S : \A y \in S : x >= y
        BY <1>9, <1>10
    <2>3. Max(S) \in S /\ \A y \in S : Max(S) >= y
        BY <2>1, <2>2
    <2>4. QED
        BY <1>10, <2>3
<1>12. Min(S) \in S /\ \A q \in S : Min(S) <= q
    <2>1. Min(S) = CHOOSE x \in S : \A y \in S : x <= y
        BY DEF Min
    <2>2. \E x \in S : \A y \in S : x <= y
        BY <1>9
    <2>3. QED
        BY <2>1, <2>2
<1>13. QED
    BY <1>6, <1>10, <1>11, <1>12 DEF BestBid, BestAsk

(* A scalar of a book, by op and client, is of its best levels. *)
LEMMA ScalarIs ==
    ASSUME NEW book \in Snapshots, NEW r, NEW value,
           \/ call.op = "mid" /\ value = IF client = "clob" THEN Midpoint(book)
                                         ELSE OrZero(Midpoint(book))
           \/ call.op = "spread" /\ value = IF client = "clob" THEN Spread(book)
                                            ELSE OrZero(Spread(book))
           \/ call.op = "price" /\ value = IF client = "clob" THEN ClobPrice(book, r.side)
                                           ELSE OrZero(PublicPrice(book, r.side))
    PROVE  IsOfTheBestLevels(value, book, r)
<1>1. PICK bids : bids = Levels(book.bids)
    OBVIOUS
<1>2. PICK asks : asks = Levels(book.asks)
    OBVIOUS
<1>3. bids \in Seq(Readable) /\ asks \in Seq(Readable)
    BY <1>1, <1>2, SidesAreReadable
<1>4. BothSides(book) <=> bids # <<>> /\ asks # <<>>
    BY <1>1, <1>2 DEF BothSides
<1>5. None \notin Int
    BY SnapshotsAssumption
<1>6. CASE BothSides(book)
    <2>1. PICK bid : bid = BestBid(bids)
        OBVIOUS
    <2>2. PICK ask : ask = BestAsk(asks)
        OBVIOUS
    <2>3. bid \in Nat /\ bid \in Prices(bids) /\ \A q \in Prices(bids) : q <= bid
        BY <1>3, <1>4, <1>6, <2>1, BestIs
    <2>4. ask \in Nat /\ ask \in Prices(asks) /\ \A q \in Prices(asks) : ask <= q
        BY <1>3, <1>4, <1>6, <2>2, BestIs
    <2>5. AreBest(bid, ask, book)
        BY <1>1, <1>2, <2>3, <2>4 DEF AreBest
    <2>6. Midpoint(book) = bid + ask /\ Spread(book) = ask - bid
        BY <1>1, <1>2, <1>6, <2>1, <2>2 DEF Midpoint, Spread
    <2>7. /\ PublicPrice(book, r.side) = IF r.side = "BUY" THEN ask ELSE bid
          /\ ClobPrice(book, r.side) = IF Upper(r.side) = "BUY" THEN bid ELSE ask
        BY <1>1, <1>2, <2>1, <2>2 DEF PublicPrice, ClobPrice
    <2>8. \A x \in Int : OrZero(x) = x
        BY <1>5 DEF OrZero
    <2>9. value = ScalarOf(r, bid, ask)
        <3>1. CASE call.op = "mid"
            <4>1. bid + ask \in Int
                BY <2>3, <2>4
            <4>2. value = bid + ask
                BY <2>6, <2>8, <3>1, <4>1
            <4>3. QED
                BY <3>1, <4>2 DEF ScalarOf
        <3>2. CASE call.op = "spread"
            <4>1. ask - bid \in Int
                BY <2>3, <2>4
            <4>2. value = ask - bid
                BY <2>6, <2>8, <3>2, <4>1
            <4>3. QED
                BY <3>2, <4>2 DEF ScalarOf
        <3>3. CASE call.op = "price"
            <4>1. ask \in Int /\ bid \in Int
                BY <2>3, <2>4
            <4>2. value = IF client = "clob" THEN IF Upper(r.side) = "BUY" THEN bid ELSE ask
                          ELSE IF r.side = "BUY" THEN ask ELSE bid
                BY <2>7, <2>8, <3>3, <4>1
            <4>3. QED
                BY <3>3, <4>2 DEF ScalarOf
        <3>4. QED
            BY <3>1, <3>2, <3>3
    <2>10. QED
        BY <1>1, <1>2, <1>6, <2>3, <2>4, <2>5, <2>9 DEF IsOfTheBestLevels
<1>7. CASE ~BothSides(book)
    <2>1. Midpoint(book) = None /\ Spread(book) = None /\ OrZero(None) = 0
        BY <1>7 DEF Midpoint, Spread, OrZero
    <2>2. call.op # "price" => value = IF client = "clob" THEN None ELSE 0
        BY <2>1
    <2>3. QED
        BY <1>7, <2>2 DEF IsOfTheBestLevels
<1>8. QED
    BY <1>6, <1>7
-----------------------------------------------------------------------------
(* What is told of books. *)

(* An answer of a request is right.                                          *)
IsRight(answer, r) ==
    /\ answer.kind = "book" =>
         /\ call.op = "book" => KeepsItsLevels(answer.value, answer.book)
         /\ call.op \in {"mid", "spread", "price"} =>
              IsOfTheBestLevels(answer.value, answer.book, r)
         /\ call.op = "average" => IsOfTheBestShares(answer.value, answer.book, r)
         /\ call.op = "estimate" =>
              /\ answer.book \in Snapshots /\ r.target \in Int /\ ValidEstimate(r)
              /\ answer.value = EstimateFromBook(answer.book, r)
    /\ answer.kind # "book" /\ call.op = "estimate" => answer.value = None

QInv ==
    /\ \A i \in DOMAIN out : IsRight(out[i], call.requests[i])
    /\ fok # "killed"

(* What the server has can be asked for.                                     *)
LEMMA BooksAreShown ==
    ASSUME IInv, BInv, ~Finished, call.requests # <<>>,
           NEW of, of = Shows(BookRoute(Next1.token)), of # <<>>
    PROVE  books[of] \in Snapshots
<1>1. of = Outcome[Next1.token] /\ Next1.token \in DOMAIN Outcome
    BY RequestUnderWay, RouteLeadsHome DEF Next1
<1>2. of \in DOMAIN books
    BY <1>1 DEF BInv, Range
<1>3. QED
    BY <1>2 DEF BInv, TypeOK

(* A right answer leaves all answers right.                                  *)
LEMMA AnswerIsRight ==
    ASSUME IInv, QInv, ~Finished, Kept,
           NEW kind, NEW of, NEW book, NEW value, Answer(kind, of, book, value),
           NEW answer, answer = [kind |-> kind, of |-> of, book |-> book, value |-> value],
           IsRight(answer, Next1)
    PROVE  QInv'
<1>1. PICK S : out \in Seq(S)
    BY DEF IInv, OutIsASequence
<1>2. out' = Append(out, answer)
    BY DEF Answer
<1>3. /\ DOMAIN out = 1..Len(out) /\ Len(out) \in Nat
      /\ DOMAIN out' = 1..(Len(out) + 1)
      /\ \A i \in 1..Len(out) : out'[i] = out[i]
      /\ out'[Len(out) + 1] = answer
    BY <1>1, <1>2, Added
<1>4. call' = call /\ client' = client /\ fok' = fok
    BY DEF Kept
<1>5. ASSUME NEW i \in DOMAIN out' PROVE IsRight(out[i], call.requests[i])'
    <2>1. ASSUME NEW a, NEW r, IsRight(a, r) PROVE IsRight(a, r)'
        BY <1>4, <2>1 DEF IsRight, IsOfTheBestLevels, ScalarOf
    <2>2. CASE i = Len(out) + 1
        <3>1. out'[i] = answer /\ call'.requests[i] = Next1
            BY <1>3, <1>4, <2>2 DEF Next1
        <3>2. IsRight(answer, Next1)
            OBVIOUS
        <3>3. PICK r : r = Next1
            OBVIOUS
        <3>4. IsRight(answer, r)'
            BY <2>1, <3>2, <3>3
        <3>5. QED
            BY <3>1, <3>3, <3>4 DEF IsRight, IsOfTheBestLevels
    <2>3. CASE i # Len(out) + 1
        <3>1. i \in DOMAIN out /\ out'[i] = out[i] /\ call'.requests[i] = call.requests[i]
            BY <1>3, <1>4, <2>3
        <3>2. PICK a, r : a = out[i] /\ r = call.requests[i] /\ IsRight(a, r)
            BY <3>1 DEF QInv
        <3>3. IsRight(a, r)'
            BY <2>1, <3>2
        <3>4. QED
            BY <3>1, <3>2, <3>3 DEF IsRight, IsOfTheBestLevels
    <2>4. QED
        BY <2>2, <2>3
<1>6. QED
    BY <1>4, <1>5 DEF QInv

(* So does a GET of a book whose value is right, whatever the book.          *)
LEMMA GetIsRight ==
    ASSUME IInv, BInv, QInv, ~Finished, Kept, call.requests # <<>>,
           NEW value, Get(Next1.token, value),
           \A book \in Snapshots : \A of :
               IsRight([kind |-> "book", of |-> of, book |-> book, value |-> value[book]], Next1)
    PROVE  QInv'
<1>1. PICK of : of = Shows(BookRoute(Next1.token))
    OBVIOUS
<1>2. CASE of # <<>> /\ Answer("book", of, books[of], value[books[of]])
    <2>1. PICK book \in Snapshots : book = books[of]
        BY <1>1, <1>2, BooksAreShown
    <2>2. PICK answer : answer = [kind |-> "book", of |-> of, book |-> book,
                                  value |-> value[book]]
        OBVIOUS
    <2>3. IsRight(answer, Next1)
        BY <2>2
    <2>4. Answer("book", of, book, value[book])
        BY <1>2, <2>1
    <2>5. QED
        BY <2>2, <2>3, <2>4, AnswerIsRight
<1>3. CASE Answer("error", <<>>, Nothing, None)
    <2>1. PICK answer : answer = [kind |-> "error", of |-> <<>>, book |-> Nothing,
                                  value |-> None]
        OBVIOUS
    <2>2. answer.kind = "error" /\ answer.value = None
        BY <2>1
    <2>3. IsRight(answer, Next1)
        BY <2>2 DEF IsRight
    <2>4. QED
        BY <1>3, <2>1, <2>3, AnswerIsRight
<1>4. QED
    BY <1>1, <1>2, <1>3 DEF Get

(* An answer that is no book is right when it tells no estimate.             *)
LEMMA OtherIsRight ==
    ASSUME IInv, QInv, ~Finished, Kept,
           NEW kind, NEW of, NEW book, NEW value, Answer(kind, of, book, value),
           call.op \notin {"book", "mid", "spread", "price", "average"},
           call.op = "estimate" => kind # "book" /\ value = None
    PROVE  QInv'
<1>1. PICK answer : answer = [kind |-> kind, of |-> of, book |-> book, value |-> value]
    OBVIOUS
<1>2. answer.kind = kind /\ answer.value = value
    BY <1>1
<1>3. IsRight(answer, Next1)
    BY <1>2 DEF IsRight
<1>4. QED
    BY <1>1, <1>3, AnswerIsRight

(* An error is right, whatever the call. *)
LEMMA ErrorIsRight ==
    ASSUME IInv, QInv, ~Finished, Kept, Answer("error", <<>>, Nothing, None)
    PROVE  QInv'
<1>1. PICK answer : answer = [kind |-> "error", of |-> <<>>, book |-> Nothing, value |-> None]
    OBVIOUS
<1>2. answer.kind = "error" /\ answer.value = None
    BY <1>1
<1>3. IsRight(answer, Next1)
    BY <1>2 DEF IsRight
<1>4. QED
    BY <1>1, <1>3, AnswerIsRight

(* Books and scalars of the typed clients.                                   *)
LEMMA TypedReadRight ==
    ASSUME IInv, BInv, QInv, NEW c, c # "clob", TypedRead(c)
    PROVE  QInv'
<1>1. /\ ~Finished /\ Kept /\ client = c
      /\ call.op \in {"book", "mid", "spread", "price", "last"}
    BY DEF TypedRead, Reading, Kept
<1>2. CASE ~ValidRequests(call) \/ IsEmpty(Next1.token)
    <2>1. Answer("error", <<>>, Nothing, None)
        BY <1>2 DEF TypedRead
    <2>2. QED
        BY <1>1, <2>1, ErrorIsRight
<1>3. CASE ~(~ValidRequests(call) \/ IsEmpty(Next1.token))
    <2> DEFINE value == [book \in Snapshots |->
              CASE call.op = "book" -> AdaptBook(book)
                [] call.op = "mid" -> OrZero(Midpoint(book))
                [] call.op = "spread" -> OrZero(Spread(book))
                [] call.op = "last" -> OrZero(LastTrade(book))
                [] call.op = "price" -> OrZero(PublicPrice(book, Next1.side))]
    <2>1. Get(Next1.token, value)
        BY <1>3 DEF TypedRead
    <2>2. call.requests # <<>>
        BY <1>3 DEF ValidRequests
    <2>3. ASSUME NEW book \in Snapshots
          PROVE  /\ call.op = "book" => value[book] = AdaptBook(book)
                 /\ call.op = "mid" => value[book] = OrZero(Midpoint(book))
                 /\ call.op = "spread" => value[book] = OrZero(Spread(book))
                 /\ call.op = "price" => value[book] = OrZero(PublicPrice(book, Next1.side))
        OBVIOUS
    <2> HIDE DEF value
    <2>4. ASSUME NEW book \in Snapshots, NEW of
          PROVE  IsRight([kind |-> "book", of |-> of, book |-> book,
                          value |-> value[book]], Next1)
        <3>1. PICK v : v = value[book]
            OBVIOUS
        <3>2. PICK answer : answer = [kind |-> "book", of |-> of, book |-> book, value |-> v]
            OBVIOUS
        <3>3. answer.kind = "book" /\ answer.book = book /\ answer.value = v
            BY <3>2
        <3>4. call.op = "book" => KeepsItsLevels(v, book)
            BY <2>3, <3>1, AdaptedIs
        <3>5. call.op \in {"mid", "spread", "price"} => IsOfTheBestLevels(v, book, Next1)
            BY <1>1, <2>3, <3>1, ScalarIs
        <3>6. IsRight(answer, Next1)
            BY <1>1, <3>3, <3>4, <3>5 DEF IsRight
        <3>7. QED
            BY <3>1, <3>2, <3>6
    <2>5. QED
        BY <1>1, <2>1, <2>2, <2>4, GetIsRight
<1>4. QED
    BY <1>2, <1>3

(* Estimates, of targets that are numbers.                                   *)
LEMMA EstimateRight ==
    ASSUME IInv, BInv, QInv, NEW clients, EstimateOf(clients)
    PROVE  QInv'
<1>1. ~Finished /\ Kept /\ call.op = "estimate"
    BY DEF EstimateOf, Reading, Kept
<1>2. CASE ~ValidEstimate(Next1)
    <2>1. Answer("error", <<>>, Nothing, None)
        BY <1>2 DEF EstimateOf
    <2>2. QED
        BY <1>1, <2>1, ErrorIsRight
<1>3. CASE ValidEstimate(Next1)
    <2> DEFINE value == [book \in Snapshots |-> EstimateFromBook(book, Next1)]
    <2>1. Get(Next1.token, value)
        BY <1>3 DEF EstimateOf
    <2>2. call.requests # <<>>
        BY <1>1, RequestUnderWay, RequestsAssumption
    <2>3. Next1.target \in Int
        BY <1>1, <2>2, RequestUnderWay, TargetsAssumption DEF Next1
    <2>4. \A book \in Snapshots : value[book] = EstimateFromBook(book, Next1)
        OBVIOUS
    <2> HIDE DEF value
    <2>5. ASSUME NEW book \in Snapshots, NEW of
          PROVE  IsRight([kind |-> "book", of |-> of, book |-> book,
                          value |-> value[book]], Next1)
        <3>1. PICK answer : answer = [kind |-> "book", of |-> of, book |-> book,
                                      value |-> value[book]]
            OBVIOUS
        <3>2. answer.kind = "book" /\ answer.book = book /\ answer.value = value[book]
            BY <3>1
        <3>3. IsRight(answer, Next1)
            BY <1>1, <1>3, <2>3, <2>4, <3>2 DEF IsRight
        <3>4. QED
            BY <3>1, <3>3
    <2>6. QED
        BY <1>1, <2>1, <2>2, <2>5, GetIsRight
<1>4. QED
    BY <1>2, <1>3

(* Scalars of the drop-in.                                                   *)
LEMMA ClobReadRight ==
    ASSUME IInv, BInv, QInv, ClobRead
    PROVE  QInv'
<1>1. ~Finished /\ Kept /\ client = "clob" /\ call.op \in {"mid", "spread", "price"}
    BY DEF ClobRead, Reading, Kept
<1>2. call.requests # <<>>
    BY <1>1, RequestUnderWay, RequestsAssumption
<1> DEFINE value == [book \in Snapshots |->
          CASE call.op = "mid" -> Midpoint(book)
            [] call.op = "spread" -> Spread(book)
            [] call.op = "price" -> ClobPrice(book, Next1.side)]
<1>3. Get(Next1.token, value)
    BY DEF ClobRead
<1>4. ASSUME NEW book \in Snapshots
      PROVE  /\ call.op = "mid" => value[book] = Midpoint(book)
             /\ call.op = "spread" => value[book] = Spread(book)
             /\ call.op = "price" => value[book] = ClobPrice(book, Next1.side)
    OBVIOUS
<1> HIDE DEF value
<1>5. ASSUME NEW book \in Snapshots, NEW of
      PROVE  IsRight([kind |-> "book", of |-> of, book |-> book, value |-> value[book]], Next1)
    <2>1. PICK v : v = value[book]
        OBVIOUS
    <2>2. PICK answer : answer = [kind |-> "book", of |-> of, book |-> book, value |-> v]
        OBVIOUS
    <2>3. answer.kind = "book" /\ answer.book = book /\ answer.value = v
        BY <2>2
    <2>4. IsOfTheBestLevels(v, book, Next1)
        BY <1>1, <1>4, <2>1, ScalarIs
    <2>5. IsRight(answer, Next1)
        BY <1>1, <2>3, <2>4 DEF IsRight
    <2>6. QED
        BY <2>1, <2>2, <2>5
<1>6. QED
    BY <1>1, <1>2, <1>3, <1>5, GetIsRight

(* Averages of the drop-in.                                                  *)
LEMMA ClobAverageRight ==
    ASSUME IInv, BInv, QInv, ClobAverage
    PROVE  QInv'
<1>1. ~Finished /\ Kept /\ client = "clob" /\ call.op = "average"
    BY DEF ClobAverage, Reading, Kept
<1>2. call.requests # <<>>
    BY <1>1, RequestUnderWay, RequestsAssumption
<1>3. Next1.target \in Nat
    BY <1>1, <1>2, RequestUnderWay, TargetsAssumption DEF Next1
<1> DEFINE value == [book \in Snapshots |-> CalculateMarketPrice(book, Next1)]
<1>4. Get(Next1.token, value)
    BY DEF ClobAverage
<1>5. \A book \in Snapshots : value[book] = CalculateMarketPrice(book, Next1)
    OBVIOUS
<1> HIDE DEF value
<1>6. ASSUME NEW book \in Snapshots, NEW of
      PROVE  IsRight([kind |-> "book", of |-> of, book |-> book, value |-> value[book]], Next1)
    <2>1. PICK v : v = value[book]
        OBVIOUS
    <2>2. PICK answer : answer = [kind |-> "book", of |-> of, book |-> book, value |-> v]
        OBVIOUS
    <2>3. answer.kind = "book" /\ answer.book = book /\ answer.value = v
        BY <2>2
    <2>4. v = CalculateMarketPrice(book, Next1)
        BY <1>5, <2>1
    <2>5. IsOfTheBestShares(v, book, Next1)
        BY <1>3, <2>4, AverageIs
    <2>6. IsRight(answer, Next1)
        BY <1>1, <2>3, <2>5 DEF IsRight
    <2>7. QED
        BY <2>1, <2>2, <2>6
<1>7. QED
    BY <1>1, <1>2, <1>4, <1>6, GetIsRight

(* The cache, and the last trade, tell nothing of the levels of a book.      *)
LEMMA OtherReadRight ==
    ASSUME IInv, QInv, ClobLast \/ GetTickSize \/ ClearTickSizeCache
    PROVE  QInv'
<1>1. ~Finished /\ Kept /\ call.op \in {"last", "tick", "clear"}
    BY DEF ClobLast, GetTickSize, ClearTickSizeCache, Reading, Kept
<1>2. PICK kind, of, book, value : Answer(kind, of, book, value)
    BY DEF ClobLast, GetTickSize, ClearTickSizeCache, Get
<1>3. QED
    BY <1>1, <1>2, OtherIsRight

(* The order sent with an estimate fills, unless the book has moved.         *)
LEMMA PlaceFokRight ==
    ASSUME IInv, QInv, PlaceFok
    PROVE  QInv'
<1>1. /\ call.op = "estimate" /\ Finished
      /\ call.requests[1].type = "FOK" /\ out[1].value # None
      /\ fok' = IF Fills(books[out[1].of], call.requests[1], out[1].value)
                THEN "filled"
                ELSE IF books[out[1].of] = out[1].book THEN "killed" ELSE "outrun"
      /\ UNCHANGED <<client, call, out>>
    BY DEF PlaceFok
<1>2. 1 \in DOMAIN out
    <2>1. PICK S : out \in Seq(S)
        BY DEF IInv, OutIsASequence
    <2>2. call \in Calls[client] /\ client \in Clients
        BY <1>1 DEF IInv, CallIsOne, Idle
    <2>3. call.requests \in Seq(Range(call.requests)) /\ call.requests # <<>>
        BY <1>1, <2>2, RequestsAssumption
    <2>4. Len(call.requests) \in Nat /\ Len(call.requests) >= 1
        BY <2>3
    <2>5. Max({1, Len(call.requests)}) = Len(call.requests)
        BY <2>4 DEF Max
    <2>6. ~Failed
        BY DEF PlaceFok
    <2>7. Len(out) >= Len(call.requests)
        BY <1>1, <2>5, <2>6 DEF Finished
    <2>8. QED
        BY <2>1, <2>4, <2>7
<1>3. PICK book : book = out[1].book
    OBVIOUS
<1>4. PICK r : r = call.requests[1]
    OBVIOUS
<1>5. PICK e : e = out[1].value
    OBVIOUS
<1>6. IsRight(out[1], r)
    BY <1>2, <1>4 DEF QInv
<1>7. book \in Snapshots /\ r.target \in Int /\ ValidEstimate(r) /\ e = EstimateFromBook(book, r)
    BY <1>1, <1>3, <1>5, <1>6 DEF IsRight
<1>8. Fills(book, r, e)
    BY <1>1, <1>4, <1>5, <1>7, EstimateFills
<1>9. fok' # "killed"
    BY <1>1, <1>3, <1>4, <1>5, <1>8
<1>10. QED
    BY <1>1, <1>9 DEF QInv, IsRight, IsOfTheBestLevels, ScalarOf

(* What is told of books is right, in every state.                           *)
THEOREM QuotesTheorem == Spec => []QInv
<1>1. Init => QInv
    <2> SUFFICES ASSUME Init PROVE QInv
        OBVIOUS
    <2>1. DOMAIN out = {} /\ fok = "none"
        BY DEF Init
    <2>2. QED
        BY <2>1 DEF QInv
<1>2. IInv /\ BInv /\ QInv /\ [Next]_vars => QInv'
    <2> SUFFICES ASSUME IInv, BInv, QInv, [Next]_vars PROVE QInv'
        OBVIOUS
    <2>1. CASE Begin
        <3>1. DOMAIN out' = {} /\ fok' = "none"
            BY <2>1 DEF Begin
        <3>2. QED
            BY <3>1 DEF QInv
    <2>2. CASE PublicRead \/ AsyncRead \/ SecureRead \/ AsyncSecureRead
        BY <2>2, TypedReadRight DEF PublicRead, AsyncRead, SecureRead, AsyncSecureRead
    <2>3. CASE Estimate \/ AsyncEstimate
        BY <2>3, EstimateRight DEF Estimate, AsyncEstimate
    <2>4. CASE BookMoves \/ Done \/ UNCHANGED vars
        <3>1. UNCHANGED <<client, call, out, fok>>
            BY <2>4 DEF BookMoves, Done, vars
        <3>2. QED
            BY <3>1 DEF QInv, IsRight, IsOfTheBestLevels, ScalarOf
    <2>5. QED
        BY <2>1, <2>2, <2>3, <2>4, ClobReadRight, ClobAverageRight, OtherReadRight,
           PlaceFokRight
        DEF Next
<1>3. QED
    BY <1>1, <1>2, TickTheorem, ReadsTheorem, PTL DEF Spec

(* Whatever is quoted of a book, in whatever order the server lists it, is of *)
(* its best levels: the book keeps every level and is sorted, spread, midpoint *)
(* and price are of the best bid and ask, and the average walks the best     *)
(* shares (adapt_book, the scalar reads, calculate_market_price).            *)
THEOREM QuotesAreBest == Spec => []QuotesAreOfTheBestLevels
<1>1. QInv => QuotesAreOfTheBestLevels
    BY DEF QInv, IsRight, QuotesAreOfTheBestLevels, BookKeepsItsLevels,
       ScalarsAreOfTheBestLevels, AverageIsOfTheBestShares, Told
<1>2. QED
    BY <1>1, QuotesTheorem, PTL

(* An estimate is the worst price its order has to touch, neither more nor   *)
(* less, and a FOK order that is sent with it fills while the book is the    *)
(* one that was read (estimate_market_price, marginal_price).                *)
THEOREM EstimatesAreExact == Spec => []EstimatesCanBeTradedAt
<1>1. QInv => EstimatesCanBeTradedAt
    <2> SUFFICES ASSUME QInv PROVE EstimatesCanBeTradedAt
        OBVIOUS
    <2>1. ASSUME NEW i \in Told("estimate"), out[i].value # None
          PROVE  IsTheWorstTouched(out[i].value, out[i].book, call.requests[i])
        <3>1. PICK book : book = out[i].book
            OBVIOUS
        <3>2. PICK r : r = call.requests[i]
            OBVIOUS
        <3>3. PICK e : e = out[i].value
            OBVIOUS
        <3>4. /\ book \in Snapshots /\ r.target \in Int /\ ValidEstimate(r)
              /\ e = EstimateFromBook(book, r) /\ e # None
            BY <2>1, <3>1, <3>2, <3>3 DEF QInv, IsRight, Told
        <3>5. PICK levels : levels = Opposite(book, r.side)
            OBVIOUS
        <3>6. /\ e \in Prices(levels) /\ e \in Nat
              /\ \/ HeldUpTo(book, r, e) >= r.target
                 \/ r.type = "FAK" /\ UpTo(levels, r.side, e) = DOMAIN levels
              /\ \A q \in Prices(levels) :
                   (IF r.side = "BUY" THEN q < e ELSE q > e) =>
                      HeldUpTo(book, r, q) < r.target
            BY <3>4, <3>5, TouchedIsTheWorst
        <3>7. IsTheWorstTouched(e, book, r)
            BY <3>5, <3>6 DEF IsTheWorstTouched
        <3>8. QED
            BY <3>1, <3>2, <3>3, <3>7
    <2>2. QED
        BY <2>1 DEF QInv, EstimatesCanBeTradedAt, EstimateIsTheWorstTouched,
            FokAtTheEstimateFills
<1>2. QED
    BY <1>1, QuotesTheorem, PTL
===============================================================================
