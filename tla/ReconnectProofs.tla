--------------------------- MODULE ReconnectProofs ---------------------------
(***************************************************************************)
(* Theorems about the reconnecting streams, for every first back-off, cap,  *)
(* limit and bound.                                                         *)
(***************************************************************************)
EXTENDS Reconnect, WellFoundedInduction, TLAPS

(* The loop's counter is the number of errors of the stream's life, and it   *)
(* runs as long as that is within the limit.                                 *)
Counting ==
    /\ attempts = errors
    /\ phase = "ended" <=> outcome # "none"
    /\ outcome # "exhausted" => (Bounded => errors <= MaxReconnects)
    /\ outcome = "exhausted" => Bounded /\ errors > MaxReconnects

(* Every line in the buffer came on the present connection.                  *)
OwnLines == \A k \in DOMAIN buf : buf[k] = "this"

(* What is said of the token, that a stream has used its own, and that the    *)
(* server-sent events have none.                                             *)
TokenInv ==
    /\ TokenIsFresh
    /\ ~WebSocket => token = "none" /\ phase # "minting"
    /\ phase = "streaming" => token # "fresh"

IInv == TypeOK /\ Counting /\ OwnLines /\ EventsAreWhole /\ TokenInv

USE ReconnectAssumption DEF ReconnectAssumption

(* The arguments of a stream have their types, and a WebSocket's first       *)
(* back-off is one base interval.                                            *)
LEMMA Arguments ==
  ASSUME stream \in Streams
  PROVE  /\ WebSocket \in BOOLEAN /\ MinInterval \in Nat
         /\ Bounded \in BOOLEAN /\ MaxReconnects \in Nat
  BY DEF WebSocket, MinInterval, Bounded, MaxReconnects

(* No step changes them.                                                     *)
LEMMA SameArguments ==
  ASSUME stream' = stream
  PROVE  /\ WebSocket' <=> WebSocket
         /\ Bounded' <=> Bounded
         /\ MinInterval' = MinInterval
         /\ MaxReconnects' = MaxReconnects
  BY DEF WebSocket, MinInterval, Bounded, MaxReconnects

(* The initial states satisfy the invariant.                                 *)
LEMMA InitInv == Init => IInv
  <1> SUFFICES ASSUME Init PROVE IInv
    OBVIOUS
  <1>1. buf \in Seq({"this", "earlier"}) /\ Len(buf) = 0 /\ DOMAIN buf = {}
    BY DEF Init
  <1>2. /\ phase \in {"minting", "connecting"} /\ token = "none"
        /\ attempts = 0 /\ errors = 0 /\ failures = 0 /\ outcome = "none"
        /\ delay = 0 /\ torn = FALSE /\ connected = FALSE
        /\ server \in {"up", "down"}
        /\ phase = IF WebSocket THEN "minting" ELSE "connecting"
    BY DEF Init, FirstPhase
  <1>s. /\ stream \in Streams /\ WebSocket \in BOOLEAN /\ MinInterval \in Nat
        /\ Bounded \in BOOLEAN /\ MaxReconnects \in Nat
    BY Arguments DEF Init
  <1>3. backoff \in 0..Max(MinInterval, MaxBackoff)
    BY <1>s DEF Init, Max
  <1>4. TypeOK
    <2>1. buf \in Seq({"this", "earlier"}) /\ Len(buf) <= MaxLines
      BY <1>1
    <2>2. delay \in 0..MaxBackoff
      BY <1>2
    <2>3. torn \in BOOLEAN /\ connected \in BOOLEAN
      BY <1>2
    <2>4. /\ phase \in {"minting", "connecting", "streaming", "sleeping", "ended"}
          /\ token \in {"none", "fresh", "used"}
          /\ outcome \in {"none", "exhausted", "permanent", "mint", "abandoned"}
      BY <1>2
    <2> QED BY <1>2, <1>3, <1>s, <2>1, <2>2, <2>3, <2>4 DEF TypeOK
  <1>5. Counting /\ OwnLines /\ EventsAreWhole /\ TokenInv
    BY <1>1, <1>2, <1>s DEF Counting, OwnLines, EventsAreWhole, TokenInv,
                      TokenIsFresh
  <1> QED BY <1>4, <1>5 DEF IInv

(* The back-off stays between zero and the larger of its start and its cap.  *)
LEMMA BackoffRange ==
  ASSUME stream \in Streams, backoff \in 0..Max(MinInterval, MaxBackoff)
  PROVE  /\ Min(backoff, MaxBackoff) \in 0..MaxBackoff
         /\ Doubled \in 0..Max(MinInterval, MaxBackoff)
         /\ MinInterval \in 0..Max(MinInterval, MaxBackoff)
  BY Arguments DEF Min, Max, Doubled

(* The error path keeps the invariant, whatever the token was used for.      *)
LEMMA FailedInv ==
  ASSUME IInv, Failed, UNCHANGED <<bufferVars, connected, stream, server>>,
         phase \in {"connecting", "streaming"},
         token' = token \/ (WebSocket /\ token' = "used"),
         phase = "streaming" \/ ~WebSocket \/ token' = "used"
  PROVE  IInv'
  <1>0. /\ stream \in Streams /\ stream' = stream
        /\ WebSocket \in BOOLEAN /\ MinInterval \in Nat
        /\ Bounded \in BOOLEAN /\ MaxReconnects \in Nat
        /\ WebSocket' <=> WebSocket
        /\ Bounded' <=> Bounded
        /\ MinInterval' = MinInterval /\ MaxReconnects' = MaxReconnects
    BY Arguments, SameArguments DEF IInv, TypeOK
  <1> USE <1>0
  <1>1. TypeOK'
    BY BackoffRange DEF IInv, TypeOK, Failed, bufferVars
  <1>2. Counting'
    BY DEF IInv, TypeOK, Counting, Failed, GivesUp
  <1>3. OwnLines' /\ EventsAreWhole'
    BY DEF IInv, OwnLines, EventsAreWhole, bufferVars
  <1>4. TokenInv'
    BY DEF IInv, TypeOK, TokenInv, TokenIsFresh, Failed
  <1> QED BY <1>1, <1>2, <1>3, <1>4 DEF IInv

(* Every step of the stream keeps the invariant.                             *)
LEMMA NextInv == IInv /\ [Next]_vars => IInv'
  <1> SUFFICES ASSUME IInv, [Next]_vars PROVE IInv'
    OBVIOUS
  <1>s. stream \in Streams /\ stream' = stream
    BY DEF IInv, TypeOK, Next, LoopStep, StreamStep, Mint, MintFails, Refused,
           Connect, ConnectFails, Wake, Drop, CleanClose, Line, YieldEvent,
           Abandon, ServerChanges, vars
  <1>a. /\ WebSocket \in BOOLEAN /\ MinInterval \in Nat
        /\ Bounded \in BOOLEAN /\ MaxReconnects \in Nat
        /\ WebSocket' <=> WebSocket
        /\ Bounded' <=> Bounded
        /\ MinInterval' = MinInterval /\ MaxReconnects' = MaxReconnects
    BY <1>s, Arguments, SameArguments
  <1> USE <1>s, <1>a DEF IInv, TypeOK, Counting, OwnLines, EventsAreWhole,
              TokenInv, TokenIsFresh, FirstPhase, loopVars, bufferVars,
              historyVars
  <1>0. <<>> \in Seq({"this", "earlier"}) /\ Len(<<>>) = 0 /\ DOMAIN <<>> = {}
    OBVIOUS
  <1>1. CASE Mint
    BY <1>1 DEF Mint
  <1>2. CASE MintFails
    BY <1>2 DEF MintFails
  <1>3. CASE Refused
    BY <1>3 DEF Refused
  <1>4. CASE Connect
    BY <1>0, <1>4, BackoffRange DEF Connect
  <1>5. CASE ConnectFails
    BY <1>5, FailedInv DEF ConnectFails
  <1>6. CASE Wake
    BY <1>6 DEF Wake
  <1>7. CASE Drop
    BY <1>7, FailedInv DEF Drop
  <1>8. CASE CleanClose
    BY <1>8 DEF CleanClose
  <1>9. CASE Line
    BY <1>9 DEF Line
  <1>10. CASE YieldEvent
    BY <1>10 DEF YieldEvent
  <1>11. CASE Abandon
    BY <1>11 DEF Abandon
  <1>12. CASE ServerChanges
    BY <1>12 DEF ServerChanges, Outage
  <1>13. CASE UNCHANGED vars
    BY <1>13 DEF vars
  <1> QED
    BY <1>1, <1>2, <1>3, <1>4, <1>5, <1>6, <1>7, <1>8, <1>9, <1>10, <1>11,
       <1>12, <1>13 DEF Next, LoopStep, StreamStep

(* The invariant holds of every reachable state.                             *)
THEOREM SafetyTheorem == Spec => []IInv
  BY InitInv, NextInv, PTL DEF Spec

(* The variables of a stream keep their types; in particular the back-off    *)
(* and the wait never pass the cap (or the caller's own first interval).     *)
THEOREM TypeCorrect == Spec => []TypeOK
  <1>1. IInv => TypeOK  BY DEF IInv
  <1> QED BY <1>1, SafetyTheorem, PTL

(* Every WebSocket connection presents a token minted for it.                *)
THEOREM FreshTokens == Spec => []TokenIsFresh
  <1>1. IInv => TokenIsFresh  BY DEF IInv, TokenInv
  <1> QED BY <1>1, SafetyTheorem, PTL

(* A stream gives up at the first error past max_reconnects, neither sooner  *)
(* nor later, and never when there is no limit.                              *)
THEOREM ExactLimit == Spec => []GivesUpAtTheLimit
  <1>1. IInv => GivesUpAtTheLimit
    BY Arguments DEF IInv, TypeOK, Counting, GivesUpAtTheLimit
  <1> QED BY <1>1, SafetyTheorem, PTL

(* No event is made of lines of two connections.                             *)
THEOREM WholeEvents == Spec => []EventsAreWhole
  <1>1. IInv => EventsAreWhole  BY DEF IInv
  <1> QED BY <1>1, SafetyTheorem, PTL

(* Nothing of one connection is used by the next, neither its token nor the  *)
(* lines it left (the loops of ws.py and sse.py).                            *)
THEOREM ApartConnections == Spec => []ConnectionsAreApart
  <1>1. TokenIsFresh /\ EventsAreWhole => ConnectionsAreApart
    BY DEF ConnectionsAreApart
  <1> QED BY <1>1, FreshTokens, WholeEvents, PTL
-----------------------------------------------------------------------------
(* The back-off. *)

(* A set of numbers has a least one. *)
LEMMA Least ==
  ASSUME NEW T \in SUBSET Nat, T # {}
  PROVE  \E m \in T : \A n \in T : ~(n < m)
  <1> DEFINE R == OpToRel(<, Nat)
  <1>1. IsWellFoundedOn(R, Nat)
    BY NatLessThanWellFounded
  <1>2. \A m, n \in Nat : n < m => <<n, m>> \in R
    BY DEF OpToRel
  <1> HIDE DEF R
  <1>3. PICK m \in T : \A n \in T : <<n, m>> \notin R
    BY <1>1, WFMin
  <1> QED BY <1>2, <1>3

(* A set with zero and every successor of its members has every number.      *)
LEMMA Induct ==
  ASSUME NEW T \in SUBSET Nat, 0 \in T, \A n \in Nat : n \in T => n + 1 \in T
  PROVE  T = Nat
  <1>1. SUFFICES ASSUME Nat \ T # {} PROVE FALSE
    OBVIOUS
  <1>2. PICK m \in Nat \ T : \A n \in Nat \ T : ~(n < m)
    BY <1>1, Least
  <1>3. m # 0
    OBVIOUS
  <1>4. m - 1 \in T
    BY <1>2, <1>3
  <1> QED BY <1>2, <1>4

(* A table of the first powers of two. *)
Powers(f, n) == /\ f \in [0..n -> Nat] /\ f[0] = 1
                /\ \A k \in 1..n : f[k] = 2 * f[k - 1]

(* There is one of every length, ... *)
LEMMA TableOfPowers == \A n \in Nat : \E f : Powers(f, n)
  <1> DEFINE T == {n \in Nat : \E f : Powers(f, n)}
  <1>1. 0 \in T
    <2>1. Powers([k \in 0..0 |-> 1], 0)
      BY DEF Powers
    <2> QED BY <2>1
  <1>2. ASSUME NEW n \in Nat, n \in T PROVE n + 1 \in T
    <2>1. PICK f : Powers(f, n)
      BY <1>2
    <2> DEFINE g == [k \in 0..(n + 1) |-> IF k = n + 1 THEN 2 * f[n] ELSE f[k]]
    <2>2. f \in [0..n -> Nat] /\ f[n] \in Nat
      BY <2>1 DEF Powers
    <2>3. g \in [0..(n + 1) -> Nat] /\ g[0] = 1
      BY <2>1, <2>2 DEF Powers
    <2>4. \A k \in 1..(n + 1) : g[k] = 2 * g[k - 1]
      BY <2>1, <2>2 DEF Powers
    <2>5. Powers(g, n + 1)
      BY <2>3, <2>4 DEF Powers
    <2> QED BY <2>5
  <1> HIDE DEF T
  <1>3. T = Nat
    BY <1>1, <1>2, Induct DEF T
  <1> QED BY <1>3 DEF T

(* ... and two agree where both say something.                               *)
LEMMA TablesAgree ==
  ASSUME NEW m \in Nat, NEW n \in Nat, NEW f, NEW g, Powers(f, m), Powers(g, n)
  PROVE  \A k \in Nat : k <= m /\ k <= n => f[k] = g[k]
  <1> DEFINE T == {k \in Nat : k <= m /\ k <= n => f[k] = g[k]}
  <1>1. 0 \in T
    BY DEF Powers
  <1>2. ASSUME NEW k \in Nat, k \in T PROVE k + 1 \in T
    BY <1>2 DEF Powers
  <1> HIDE DEF T
  <1>3. T = Nat
    BY <1>1, <1>2, Induct DEF T
  <1> QED BY <1>3 DEF T

(* What the definition of PowerOfTwo says.                                   *)
LEMMA PowersDouble ==
  /\ PowerOfTwo[0] = 1
  /\ \A n \in Nat : PowerOfTwo[n] \in Nat /\ PowerOfTwo[n + 1] = 2 * PowerOfTwo[n]
  <1> DEFINE table(n) == CHOOSE f : Powers(f, n)
             P == [n \in Nat |-> table(n)[n]]
  <1>1. \A n \in Nat : Powers(table(n), n)
    BY TableOfPowers
  <1> HIDE DEF table
  <1>2. P[0] = 1
    BY <1>1 DEF Powers
  <1>3. ASSUME NEW n \in Nat PROVE P[n] \in Nat /\ P[n + 1] = 2 * P[n]
    <2>1. Powers(table(n), n) /\ Powers(table(n + 1), n + 1)
      BY <1>1
    <2>2. table(n)[n] = table(n + 1)[n]
      BY <2>1, TablesAgree
    <2>3. table(n + 1)[n + 1] = 2 * table(n + 1)[n]
      BY <2>1 DEF Powers
    <2>4. table(n)[n] \in Nat
      BY <2>1 DEF Powers
    <2> QED BY <2>2, <2>3, <2>4
  <1>4. P = [n \in Nat |-> IF n = 0 THEN 1 ELSE 2 * P[n - 1]]
    <2>1. \A n \in Nat : P[n] = IF n = 0 THEN 1 ELSE 2 * P[n - 1]
      <3> HIDE DEF P
      <3> QED BY <1>2, <1>3
    <2> QED BY <2>1
  <1>5. PowerOfTwo = [n \in Nat |-> IF n = 0 THEN 1 ELSE 2 * PowerOfTwo[n - 1]]
    <2> HIDE DEF P
    <2> DEFINE Q(p) == p = [n \in Nat |-> IF n = 0 THEN 1 ELSE 2 * p[n - 1]]
    <2>1. Q(P)
      BY <1>4
    <2>2. Q(CHOOSE p : Q(p))
      BY <2>1
    <2> QED BY <2>2 DEF PowerOfTwo
  <1> DEFINE W == {n \in Nat : PowerOfTwo[n] \in Nat}
  <1>6. /\ PowerOfTwo[0] = 1
        /\ \A n \in Nat : PowerOfTwo[n + 1] = 2 * PowerOfTwo[n]
    BY <1>5
  <1>7. 0 \in W /\ \A n \in Nat : n \in W => n + 1 \in W
    BY <1>6
  <1> HIDE DEF W
  <1>8. W = Nat
    BY <1>7, Induct DEF W
  <1> QED BY <1>6, <1>8 DEF W

(* A power of two is at least one. *)
LEMMA PowersAreWhole ==
  \A n \in Nat : PowerOfTwo[n] \in Nat \ {0}
  <1> DEFINE T == {n \in Nat : PowerOfTwo[n] \in Nat \ {0}}
  <1>1. 0 \in T /\ \A n \in Nat : n \in T => n + 1 \in T
    BY PowersDouble
  <1> HIDE DEF T
  <1>2. T = Nat
    BY <1>1, Induct DEF T
  <1> QED BY <1>2 DEF T

(* The back-off after n errors in a row. *)
BackoffAfter(n) ==
  IF n = 0 THEN MinInterval
  ELSE Min(Max(MinInterval, 1) * PowerOfTwo[n], MaxBackoff)

(* The loop doubles its variable, and caps it each time; the table is doubled *)
(* throughout and capped at the end: that is the same.                       *)
LEMMA DoubledIsTheNext ==
  ASSUME stream \in Streams, failures \in Nat, backoff = BackoffAfter(failures)
  PROVE  /\ Doubled = BackoffAfter(failures + 1)
         /\ Min(backoff, MaxBackoff) = WaitAfter(failures + 1)
  <1> DEFINE b == Max(MinInterval, 1)
             p == PowerOfTwo[failures]
  <1>1. MinInterval \in Nat /\ b \in Nat \ {0} /\ p \in Nat \ {0}
    BY Arguments, PowersAreWhole DEF Max
  <1>2. PowerOfTwo[failures + 1] = 2 * p /\ failures + 1 # 0
    BY PowersDouble
  <1>3. b * p \in Nat \ {0} /\ b * (2 * p) = 2 * (b * p)
    <2> HIDE DEF b, p
    <2> QED BY <1>1
  <1>4. BackoffAfter(failures + 1) = Min(2 * (b * p), MaxBackoff)
    BY <1>2, <1>3 DEF BackoffAfter
  <1>5. CASE failures = 0
    <2>1. p = 1 /\ backoff = MinInterval
      BY <1>5, PowersDouble DEF BackoffAfter
    <2>2. Doubled = Min(2 * b, MaxBackoff) /\ 2 * (b * p) = 2 * b
      BY <1>1, <2>1 DEF Doubled, Max
    <2>3. Min(backoff, MaxBackoff) = WaitAfter(failures + 1)
      BY <1>5, <2>1 DEF WaitAfter
    <2> QED BY <1>4, <2>2, <2>3
  <1>6. CASE failures # 0
    <2>1. backoff = Min(b * p, MaxBackoff)
      BY <1>6 DEF BackoffAfter
    <2>2. WaitAfter(failures + 1) = Min(b * p, MaxBackoff)
      <3>1. (failures + 1) - 1 = failures /\ failures + 1 # 1
        BY <1>6
      <3> QED BY <3>1 DEF WaitAfter
    <2> HIDE DEF b, p
    <2> DEFINE q == b * p
    <2>3. q \in Nat \ {0} /\ backoff = Min(q, MaxBackoff)
      BY <1>3, <2>1
    <2> HIDE DEF q
    <2>4. Doubled = Min(2 * q, MaxBackoff) /\ Min(backoff, MaxBackoff) = Min(q, MaxBackoff)
      BY <2>3 DEF Doubled, Min, Max
    <2> QED BY <1>4, <2>2, <2>4 DEF q
  <1> QED BY <1>5, <1>6

(* The back-off of a stream that runs says how many errors there were since  *)
(* the last connection, and so does the sleep that was taken from it.        *)
BackoffInv ==
  /\ phase = "streaming" => failures = 0
  /\ phase # "ended" => backoff = BackoffAfter(failures)
  /\ BackoffFollowsFailures

(* What a wait is depends on the stream and the number of errors only.       *)
LEMMA SameWaits ==
  ASSUME stream' = stream, NEW n, failures' = n
  PROVE  BackoffAfter(failures)' = BackoffAfter(n) /\ WaitAfter(failures)' = WaitAfter(n)
  <1>1. MinInterval' = MinInterval
    BY SameArguments
  <1> QED BY <1>1 DEF BackoffAfter, WaitAfter

(* The error path sleeps as long as the number of errors says.               *)
LEMMA FailedBackoff ==
  ASSUME TypeOK, BackoffInv, Failed, stream' = stream, phase # "ended"
  PROVE  BackoffInv'
  <1>1. /\ stream \in Streams /\ failures \in Nat /\ failures' = failures + 1
        /\ backoff = BackoffAfter(failures)
    BY DEF TypeOK, BackoffInv, Failed
  <1>2. /\ Doubled = BackoffAfter(failures + 1)
        /\ Min(backoff, MaxBackoff) = WaitAfter(failures + 1)
    BY <1>1, DoubledIsTheNext
  <1>3. /\ BackoffAfter(failures)' = BackoffAfter(failures + 1)
        /\ WaitAfter(failures)' = WaitAfter(failures + 1)
    BY <1>1, SameWaits
  <1>4. CASE GivesUp
    BY <1>4 DEF Failed, BackoffInv, BackoffFollowsFailures
  <1>5. CASE ~GivesUp
    <2>1. /\ phase' = "sleeping" /\ delay' = Min(backoff, MaxBackoff)
          /\ backoff' = Doubled
      BY <1>5 DEF Failed
    <2> QED BY <1>2, <1>3, <2>1 DEF BackoffInv, BackoffFollowsFailures
  <1> QED BY <1>4, <1>5

(* A step that counts no error and does not touch the back-off keeps it.     *)
LEMMA RestingBackoff ==
  ASSUME BackoffInv, phase # "ended", UNCHANGED <<stream, backoff, failures>>,
         phase' # "streaming" \/ phase = "streaming",
         phase' # "sleeping" \/ (phase = "sleeping" /\ delay' = delay)
  PROVE  BackoffInv'
  <1>1. /\ BackoffAfter(failures)' = BackoffAfter(failures)
        /\ WaitAfter(failures)' = WaitAfter(failures)
    BY SameWaits
  <1> QED BY <1>1 DEF BackoffInv, BackoffFollowsFailures

(* Every step does.                                                          *)
LEMMA NextBackoff == TypeOK /\ BackoffInv /\ [Next]_vars => BackoffInv'
  <1> SUFFICES ASSUME TypeOK, BackoffInv, [Next]_vars PROVE BackoffInv'
    OBVIOUS
  <1>1. CASE Connect
    <2>1. /\ stream' = stream /\ failures' = 0 /\ backoff' = MinInterval
          /\ phase' = "streaming"
      BY <1>1 DEF Connect
    <2>2. BackoffAfter(failures)' = BackoffAfter(0)
      BY <2>1, SameWaits
    <2> QED BY <2>1, <2>2 DEF BackoffInv, BackoffFollowsFailures, BackoffAfter
  <1>2. CASE ConnectFails \/ Drop
    BY <1>2, FailedBackoff DEF ConnectFails, Drop
  <1>3. CASE Mint \/ MintFails \/ Refused \/ Wake \/ CleanClose \/ Line
             \/ YieldEvent \/ Abandon
    <2>1. /\ phase # "ended" /\ UNCHANGED <<stream, backoff, failures>>
          /\ phase' # "streaming" \/ phase = "streaming"
          /\ phase' # "sleeping"
      BY <1>3 DEF Mint, MintFails, Refused, Wake, CleanClose, Line, YieldEvent,
         Abandon, FirstPhase, loopVars, historyVars
    <2> QED BY <2>1, RestingBackoff
  <1>4. CASE ServerChanges \/ UNCHANGED vars
    <2>1. UNCHANGED <<stream, phase, backoff, delay, failures>>
      BY <1>4 DEF ServerChanges, vars, loopVars, historyVars
    <2>2. /\ BackoffAfter(failures)' = BackoffAfter(failures)
          /\ WaitAfter(failures)' = WaitAfter(failures)
      BY <2>1, SameWaits
    <2> QED BY <2>1, <2>2 DEF BackoffInv, BackoffFollowsFailures
  <1> QED BY <1>1, <1>2, <1>3, <1>4 DEF Next, LoopStep, StreamStep

(* The wait after an error is the first interval doubled with each error     *)
(* since the last connection, and capped: the reset by a connection and the  *)
(* cap of the loop variable never make another of it (the error paths of     *)
(* _astream and of the two server-sent event loops).                         *)
THEOREM BackoffIsExponential == Spec => []BackoffFollowsFailures
  <1>1. Init => BackoffInv
    BY DEF Init, BackoffInv, BackoffAfter, BackoffFollowsFailures, FirstPhase
  <1>2. BackoffInv => BackoffFollowsFailures
    BY DEF BackoffInv
  <1> QED BY <1>1, <1>2, NextBackoff, TypeCorrect, PTL DEF Spec
=============================================================================
