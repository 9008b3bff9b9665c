------------------------------ MODULE Reconnect ------------------------------
(***************************************************************************)
(* The reconnecting streams of polysim_sdk: _astream for the WebSocket      *)
(* channels (ws.py) and spot_stream / aspot_stream for the server-sent      *)
(* events of /prices/stream (sse.py).  Both are one loop: mint a token (the *)
(* WebSocket only), connect, yield events until the connection ends, start  *)
(* over, after a back-off when it ended with an error.                      *)
(*                                                                         *)
(* Times are in half seconds, the unit of _BASE_BACKOFF_SECONDS.            *)
(***************************************************************************)
EXTENDS Naturals, Sequences

CONSTANTS
    Streams,        (* the kinds of stream there are, as records            *)
    MaxBackoff,     (* _MAX_BACKOFF_SECONDS                                 *)
    MaxLines,       (* bound: lines of one event block                      *)
    MaxErrors       (* bound: errors in the life of the stream              *)

ASSUME ReconnectAssumption ==
    /\ Streams \subseteq [webSocket : BOOLEAN, minInterval : Nat,
                          bounded : BOOLEAN, maxReconnects : Nat]
    /\ \A s \in Streams : s.webSocket => s.minInterval = 1
    /\ MaxBackoff \in Nat \ {0} /\ MaxLines \in Nat /\ MaxErrors \in Nat

VARIABLES
    stream,    (* the arguments the stream was opened with                  *)
    phase,     (* where the loop is                                         *)
    token,     (* the token in hand: none, fresh (never presented), used    *)
    attempts,  (* attempts                                                  *)
    backoff,   (* backoff                                                   *)
    delay,     (* what the loop sleeps, while it sleeps                     *)
    buf,       (* buf: the lines of the block being read, each by the       *)
               (* connection it came on: this one or an earlier one         *)
    outcome,   (* how the stream ended                                      *)
    server,    (* external: whether the server answers                      *)
    errors,    (* history: errors in the life of the stream                 *)
    failures,  (* history: errors since the last connection                 *)
    torn,      (* history: an event was made of lines of two connections    *)
    connected  (* history: the stream has been connected once               *)

loopVars == <<phase, token, attempts, backoff, delay, outcome>>
bufferVars == <<buf, torn>>
historyVars == <<errors, failures, connected>>
vars == <<stream, loopVars, bufferVars, historyVars, server>>

WebSocket == stream.webSocket          \* ws.py, else sse.py
MinInterval == stream.minInterval      \* reconnect_min_interval
Bounded == stream.bounded              \* whether max_reconnects is given
MaxReconnects == stream.maxReconnects  \* max_reconnects, when it is

Min(a, b) == IF a < b THEN a ELSE b
Max(a, b) == IF a > b THEN a ELSE b

TypeOK ==
    /\ stream \in Streams
    /\ phase \in {"minting", "connecting", "streaming", "sleeping", "ended"}
    /\ token \in {"none", "fresh", "used"}
    /\ attempts \in Nat /\ errors \in Nat /\ failures \in Nat
    /\ backoff \in 0..Max(MinInterval, MaxBackoff) /\ delay \in 0..MaxBackoff
    /\ buf \in Seq({"this", "earlier"}) /\ Len(buf) <= MaxLines
    /\ torn \in BOOLEAN /\ connected \in BOOLEAN
    /\ outcome \in {"none", "exhausted", "permanent", "mint", "abandoned"}
    /\ server \in {"up", "down"}

FirstPhase == IF WebSocket THEN "minting" ELSE "connecting"

Init ==
    /\ stream \in Streams
    /\ phase = FirstPhase /\ token = "none" /\ attempts = 0
    /\ backoff = MinInterval /\ delay = 0 /\ outcome = "none"
    /\ buf = <<>> /\ torn = FALSE
    /\ errors = 0 /\ failures = 0 /\ connected = FALSE
    /\ server \in {"up", "down"}

-----------------------------------------------------------------------------
(* Token and connection. *)

Mint ==
    /\ phase = "minting" /\ server = "up"
    /\ phase' = "connecting" /\ token' = "fresh"
    /\ UNCHANGED <<attempts, backoff, delay, outcome, bufferVars, historyVars,
                   stream, server>>

(* The transport has spent its retries: its ApiError is not caught by the    *)
(* loop.                                                                     *)
MintFails ==
    /\ phase = "minting" /\ server = "down"
    /\ phase' = "ended" /\ outcome' = "mint"
    /\ UNCHANGED <<token, attempts, backoff, delay, bufferVars, historyVars,
                   stream, server>>

(* An answer no retry mends: a key the mint refuses, a response without a    *)
(* token, a status outside _RETRYABLE_STATUS.                                *)
Refused ==
    /\ phase = FirstPhase /\ server = "up"
    /\ phase' = "ended" /\ outcome' = "permanent"
    /\ UNCHANGED <<token, attempts, backoff, delay, bufferVars, historyVars,
                   stream, server>>

(* Mutant: the back-off is not reset by a connection. *)
ConnectKeepsBackoff ==
    /\ phase = "connecting" /\ server = "up"
    /\ phase' = "streaming"
    /\ token' = IF WebSocket THEN "used" ELSE token
    /\ buf' = <<>>
    /\ failures' = 0 /\ connected' = TRUE
    /\ UNCHANGED <<attempts, backoff, delay, outcome, torn, errors, stream, server>>

(* Mutant: the buffer outlives the connection. *)
ConnectKeepsBuffer ==
    /\ phase = "connecting" /\ server = "up"
    /\ phase' = "streaming"
    /\ token' = IF WebSocket THEN "used" ELSE token
    /\ backoff' = MinInterval
    /\ buf' = [k \in DOMAIN buf |-> "earlier"]
    /\ failures' = 0 /\ connected' = TRUE
    /\ UNCHANGED <<attempts, delay, outcome, torn, errors, stream, server>>

(* Mutant: a connection clears the count of reconnects. *)
ConnectForgetsAttempts ==
    /\ phase = "connecting" /\ server = "up"
    /\ phase' = "streaming"
    /\ token' = IF WebSocket THEN "used" ELSE token
    /\ attempts' = 0 /\ backoff' = MinInterval
    /\ buf' = <<>>
    /\ failures' = 0 /\ connected' = TRUE
    /\ UNCHANGED <<delay, outcome, torn, errors, stream, server>>

(* The connection is accepted: the back-off and the buffer start anew. *)
Connect ==
    /\ phase = "connecting" /\ server = "up"
    /\ phase' = "streaming"
    /\ token' = IF WebSocket THEN "used" ELSE token
    /\ backoff' = MinInterval
    /\ buf' = <<>>
    /\ failures' = 0 /\ connected' = TRUE
    /\ UNCHANGED <<attempts, delay, outcome, torn, errors, stream, server>>

-----------------------------------------------------------------------------
(* The error path: count, give up or sleep, and double the back-off. *)

GivesUp == Bounded /\ attempts + 1 > MaxReconnects

(* Mutant: the doubled back-off is not capped. *)
DoubledPastCap == Max(backoff, 1) * 2

Doubled == Min(Max(backoff, 1) * 2, MaxBackoff)

Failed ==
    /\ attempts' = attempts + 1
    /\ errors' = errors + 1 /\ errors' <= MaxErrors
    /\ failures' = failures + 1
    /\ IF GivesUp
       THEN /\ phase' = "ended" /\ outcome' = "exhausted"
            /\ UNCHANGED <<backoff, delay>>
       ELSE /\ phase' = "sleeping"
            /\ delay' = Min(backoff, MaxBackoff) /\ backoff' = Doubled
            /\ UNCHANGED outcome

(* No connection, a refused handshake, or a retryable status. *)
ConnectFails ==
    /\ phase = "connecting" /\ server = "down"
    /\ Failed
    /\ token' = IF WebSocket THEN "used" ELSE token
    /\ UNCHANGED <<bufferVars, connected, stream, server>>

(* The connection breaks: an abnormal close, a reset, a read timeout. *)
Drop ==
    /\ phase = "streaming"
    /\ Failed
    /\ UNCHANGED <<token, bufferVars, connected, stream, server>>

(* Mutant: nothing wakes the loop once the back-off is at its cap. *)
WakeBelowCap ==
    /\ phase = "sleeping" /\ delay < MaxBackoff
    /\ phase' = FirstPhase /\ delay' = 0
    /\ UNCHANGED <<token, attempts, backoff, outcome, bufferVars, historyVars,
                   stream, server>>

Wake ==
    /\ phase = "sleeping"
    /\ phase' = FirstPhase /\ delay' = 0
    /\ UNCHANGED <<token, attempts, backoff, outcome, bufferVars, historyVars,
                   stream, server>>

(* The server closes the connection in order: start over at once. *)
CleanClose ==
    /\ phase = "streaming"
    /\ phase' = FirstPhase
    /\ UNCHANGED <<token, attempts, backoff, delay, outcome, bufferVars,
                   historyVars, stream, server>>

-----------------------------------------------------------------------------
(* Events. *)

(* A line of an event block. *)
Line ==
    /\ phase = "streaming" /\ ~WebSocket /\ Len(buf) < MaxLines
    /\ buf' = Append(buf, "this")
    /\ UNCHANGED <<loopVars, torn, historyVars, stream, server>>

(* The empty line: the block is parsed, and yielded if it held a field.  (A  *)
(* WebSocket message is an event by itself.)                                 *)
YieldEvent ==
    /\ phase = "streaming" /\ buf # <<>>
    /\ buf' = <<>>
    /\ torn' = (torn \/ \E i, j \in DOMAIN buf : buf[i] # buf[j])
    /\ UNCHANGED <<loopVars, historyVars, stream, server>>

(* The consumer stops at an event: the generator is closed, and with it the  *)
(* connection.                                                               *)
Abandon ==
    /\ phase = "streaming"
    /\ phase' = "ended" /\ outcome' = "abandoned"
    /\ UNCHANGED <<token, attempts, backoff, delay, bufferVars, historyVars,
                   stream, server>>

(* External: outages. *)
Outage == server' = IF server = "up" THEN "down" ELSE "up"

ServerChanges ==
    Outage /\ UNCHANGED <<stream, loopVars, bufferVars, historyVars>>

-----------------------------------------------------------------------------
LoopStep == Mint \/ MintFails \/ Refused \/ Connect \/ ConnectFails \/ Wake

StreamStep == Drop \/ CleanClose \/ Line \/ YieldEvent \/ Abandon

Next == LoopStep \/ StreamStep \/ ServerChanges

Spec == Init /\ [][Next]_vars

(* The loop runs: a sleep ends, a mint or a connection attempt has a result. *)
(* What the server and the consumer do is not fair.                          *)
FairSpec == Spec /\ WF_vars(Wake)
                 /\ WF_vars(Mint \/ MintFails \/ Refused)
                 /\ WF_vars(Connect \/ ConnectFails)
-----------------------------------------------------------------------------
(* Safety. *)

(* The powers of two. *)
PowerOfTwo[n \in Nat] == IF n = 0 THEN 1 ELSE 2 * PowerOfTwo[n - 1]

(* The wait after the n-th error in a row, from the two constants alone. *)
WaitAfter(n) ==
    IF n = 1 THEN Min(MinInterval, MaxBackoff)
    ELSE Min(Max(MinInterval, 1) * PowerOfTwo[n - 1], MaxBackoff)

(* Capped exponential back-off: the wait depends on the errors since the     *)
(* last connection and on nothing before it, doubles with each, starts at    *)
(* reconnect_min_interval and never exceeds the cap.                         *)
BackoffFollowsFailures == phase = "sleeping" => delay = WaitAfter(failures)

(* Every connection attempt of a WebSocket presents a token that was minted  *)
(* for it: not one of an earlier attempt, failed ones included, nor one that *)
(* grew old while the loop slept.                                            *)
TokenIsFresh ==
    /\ WebSocket /\ phase = "connecting" => token = "fresh"
    /\ phase = "sleeping" => token # "fresh"

(* max_reconnects counts the errors of the stream's whole life: it ends with *)
(* an error at the first one past the limit, and clean closes are free.      *)
GivesUpAtTheLimit ==
    (outcome = "exhausted") <=> (Bounded /\ errors > MaxReconnects)

(* An event is made of lines of one connection: what a broken connection     *)
(* left of a block is not completed by the next.                             *)
EventsAreWhole == ~torn

(* Together: nothing of one connection, its token or the lines it left, is    *)
(* used by the next.                                                         *)
ConnectionsAreApart == TokenIsFresh /\ EventsAreWhole

-----------------------------------------------------------------------------
(* Liveness, under FairSpec. *)

(* Once the server is back for good the stream comes back, unless it has     *)
(* ended.                                                                    *)
StreamComesBack ==
    <>[](server = "up") => []<>(phase \in {"streaming", "ended"})

-----------------------------------------------------------------------------
(* What the documentation says and the code does not do. *)

(* ws.py:8, the stream yields events "until the socket closes, then          *)
(* reconnect with a freshly-minted token": a stream without max_reconnects   *)
(* ends when the server is away long enough for the mint to fail.            *)
LostConnectionIsRetried ==
    ~Bounded /\ connected => outcome # "mint"
=============================================================================
