------------------------------ MODULE OffsetWalk ------------------------------
(***************************************************************************)
(* Walking a listing page by page while it changes.  Six ways to do it      *)
(* make limit/offset requests:                                              *)
(*   "iterator"   iter_markets, iter_orders, ... (polysim_sdk/pagination.py) *)
(*   "paginator"  iteration over the Paginator of list_markets, and its      *)
(*   "async_paginator"  async twin                                         *)
(*   "cursors"    a page at a time, from_cursor(page.next_cursor), as a bot  *)
(*                drives first_page()                                        *)
(*   "clob"       get_markets of the CLOB client until next_cursor is the    *)
(*                end, as its README has it, and                             *)
(*   "clob_past"  until a page is empty, which asks with the end cursor too  *)
(* and three follow cursors that the server makes, which may go wrong:       *)
(*   "collector"  get_orders and get_trades of the CLOB client               *)
(*   "account"    iteration over list_open_orders, list_account_trades, and  *)
(*   "async_account"  over those of the async client                       *)
(* A row is its rank among the rows there ever were; no row comes back.     *)
(***************************************************************************)
EXTENDS Integers, FiniteSets, Sequences, SequencesExt

CONSTANTS
    Walkers,      (* the ways of walking above that are used               *)
    PageSize,     (* page_size, for each of them that has one              *)
    PAGE_LIMIT,   (* the clients' idea of the largest page, and get_markets' *)
    ServerCap,    (* external: the largest page of the server              *)
    MaxRows,      (* bound: rows at the start                              *)
    MaxInserts,   (* bound: rows inserted during the walk                  *)
    MaxRemovals,  (* bound: rows removed during the walk                   *)
    MaxFailures,  (* bound: fetches that raise                             *)
    MaxOdd        (* bound: cursors of the server that are not the next     *)

ASSUME WalkAssumption ==
    /\ Walkers \subseteq {"iterator", "paginator", "async_paginator", "cursors",
                      "clob", "clob_past", "collector", "account", "async_account"}
    /\ PageSize \in [Walkers -> Nat \ {0}]
    /\ {PAGE_LIMIT, ServerCap} \subseteq Nat \ {0}
    /\ {MaxRows, MaxInserts, MaxRemovals, MaxFailures, MaxOdd} \subseteq Nat

VARIABLES
    walker,    (* which of them this walk is                               *)
    phase,     (* asking for a page, handing it out, ended, failed         *)
    place,     (* the offset or the cursor of the next page                *)
    more,      (* whether there is a next page to ask for                  *)
    page,      (* rows of the present page not yet handed out              *)
    yielded,   (* rows handed out                                          *)
    seen,      (* the cursors a collector has asked with                   *)
    listing,   (* external: the rows, in the server's order                *)
    lasting,   (* history: rows there from the start of the walk until now *)
    inserts, removals, failures,  (* history: how many so far              *)
    odd        (* history: how many cursors were not the next one          *)

walk == <<walker, phase, place, more, page, yielded, seen>>
server == <<listing, lasting, inserts, removals>>
vars == <<walk, server, failures, odd>>

(* No cursor is <<>>; <<n>> is the integer n, in base64 when it is a cursor.  *)
NoCursor == <<>>
END_CURSOR == <<-1>>
EmptyCursor == <<-2>>

(* get_markets, and who walks with it. *)
Clob == {"clob", "clob_past"}

(* What is asked of the server: the Paginator clamps its page size, the       *)
(* iterator does not, and get_markets takes none.                            *)
LimitOf(w) ==
    IF w \in Clob \/ (w # "iterator" /\ PageSize[w] > PAGE_LIMIT)
    THEN PAGE_LIMIT ELSE PageSize[w]

Limit == LimitOf(walker)

Decode(cursor) == IF cursor \in {NoCursor, EmptyCursor} THEN 0 ELSE cursor[1]

TypeOK ==
    /\ walker \in Walkers
    /\ phase \in {"asking", "handing", "ended", "failed"}
    /\ place \in Seq(Int) /\ Len(place) <= 1
    /\ place = NoCursor => walker # "iterator"
    /\ place \in {END_CURSOR} \/ Decode(place) % Limit = 0
    /\ walker \in {"account", "async_account"} => place # END_CURSOR
    /\ seen # {} => walker = "collector"
    /\ more \in BOOLEAN
    /\ page \in Seq(Nat) /\ Len(page) <= ServerCap
    /\ yielded \in Seq(Nat)
    /\ listing \in Seq(Nat) /\ lasting \subseteq ToSet(listing)
    /\ inserts \in 0..MaxInserts /\ removals \in 0..MaxRemovals
    /\ failures \in 0..MaxFailures /\ odd \in 0..MaxOdd

Init ==
    /\ walker \in Walkers
    /\ phase = "asking" /\ more = TRUE
    /\ place = IF walker \in {"iterator", "collector"} THEN <<0>> ELSE NoCursor
    /\ page = <<>> /\ yielded = <<>> /\ seen = {}
    /\ \E n \in 0..MaxRows : listing = [i \in 1..n |-> i]
    /\ lasting = ToSet(listing)
    /\ inserts = 0 /\ removals = 0 /\ failures = 0 /\ odd = 0
-----------------------------------------------------------------------------
(* One page. *)

(* External: a page is cut at the server's own limit and at the end. *)
Serve(offset) ==
    LET size == IF Limit > ServerCap THEN ServerCap ELSE Limit
        last == IF offset + size > Len(listing) THEN Len(listing) ELSE offset + size
    IN  SubSeq(listing, offset + 1, last)

(* Past the end there is a page without rows, and no request. *)
Rows(offset) == IF offset < 0 THEN <<>> ELSE Serve(offset)

(* Mutant: the next page is one row too far. *)
NextPlaceTooFar(offset, rows) == <<offset + Limit + 1>>

(* Mutant: list_markets has the end for its cursor there too. *)
PastEndAgain == END_CURSOR

(* The cursor of the page past the end: list_markets has none, get_markets    *)
(* the end again.                                                            *)
PastEnd == IF walker \in Clob THEN END_CURSOR ELSE NoCursor

NextPlace(offset, rows) ==
    IF walker = "iterator" THEN <<offset + Limit>>
    ELSE IF offset < 0 THEN PastEnd
    ELSE IF Len(rows) >= Limit THEN <<offset + Limit>> ELSE END_CURSOR

(* Mutant: a full page is taken for the last. *)
GoesOnIfLonger(offset, rows) == Len(rows) > Limit

(* The iterators stop at a short page, which has_more tells; who follows the  *)
(* cursors of list_markets when there is none, who follows those of          *)
(* get_markets at the end cursor, or at a page that has no rows.             *)
GoesOn(offset, rows) ==
    \/ walker = "cursors" /\ NextPlace(offset, rows) # NoCursor
    \/ walker = "clob" /\ NextPlace(offset, rows) # END_CURSOR
    \/ walker = "clob_past" /\ rows # <<>>
    \/ walker \notin {"cursors", "clob", "clob_past"} /\ Len(rows) >= Limit
-----------------------------------------------------------------------------
(* Cursors of the server. *)

(* External: the cursor of the next page, or the end.  An odd one is missing, *)
(* empty, or one that has been asked with.                                   *)
ServerCursor(offset, rows) ==
    IF offset + Len(rows) < Len(listing) THEN <<offset + Len(rows)>> ELSE END_CURSOR

OddCursors(offset) == {NoCursor, EmptyCursor} \cup {<<k * Limit>> : k \in 0..(offset \div Limit)}

(* Mutant: a cursor that comes again is followed. *)
CollectsOnAgain(cursor) == cursor \notin {NoCursor, EmptyCursor, END_CURSOR}

(* While there is a cursor, not the end, and it has not been asked with. *)
CollectsOn(cursor) ==
    cursor \notin {NoCursor, EmptyCursor, END_CURSOR} \cup seen \cup {place}

(* The page of a Paginator has a cursor unless it is the last; an empty one   *)
(* is one too.                                                               *)
PageCursor(cursor) == IF cursor = END_CURSOR THEN NoCursor ELSE cursor
-----------------------------------------------------------------------------
(* The walk. *)

FetchBy(w) ==
    /\ phase = "asking" /\ walker = w
    /\ LET offset == Decode(place)
           rows == Rows(offset)
       IN  /\ page' = rows
           /\ place' = NextPlace(offset, rows)
           /\ more' = GoesOn(offset, rows)
    /\ phase' = "handing"
    /\ UNCHANGED <<walker, yielded, seen, server, failures, odd>>

Iterate == FetchBy("iterator")
ListMarkets == FetchBy("paginator")
AsyncListMarkets == FetchBy("async_paginator")
FollowMarkets == FetchBy("cursors")
GetMarkets == FetchBy("clob")
GetMarketsPastTheEnd == FetchBy("clob_past")

(* A page of the server's, and a cursor, which may be an odd one; an empty    *)
(* cursor, or none, is the start.                                            *)
Ask(cursor) ==
    LET offset == Decode(place)
        next == ServerCursor(offset, Serve(offset))
    IN  /\ phase = "asking"
        /\ \/ cursor = next /\ odd' = odd
           \/ cursor \in OddCursors(offset) \ {next} /\ odd < MaxOdd /\ odd' = odd + 1
        /\ page' = Serve(offset)
        /\ phase' = "handing"
        /\ UNCHANGED <<walker, yielded, server, failures>>

Cursors == {END_CURSOR, NoCursor, EmptyCursor} \cup {<<n>> : n \in 0..Len(listing)}

Collect ==
    /\ walker = "collector"
    /\ \E cursor \in Cursors :
        /\ Ask(cursor)
        /\ place' = cursor
        /\ more' = CollectsOn(cursor)
    /\ seen' = seen \cup {place}

FetchAccount(w) ==
    /\ walker = w
    /\ \E cursor \in Cursors :
        /\ Ask(cursor)
        /\ place' = PageCursor(cursor)
        /\ more' = (PageCursor(cursor) # NoCursor)
    /\ UNCHANGED seen

ListOpenOrders == FetchAccount("account")
AsyncListOpenOrders == FetchAccount("async_account")

Hand ==
    /\ phase = "handing" /\ page # <<>>
    /\ yielded' = Append(yielded, Head(page))
    /\ page' = Tail(page)
    /\ UNCHANGED <<walker, phase, place, more, seen, server, failures, odd>>

Turn ==
    /\ phase = "handing" /\ page = <<>>
    /\ phase' = IF more THEN "asking" ELSE "ended"
    /\ UNCHANGED <<walker, place, more, page, yielded, seen, server, failures, odd>>

(* The client raises, its retries spent; this ends a generator, and with a    *)
(* collector what it has collected is gone.                                  *)
FetchFails ==
    /\ phase = "asking" /\ Decode(place) >= 0
    /\ failures < MaxFailures
    /\ failures' = failures + 1
    /\ phase' = "failed"
    /\ UNCHANGED <<walker, place, more, page, yielded, seen, server, odd>>

(* from_cursor with the cursor of the last page that came. *)
Resume ==
    /\ phase = "failed" /\ walker \notin {"iterator", "collector"}
    /\ phase' = "asking"
    /\ UNCHANGED <<walker, place, more, page, yielded, seen, server, failures, odd>>
-----------------------------------------------------------------------------
(* External: the listing changes while it is walked. *)

Insert ==
    /\ phase # "ended" /\ inserts < MaxInserts
    /\ \E i \in 1..(Len(listing) + 1) :
        listing' = InsertAt(listing, i, MaxRows + inserts + 1)
    /\ inserts' = inserts + 1
    /\ UNCHANGED <<walk, lasting, removals, failures, odd>>

Delete ==
    /\ phase # "ended" /\ removals < MaxRemovals
    /\ \E i \in DOMAIN listing :
        /\ listing' = RemoveAt(listing, i)
        /\ lasting' = lasting \ {listing[i]}
    /\ removals' = removals + 1
    /\ UNCHANGED <<walk, inserts, failures, odd>>

Walk ==
    \/ Iterate \/ ListMarkets \/ AsyncListMarkets \/ FollowMarkets
    \/ GetMarkets \/ GetMarketsPastTheEnd
    \/ Collect \/ ListOpenOrders \/ AsyncListOpenOrders
    \/ Hand \/ Turn \/ Resume

Next == Walk \/ FetchFails \/ Insert \/ Delete

Spec == Init /\ [][Next]_vars

(* The consumer goes on. *)
FairSpec == Spec /\ WF_vars(Walk)
-----------------------------------------------------------------------------
(* Properties. *)

(* pagination.py:3-5 and :48, "Yield every market": over a listing that does  *)
(* not change a finished walk has handed out each row once and in order,      *)
(* whatever fetches failed and were resumed.                                  *)
StableWalkIsTheListing ==
    phase = "ended" /\ inserts = 0 /\ removals = 0 /\ odd = 0 => yielded = listing

(* A finished walk misses a row that was there all the time only where a row  *)
(* before it was removed: no more rows are missed than were removed, and none *)
(* when rows only arrive.                                                     *)
MissesBoundedByRemovals ==
    phase = "ended" /\ odd = 0 => Cardinality(lasting \ ToSet(yielded)) <= removals

(* A row is handed out again only where one was inserted before it: no more   *)
(* repeats than inserts, and none when rows only go.  A collector holds to it *)
(* even when the server sends it back to a page it has had.                   *)
RepeatsBoundedByInserts ==
    walker = "collector" \/ odd = 0 => Len(yielded) - Cardinality(ToSet(yielded)) <= inserts

(* Together: what a walk over a moving listing gets wrong is no more than     *)
(* the listing moved.                                                        *)
ShiftsAreBounded == MissesBoundedByRemovals /\ RepeatsBoundedByInserts

(* A walk ends although the listing changes under it, unless a fetch has      *)
(* raised in an iterator or a collector.  The end cursor is not walked for    *)
(* ever, although get_markets answers it with itself: its page has no rows,   *)
(* and that of list_markets no cursor.  Nor is a cursor that comes again      *)
(* walked for ever by a collector.                                           *)
WalkEnds ==
    <>(phase = "ended" \/ (phase = "failed" /\ walker \in {"iterator", "collector"}))
=============================================================================
