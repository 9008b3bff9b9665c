--------------------------- MODULE OffsetWalkProofs ---------------------------
(***************************************************************************)
(* What a walk over a listing that does not move hands out: the listing,    *)
(* row by row, for any listing, page sizes, and failures that are resumed.  *)
(* Those who count in steps of what they ask for must be served pages of    *)
(* that size.  The Paginators clamp what they ask for; the iterators do not, *)
(* and without PagesAreServed their walks stop short.  Then what a walk      *)
(* over a listing that moves misses and hands out again.                    *)
(***************************************************************************)
EXTENDS OffsetWalk, FiniteSetTheorems, TLAPS

ByCursor == {"collector", "account", "async_account"}

PagesAreServed ==
    \A w \in Walkers \ ByCursor : LimitOf(w) <= ServerCap

Still == inserts = 0 /\ removals = 0 /\ odd = 0

(* The variables that count, and the one that stays. *)
Counts == walker \in Walkers /\ inserts \in Nat /\ removals \in Nat /\ odd \in Nat

(* Where a walk is to go on: an offset, or the end.  No cursor is the start.  *)
Counted(cursor) == cursor = <<cursor[1]>> /\ cursor[1] \in Nat
Placed == place = NoCursor \/ place = END_CURSOR \/ Counted(place)

Reached == Len(yielded) + Len(page)

(* What was handed out and what is at hand are the listing so far. *)
Prefix ==
    /\ listing \in Seq(Nat) /\ page \in Seq(Nat) /\ yielded \in Seq(Nat)
    /\ Reached <= Len(listing)
    /\ \A i \in 1..Len(yielded) : yielded[i] = listing[i]
    /\ \A i \in 1..Len(page) : page[i] = listing[Len(yielded) + i]

(* The next page is asked for where the last one stopped. *)
GoesOnThere ==
    IF place = END_CURSOR THEN Reached = Len(listing) ELSE Decode(place) = Reached

(* There is a page to ask for. *)
OnTheWay == phase \in {"asking", "failed"} \/ (phase = "handing" /\ more)

(* A server's cursor leads to a row not had yet; a collector has asked only   *)
(* with cursors of rows it has had.                                          *)
ServerCursors ==
    /\ walker \in ByCursor => place # END_CURSOR
    /\ walker = "collector" =>
          /\ place # NoCursor
          /\ \A c \in seen : Counted(c) /\ c[1] < Decode(place)

Aligned ==
    /\ Placed /\ Prefix
    /\ phase # "handing" => page = <<>>
    /\ IF OnTheWay THEN GoesOnThere /\ ServerCursors
       ELSE Reached = Len(listing)

Inv ==
    /\ Counts
    /\ phase \in {"asking", "handing", "ended", "failed"}
    /\ Still => Aligned

-----------------------------------------------------------------------------
(* Limit is a page size; those who count in it are served pages of it.       *)
LEMMA LimitIsServed ==
    ASSUME walker \in Walkers
    PROVE  /\ Limit \in Nat \ {0}
           /\ PagesAreServed /\ walker \notin ByCursor => Limit <= ServerCap
BY WalkAssumption DEF Limit, LimitOf, PagesAreServed, ByCursor

(* A page is the rows behind the offset, as many as are asked for and allowed *)
(* or as there are.                                                          *)
LEMMA ServedRows ==
    ASSUME walker \in Walkers, listing \in Seq(Nat),
           NEW offset \in 0..Len(listing)
    PROVE  LET rows == Serve(offset)
               size == IF Limit > ServerCap THEN ServerCap ELSE Limit
           IN  /\ rows \in Seq(Nat)
               /\ Len(rows) = IF offset + size > Len(listing)
                              THEN Len(listing) - offset ELSE size
               /\ offset + Len(rows) <= Len(listing)
               /\ \A i \in 1..Len(rows) : rows[i] = listing[offset + i]
<1> DEFINE size == IF Limit > ServerCap THEN ServerCap ELSE Limit
           last == IF offset + size > Len(listing) THEN Len(listing) ELSE offset + size
<1>1. size \in Nat \ {0} /\ Len(listing) \in Nat
    BY LimitIsServed, WalkAssumption
<1>2. last \in Nat /\ offset <= last /\ last <= Len(listing)
    BY <1>1
<1>3. Serve(offset) = SubSeq(listing, offset + 1, last)
    BY DEF Serve
<1>4. /\ SubSeq(listing, offset + 1, last) \in Seq(Nat)
      /\ Len(SubSeq(listing, offset + 1, last)) = last - offset
      /\ \A i \in 1..(last - offset) :
            SubSeq(listing, offset + 1, last)[i] = listing[offset + i]
    <2> HIDE DEF last
    <2>1. offset \in Nat /\ listing \in Seq(Nat)
        OBVIOUS
    <2>2. QED
        BY <1>2, <2>1, SMTT(60)
<1>5. last - offset = IF offset + size > Len(listing)
                      THEN Len(listing) - offset ELSE size
    BY <1>1
<1>6. LET rows == Serve(offset)
      IN  /\ rows \in Seq(Nat) /\ Len(rows) = last - offset
          /\ offset + Len(rows) <= Len(listing)
          /\ \A i \in 1..Len(rows) : rows[i] = listing[offset + i]
    <2> HIDE DEF last
    <2>1. QED
        BY <1>1, <1>2, <1>3, <1>4
<1>7. QED
    BY <1>5, <1>6

LEMMA PageLength ==
    ASSUME walker \in Walkers, listing \in Seq(Nat),
           NEW offset \in 0..Len(listing)
    PROVE  Len(Serve(offset)) =
             LET size == IF Limit > ServerCap THEN ServerCap ELSE Limit
             IN  IF offset + size > Len(listing) THEN Len(listing) - offset ELSE size
BY ServedRows

(* What a fetch of a page at the right place leaves is right.                 *)
LEMMA FetchedPrefix ==
    ASSUME walker \in Walkers, Prefix, page = <<>>,
           page' = Serve(Len(yielded)), UNCHANGED <<listing, yielded>>
    PROVE  Prefix' /\ Reached' = Len(yielded) + Len(Serve(Len(yielded)))
<1>1. Len(yielded) \in 0..Len(listing)
    BY DEF Prefix, Reached
<1>2. QED
    BY <1>1, ServedRows DEF Prefix, Reached

-----------------------------------------------------------------------------
(* One lemma for each step of the walk; the listing does not move in it.      *)

LEMMA FetchKeeps ==
    ASSUME PagesAreServed, Counts, Aligned,
           NEW w \in Walkers \ ByCursor, FetchBy(w)
    PROVE  Aligned'
<1> DEFINE offset == Decode(place)
           rows == Rows(offset)
<1>1. /\ phase = "asking" /\ phase' = "handing" /\ walker = w /\ walker' = walker
      /\ page' = rows /\ place' = NextPlace(offset, rows)
      /\ more' = GoesOn(offset, rows)
      /\ yielded' = yielded /\ seen' = seen /\ listing' = listing
    BY DEF FetchBy, server
<1>2. page = <<>> /\ Prefix /\ Placed /\ GoesOnThere /\ Reached = Len(yielded)
      /\ Reached \in 0..Len(listing)
    BY <1>1 DEF Aligned, OnTheWay, Reached, Prefix
<1>3. Limit \in Nat \ {0} /\ Limit <= ServerCap /\ ServerCap \in Nat \ {0}
    BY <1>1, LimitIsServed, WalkAssumption
<1>4. walker' \notin ByCursor
    BY <1>1
<1>5. CASE place = END_CURSOR
    <2>1. offset = -1
        BY <1>5 DEF Decode, END_CURSOR, NoCursor, EmptyCursor
    <2>2. rows = <<>>
        BY <2>1 DEF Rows
    <2>3. NextPlace(offset, rows) = IF walker = "iterator" THEN <<Limit - 1>> ELSE PastEnd
        BY <1>3, <2>1 DEF NextPlace
    <2>4. Len(rows) = 0
        BY <2>2
    <2>5. ~ GoesOn(offset, rows)
        BY <1>3, <2>2, <2>3, <2>4 DEF GoesOn, PastEnd, Clob
    <2>6. Placed'
        BY <1>1, <1>3, <2>3 DEF Placed, Counted, PastEnd
    <2>7. Prefix' /\ Reached' = Len(listing')
        BY <1>1, <1>2, <1>5, <2>2 DEF GoesOnThere, Prefix, Reached
    <2>8. QED
        BY <1>1, <2>5, <2>6, <2>7 DEF Aligned, OnTheWay
<1>6. CASE place # END_CURSOR
    <2>1. offset = Reached /\ rows = Serve(Len(yielded))
        BY <1>2, <1>6 DEF GoesOnThere, Rows
    <2>2. Prefix' /\ Reached' = Len(yielded) + Len(rows)
        BY <1>1, <1>2, <2>1, FetchedPrefix
    <2>3. /\ Len(rows) \in Nat
          /\ IF Len(rows) >= Limit THEN Len(rows) = Limit
             ELSE Reached' = Len(listing)
        BY <1>1, <1>2, <1>3, <2>1, <2>2, PageLength DEF Counts, Prefix
    <2>4. CASE Len(rows) >= Limit
        <3>1. Reached' = offset + Limit /\ Reached' \in Nat
            BY <1>2, <1>3, <2>1, <2>2, <2>3, <2>4
        <3>2. place' = <<Reached'>>
            BY <1>1, <1>2, <2>1, <2>4, <3>1 DEF NextPlace
        <3>3. Placed' /\ GoesOnThere' /\ ServerCursors'
            BY <1>4, <3>1, <3>2 DEF Placed, Counted, GoesOnThere, ServerCursors, ByCursor,
                Decode, END_CURSOR, NoCursor, EmptyCursor
        <3>4. GoesOn(offset, rows)
            BY <1>1, <1>3, <2>4, <3>1, <3>2 DEF GoesOn, NoCursor, END_CURSOR
        <3>5. QED
            BY <1>1, <2>2, <3>3, <3>4 DEF Aligned, OnTheWay
    <2>5. CASE Len(rows) < Limit
        <3>1. Reached' = Len(listing')
            BY <1>1, <1>3, <2>3, <2>5
        <3>2. place' = IF walker = "iterator" THEN <<offset + Limit>> ELSE END_CURSOR
            BY <1>1, <1>2, <1>3, <2>1, <2>3, <2>5 DEF NextPlace
        <3>3. Placed'
            BY <1>2, <1>3, <2>1, <3>2 DEF Placed, Counted
        <3>4. GoesOn(offset, rows) => walker \in {"cursors", "clob_past"}
            BY <1>1, <1>3, <2>3, <2>5, <3>2 DEF GoesOn, END_CURSOR, NoCursor
        <3>5. walker \in {"cursors", "clob_past"} => GoesOnThere' /\ ServerCursors'
            BY <1>4, <3>1, <3>2 DEF GoesOnThere, ServerCursors, ByCursor
        <3>6. QED
            BY <1>1, <2>2, <3>1, <3>3, <3>4, <3>5 DEF Aligned, OnTheWay
    <2>6. QED
        BY <1>3, <2>3, <2>4, <2>5
<1>7. QED
    BY <1>5, <1>6

(* A server's cursor, not an odd one, is where the page stopped, or the end.  *)
LEMMA AskedRows ==
    ASSUME Counts, odd' = 0, Aligned, phase = "asking", walker \in ByCursor,
           NEW cursor, Ask(cursor)
    PROVE  /\ Decode(place) = Len(yielded)
           /\ Prefix' /\ Reached' \in Nat
           /\ IF Reached' = Len(listing') THEN cursor = END_CURSOR
              ELSE cursor = <<Reached'>> /\ Reached' > Decode(place)
<1>1. page = <<>> /\ Prefix /\ Placed /\ GoesOnThere /\ Reached = Len(yielded)
      /\ Reached \in 0..Len(listing) /\ place # END_CURSOR
    BY DEF Aligned, OnTheWay, Reached, Prefix, ServerCursors
<1>2. Decode(place) = Len(yielded)
    BY <1>1 DEF GoesOnThere
<1>3. page' = Serve(Len(yielded)) /\ UNCHANGED <<listing, yielded>>
    BY <1>2 DEF Ask, server
<1>4. cursor = ServerCursor(Len(yielded), Serve(Len(yielded)))
    BY <1>2 DEF Ask, Counts
<1>5. Prefix' /\ Reached' = Len(yielded) + Len(Serve(Len(yielded)))
    BY <1>1, <1>3, FetchedPrefix DEF Counts
<1>6. /\ Len(Serve(Len(yielded))) \in Nat
      /\ Reached' <= Len(listing)
      /\ Reached' # Len(listing) => Len(Serve(Len(yielded))) > 0
    <2>1. Limit \in Nat \ {0} /\ ServerCap \in Nat \ {0}
        BY LimitIsServed, WalkAssumption DEF Counts
    <2>2. Len(Serve(Len(yielded))) =
             LET size == IF Limit > ServerCap THEN ServerCap ELSE Limit
             IN  IF Len(yielded) + size > Len(listing)
                 THEN Len(listing) - Len(yielded) ELSE size
        BY <1>1, PageLength DEF Counts, Prefix
    <2>3. Len(listing) \in Nat /\ Len(yielded) \in 0..Len(listing)
        BY <1>1 DEF Prefix
    <2>4. QED
        BY <1>5, <2>1, <2>2, <2>3
<1>7. QED
    BY <1>1, <1>2, <1>3, <1>4, <1>5, <1>6 DEF ServerCursor

LEMMA CollectKeeps ==
    ASSUME Counts, odd' = 0, Aligned, Collect
    PROVE  Aligned'
<1>1. PICK cursor \in Cursors :
        Ask(cursor) /\ place' = cursor /\ more' = CollectsOn(cursor)
    BY DEF Collect
<1>2. /\ phase = "asking" /\ phase' = "handing" /\ walker = "collector"
      /\ walker' = walker /\ listing' = listing /\ seen' = seen \cup {place}
    BY <1>1 DEF Collect, Ask, server
<1>3. /\ Prefix' /\ Reached' \in Nat
      /\ IF Reached' = Len(listing') THEN cursor = END_CURSOR
         ELSE cursor = <<Reached'>> /\ Reached' > Decode(place)
    BY <1>1, <1>2, AskedRows DEF ByCursor
<1>4. /\ Counted(place) /\ Decode(place) = place[1]
      /\ \A c \in seen : Counted(c) /\ c[1] < place[1]
    BY <1>2 DEF Aligned, OnTheWay, Placed, Counted, ServerCursors, ByCursor,
        Decode, NoCursor, EmptyCursor
<1>5. CASE Reached' = Len(listing')
    <2>1. ~ CollectsOn(cursor)
        BY <1>3, <1>5 DEF CollectsOn
    <2>2. QED
        BY <1>1, <1>2, <1>3, <1>5, <2>1 DEF Aligned, OnTheWay, Placed
<1>6. CASE Reached' # Len(listing')
    <2>1. /\ place' = <<Reached'>> /\ Decode(place') = Reached'
          /\ place' # END_CURSOR /\ place' # NoCursor /\ Counted(place')
        BY <1>1, <1>3, <1>6 DEF Decode, END_CURSOR, NoCursor, EmptyCursor, Counted
    <2>2. \A c \in seen' : Counted(c) /\ c[1] < Decode(place')
        BY <1>2, <1>3, <1>4, <1>6, <2>1 DEF Counted
    <2>3. more'
        <3>1. cursor = <<Reached'>> /\ Reached' \in Nat /\ Reached' > place[1]
            BY <1>3, <1>4, <1>6
        <3>2. cursor \notin {NoCursor, EmptyCursor, END_CURSOR}
            BY <3>1 DEF NoCursor, EmptyCursor, END_CURSOR
        <3>3. cursor \notin seen /\ cursor # place
            BY <1>4, <3>1 DEF Counted
        <3>4. CollectsOn(cursor)
            BY <3>2, <3>3 DEF CollectsOn
        <3>5. QED
            BY <1>1, <3>4, Zenon
    <2>4. QED
        BY <1>1, <1>2, <1>3, <2>1, <2>2, <2>3
        DEF Aligned, OnTheWay, Placed, GoesOnThere, ServerCursors
<1>7. QED
    BY <1>5, <1>6

LEMMA FetchAccountKeeps ==
    ASSUME Counts, odd' = 0, Aligned,
           NEW w \in {"account", "async_account"}, FetchAccount(w)
    PROVE  Aligned'
<1>1. PICK cursor \in Cursors :
        Ask(cursor) /\ place' = PageCursor(cursor) /\ more' = (PageCursor(cursor) # NoCursor)
    BY DEF FetchAccount
<1>2. /\ phase = "asking" /\ phase' = "handing" /\ walker = w
      /\ walker' = walker /\ listing' = listing
    BY <1>1 DEF FetchAccount, Ask, server
<1>3. /\ Prefix' /\ Reached' \in Nat
      /\ IF Reached' = Len(listing') THEN cursor = END_CURSOR
         ELSE cursor = <<Reached'>>
    BY <1>1, <1>2, AskedRows DEF ByCursor
<1>4. CASE Reached' = Len(listing')
    <2>1. place' = NoCursor /\ ~more'
        BY <1>1, <1>3, <1>4 DEF PageCursor
    <2>2. QED
        BY <1>2, <1>3, <1>4, <2>1 DEF Aligned, OnTheWay, Placed
<1>5. CASE Reached' # Len(listing')
    <2>1. /\ place' = <<Reached'>> /\ Decode(place') = Reached'
          /\ place' # END_CURSOR /\ Counted(place')
        BY <1>1, <1>3, <1>5
        DEF PageCursor, Decode, END_CURSOR, NoCursor, EmptyCursor, Counted
    <2>2. more'
        <3>1. PageCursor(cursor) # NoCursor
            BY <1>1, <2>1 DEF NoCursor
        <3>2. QED
            BY <1>1, <3>1, Zenon
    <2>3. QED
        BY <1>2, <1>3, <2>1, <2>2
        DEF Aligned, OnTheWay, Placed, GoesOnThere, ServerCursors
<1>6. QED
    BY <1>4, <1>5

LEMMA HandKeeps ==
    ASSUME Aligned, Hand
    PROVE  Aligned'
<1>1. /\ phase = "handing" /\ page # <<>> /\ yielded' = Append(yielded, Head(page))
      /\ page' = Tail(page)
      /\ UNCHANGED <<walker, phase, place, more, seen, listing>>
    BY DEF Hand, server
<1>2. Prefix
    BY DEF Aligned
<1>3. /\ page' \in Seq(Nat) /\ yielded' \in Seq(Nat)
      /\ Len(page') = Len(page) - 1 /\ Len(yielded') = Len(yielded) + 1
      /\ Len(page) \in Nat /\ Len(yielded) \in Nat
      /\ \A i \in 1..Len(page') : page'[i] = page[i + 1]
      /\ \A i \in 1..Len(yielded) : yielded'[i] = yielded[i]
      /\ yielded'[Len(yielded) + 1] = page[1]
    BY <1>1, <1>2 DEF Prefix
<1>4. Reached' = Reached
    BY <1>3 DEF Reached
<1>5. /\ \A i \in 1..Len(yielded') : yielded'[i] = listing'[i]
      /\ \A i \in 1..Len(page') : page'[i] = listing'[Len(yielded') + i]
    <2>1. page[1] = listing[Len(yielded) + 1]
        BY <1>2, <1>3, <1>1 DEF Prefix
    <2>2. \A i \in 1..Len(page') : page[i + 1] = listing[Len(yielded) + (i + 1)]
        BY <1>2, <1>3 DEF Prefix
    <2>3. QED
        BY <1>1, <1>2, <1>3, <2>1, <2>2 DEF Prefix
<1>6. Prefix'
    BY <1>1, <1>2, <1>3, <1>4, <1>5 DEF Prefix
<1>7. QED
    BY <1>1, <1>4, <1>6
    DEF Aligned, OnTheWay, Placed, GoesOnThere, ServerCursors, Decode, Counted

LEMMA TurnKeeps ==
    ASSUME Aligned, Turn
    PROVE  Aligned'
BY DEF Aligned, Turn, OnTheWay, Placed, Counted, GoesOnThere, ServerCursors, Prefix,
    Reached, Decode, server

LEMMA PausesKeep ==
    ASSUME Aligned, FetchFails \/ Resume
    PROVE  Aligned'
BY DEF Aligned, FetchFails, Resume, OnTheWay, Placed, Counted, GoesOnThere,
    ServerCursors, Prefix, Reached, Decode, server
-----------------------------------------------------------------------------
(* The invariant. *)

LEMMA InitAligned == Init => Inv
<1> SUFFICES ASSUME Init PROVE Inv
    OBVIOUS
<1>1. PICK n \in 0..MaxRows : listing = [i \in 1..n |-> i]
    BY DEF Init
<1>2. n \in Nat
    BY WalkAssumption
<1>3. listing \in Seq(Nat) /\ Len(listing) = n
    BY <1>1, <1>2
<1>4. /\ Prefix /\ Reached = 0
    BY <1>2, <1>3 DEF Init, Prefix, Reached
<1>5. Placed /\ GoesOnThere /\ ServerCursors
    BY <1>4 DEF Init, Placed, Counted, GoesOnThere, ServerCursors, Decode,
        NoCursor, END_CURSOR, EmptyCursor
<1>6. QED
    BY <1>4, <1>5 DEF Init, Inv, Counts, Aligned, OnTheWay

(* A listing that has moved, or a cursor that was odd, stays so.              *)
LEMMA CountsKeep ==
    ASSUME Counts, [Next]_vars
    PROVE  Counts' /\ (Still' => Still)
<1> USE DEF walk, server, vars
<1>1. CASE \/ Iterate \/ ListMarkets \/ AsyncListMarkets \/ FollowMarkets
          \/ GetMarkets \/ GetMarketsPastTheEnd
    BY <1>1 DEF Iterate, ListMarkets, AsyncListMarkets, FollowMarkets, GetMarkets,
        GetMarketsPastTheEnd, FetchBy, Counts, Still
<1>2. CASE Collect \/ ListOpenOrders \/ AsyncListOpenOrders
    BY <1>2 DEF Collect, ListOpenOrders, AsyncListOpenOrders, FetchAccount, Ask, Counts, Still
<1>3. CASE Hand \/ Turn \/ Resume \/ FetchFails
    BY <1>3 DEF Hand, Turn, Resume, FetchFails, Counts, Still
<1>4. CASE Insert \/ Delete
    BY <1>4 DEF Insert, Delete, Counts, Still
<1>5. CASE UNCHANGED vars
    BY <1>5 DEF Counts, Still
<1>6. QED
    BY <1>1, <1>2, <1>3, <1>4, <1>5 DEF Next, Walk

LEMMA NextAligned ==
    ASSUME PagesAreServed, Inv, [Next]_vars
    PROVE  Inv'
<1>1. Counts' /\ (Still' => Still)
    BY CountsKeep DEF Inv
<1>2. phase' \in {"asking", "handing", "ended", "failed"}
    BY DEF Inv, Next, Walk, Iterate, ListMarkets, AsyncListMarkets, FollowMarkets,
        GetMarkets, GetMarketsPastTheEnd, FetchBy,
        Collect, ListOpenOrders, AsyncListOpenOrders, FetchAccount, Ask, Hand, Turn,
        Resume, FetchFails, Insert, Delete, walk, vars
<1>3. ASSUME Still' PROVE Aligned'
    <2>1. Counts /\ Aligned /\ odd' = 0 /\ inserts' = 0 /\ removals' = 0
          /\ inserts = 0 /\ removals = 0
        BY <1>1, <1>3 DEF Inv, Still
    <2>2. CASE Iterate
        BY <2>1, <2>2, FetchKeeps DEF Iterate, FetchBy, Counts, ByCursor
    <2>3. CASE ListMarkets
        BY <2>1, <2>3, FetchKeeps DEF ListMarkets, FetchBy, Counts, ByCursor
    <2>4. CASE AsyncListMarkets
        BY <2>1, <2>4, FetchKeeps DEF AsyncListMarkets, FetchBy, Counts, ByCursor
    <2>5. CASE FollowMarkets \/ GetMarkets \/ GetMarketsPastTheEnd
        BY <2>1, <2>5, FetchKeeps DEF FollowMarkets, GetMarkets, GetMarketsPastTheEnd,
            FetchBy, Counts, ByCursor
    <2>6. CASE Collect
        BY <2>1, <2>6, CollectKeeps
    <2>7. CASE ListOpenOrders
        BY <2>1, <2>7, FetchAccountKeeps DEF ListOpenOrders
    <2>8. CASE AsyncListOpenOrders
        BY <2>1, <2>8, FetchAccountKeeps DEF AsyncListOpenOrders
    <2>9. CASE Hand
        BY <2>1, <2>9, HandKeeps
    <2>10. CASE Turn
        BY <2>1, <2>10, TurnKeeps
    <2>11. CASE FetchFails \/ Resume
        BY <2>1, <2>11, PausesKeep
    <2>12. CASE Insert \/ Delete
        BY <2>1, <2>12 DEF Insert, Delete
    <2>13. CASE UNCHANGED vars
        BY <2>1, <2>13 DEF vars, walk, server, Aligned, OnTheWay, Placed, Counted, GoesOnThere,
            ServerCursors, Prefix, Reached, Decode
    <2>14. QED
        BY <2>2, <2>3, <2>4, <2>5, <2>6, <2>7, <2>8, <2>9, <2>10, <2>11, <2>12, <2>13
        DEF Next, Walk
<1>4. QED
    BY <1>1, <1>2, <1>3 DEF Inv

(* pagination.py:3-5 and :48: whoever is served the pages they ask for gets   *)
(* the whole of a listing that does not move, once and in order.             *)
THEOREM WalkTheorem ==
    ASSUME PagesAreServed
    PROVE  Spec => []Inv
<1>1. Inv /\ [Next]_vars => Inv'
    BY NextAligned
<1>2. QED
    BY <1>1, InitAligned, PTL DEF Spec

THEOREM StableWalk ==
    ASSUME PagesAreServed
    PROVE  Spec => []StableWalkIsTheListing
<1>1. Inv => StableWalkIsTheListing
    <2>1. SUFFICES ASSUME Aligned, phase = "ended" PROVE yielded = listing
        BY DEF Inv, StableWalkIsTheListing, Still
    <2>2. page = <<>> /\ Reached = Len(listing) /\ Prefix
        BY <2>1 DEF Aligned, OnTheWay
    <2>3. /\ yielded \in Seq(Nat) /\ listing \in Seq(Nat) /\ Len(yielded) = Len(listing)
          /\ \A i \in 1..Len(yielded) : yielded[i] = listing[i]
        BY <2>2 DEF Prefix, Reached
    <2>4. QED
        BY <2>3
<1>2. QED
    BY <1>1, WalkTheorem, PTL
-----------------------------------------------------------------------------
(* A listing that moves.                                                     *)
(* Every walk is served pages of the size it asks for. *)
EveryPageIsServed ==
    \A w \in Walkers : LimitOf(w) <= ServerCap

(* What a walk has had, handed out or at hand. *)
Had == ToSet(yielded) \cup ToSet(page)

(* There is a page with rows to ask for, and where it begins. *)
Pending == OnTheWay /\ place # END_CURSOR
Behind(n) == {listing[i] : i \in {j \in DOMAIN listing : j > n}}
Before(n) == {listing[i] : i \in {j \in DOMAIN listing : j <= n}}

(* Rows that will come again, and rows that were passed over. *)
Again == IF Pending THEN Behind(Decode(place)) \cap Had ELSE {}
Missed == (IF Pending THEN lasting \cap Before(Decode(place)) ELSE lasting) \ Had

Multiple(n) == \E k \in Nat : n = k * Limit

(* Where the walks stand. *)
Places ==
    /\ \/ place \in {NoCursor, END_CURSOR, EmptyCursor}
       \/ Counted(place) /\ Multiple(place[1])
    /\ walker = "iterator" => Counted(place)
    /\ walker \in {"account", "async_account"} => place # END_CURSOR
    /\ phase # "handing" => page = <<>>
    /\ more \in BOOLEAN /\ Len(page) <= ServerCap

(* A collector on its way has asked with every cursor before its place. *)
Collected ==
    /\ walker # "collector" => seen = {}
    /\ walker = "collector" /\ OnTheWay =>
         /\ Counted(place)
         /\ \A c \in seen : Counted(c) /\ c[1] < place[1]
         /\ \A k \in Nat : k * Limit < place[1] => <<k * Limit>> \in seen

(* Every row is one row, and those to come are others. *)
Rowed ==
    /\ listing \in Seq(Nat) /\ page \in Seq(Nat) /\ yielded \in Seq(Nat)
    /\ \A i, j \in DOMAIN listing : listing[i] = listing[j] => i = j
    /\ \A row \in ToSet(listing) \cup Had : row <= MaxRows + inserts
    /\ lasting \subseteq ToSet(listing)

Counters ==
    /\ walker \in Walkers
    /\ phase \in {"asking", "handing", "ended", "failed"}
    /\ inserts \in 0..MaxInserts /\ removals \in 0..MaxRemovals
    /\ failures \in 0..MaxFailures /\ odd \in 0..MaxOdd

(* The rows had twice, and to be had again, are no more than the inserts.     *)
RepeatsBound ==
    walker = "collector" \/ odd = 0 =>
        Reached + Cardinality(Again) <= Cardinality(Had) + inserts

MissesBound == odd = 0 => Cardinality(Missed) <= removals

MovingInv ==
    Counters /\ Places /\ Collected /\ Rowed /\ RepeatsBound /\ MissesBound

-----------------------------------------------------------------------------
(* Sets of rows. *)

LEMMA FirstNumbers ==
    ASSUME NEW n \in Nat
    PROVE  IsFiniteSet(1..n) /\ Cardinality(1..n) = n
<1>1. 1 \in Int /\ n \in Int
    OBVIOUS
<1>2. IsFiniteSet(1..n) /\ Cardinality(1..n) = IF 1 > n THEN 0 ELSE n - 1 + 1
    BY <1>1, FS_Interval, SMTT(60)
<1>3. (IF 1 > n THEN 0 ELSE n - 1 + 1) = n
    OBVIOUS
<1>4. QED
    BY <1>2, <1>3

LEMMA FiniteRows ==
    ASSUME NEW s \in Seq(Nat)
    PROVE  IsFiniteSet(ToSet(s)) /\ Cardinality(ToSet(s)) <= Len(s)
<1>1. DOMAIN s = 1..Len(s) /\ Len(s) \in Nat
    OBVIOUS
<1>2. IsFiniteSet(1..Len(s)) /\ Cardinality(1..Len(s)) = Len(s)
    BY <1>1, FirstNumbers
<1>3. s \in Surjection(1..Len(s), ToSet(s))
    BY <1>1 DEF ToSet, Surjection, Range
<1>4. QED
    BY <1>2, <1>3, FS_Surjection

LEMMA DistinctRows ==
    ASSUME NEW s \in Seq(Nat), \A i, j \in 1..Len(s) : s[i] = s[j] => i = j
    PROVE  Cardinality(ToSet(s)) = Len(s)
<1>1. DOMAIN s = 1..Len(s) /\ Len(s) \in Nat
    OBVIOUS
<1>2. IsFiniteSet(1..Len(s)) /\ Cardinality(1..Len(s)) = Len(s)
    BY <1>1, FirstNumbers
<1>3. s \in Surjection(1..Len(s), ToSet(s)) /\ s \in Injection(1..Len(s), ToSet(s))
    BY <1>1 DEF ToSet, Surjection, Injection, Range, IsInjective
<1>4. QED
    BY <1>2, <1>3, FS_Surjection

(* Two sets apart within a third. *)
LEMMA Apart ==
    ASSUME NEW A, NEW B, NEW C, IsFiniteSet(C), A \subseteq C, B \subseteq C,
           A \cap B = {}
    PROVE  /\ Cardinality(A) \in Nat /\ Cardinality(B) \in Nat /\ Cardinality(C) \in Nat
           /\ Cardinality(A) + Cardinality(B) <= Cardinality(C)
<1>1. IsFiniteSet(A) /\ IsFiniteSet(B) /\ IsFiniteSet(A \cup B)
    BY FS_Subset, A \in SUBSET C, B \in SUBSET C, A \cup B \in SUBSET C
<1>2. Cardinality(A \cup B) = Cardinality(A) + Cardinality(B) - Cardinality(A \cap B)
    BY <1>1, FS_Union
<1>3. Cardinality(A \cap B) = 0
    BY FS_EmptySet
<1>4. Cardinality(A \cup B) <= Cardinality(C)
    BY FS_Subset, A \cup B \in SUBSET C
<1>5. QED
    BY <1>1, <1>2, <1>3, <1>4, FS_CardinalityType

LEMMA OneMore ==
    ASSUME NEW A, NEW B, NEW x, IsFiniteSet(A), B \subseteq A \cup {x}
    PROVE  /\ Cardinality(A) \in Nat /\ Cardinality(B) \in Nat
           /\ Cardinality(B) <= Cardinality(A) + 1
<1>1. /\ IsFiniteSet(A \cup {x})
      /\ Cardinality(A \cup {x}) = IF x \in A THEN Cardinality(A) ELSE Cardinality(A) + 1
    BY FS_AddElement
<1>2. IsFiniteSet(B) /\ Cardinality(B) <= Cardinality(A \cup {x})
    BY <1>1, FS_Subset, B \in SUBSET (A \cup {x})
<1>3. QED
    BY <1>1, <1>2, FS_CardinalityType

LEMMA NoMore ==
    ASSUME NEW A, NEW B, IsFiniteSet(A), B \subseteq A
    PROVE  /\ Cardinality(A) \in Nat /\ Cardinality(B) \in Nat
           /\ Cardinality(B) <= Cardinality(A)
BY FS_Subset, FS_CardinalityType, B \in SUBSET A

(* What the bounds count is finite. *)
LEMMA FiniteHad ==
    ASSUME Rowed
    PROVE  /\ IsFiniteSet(Had) /\ IsFiniteSet(Again) /\ IsFiniteSet(Missed)
           /\ IsFiniteSet(lasting) /\ Cardinality(Had) \in Nat
<1>1. IsFiniteSet(ToSet(yielded)) /\ IsFiniteSet(ToSet(page)) /\ IsFiniteSet(ToSet(listing))
    BY FiniteRows DEF Rowed
<1>2. IsFiniteSet(Had)
    BY <1>1, FS_Union DEF Had
<1>3. IsFiniteSet(lasting)
    BY <1>1, FS_Subset, lasting \in SUBSET ToSet(listing) DEF Rowed
<1>4. Again \in SUBSET Had /\ Missed \in SUBSET lasting
    BY DEF Again, Missed
<1>5. QED
    BY <1>2, <1>3, <1>4, FS_Subset, FS_CardinalityType
-----------------------------------------------------------------------------
(* A page of rows. *)

LEMMA RowsServed ==
    ASSUME walker \in Walkers, listing \in Seq(Nat), NEW n \in Nat
    PROVE  /\ Serve(n) \in Seq(Nat)
           /\ \A i \in 1..Len(Serve(n)) :
                 n + i \in 1..Len(listing) /\ Serve(n)[i] = listing[n + i]
           /\ Len(Serve(n)) \in Nat /\ Len(Serve(n)) <= ServerCap
           /\ Len(Serve(n)) <= Limit
           /\ EveryPageIsServed /\ Len(Serve(n)) < Limit => n + Len(Serve(n)) >= Len(listing)
<1>1. Limit \in Nat \ {0} /\ ServerCap \in Nat \ {0} /\ Len(listing) \in Nat
    BY LimitIsServed, WalkAssumption
<1>2. EveryPageIsServed => Limit <= ServerCap
    BY DEF EveryPageIsServed, Limit
<1>3. CASE n <= Len(listing)
    <2>1. n \in 0..Len(listing)
        BY <1>1, <1>3
    <2>2. /\ Serve(n) \in Seq(Nat)
          /\ n + Len(Serve(n)) <= Len(listing)
          /\ \A i \in 1..Len(Serve(n)) : Serve(n)[i] = listing[n + i]
        BY <2>1, ServedRows
    <2>3. Len(Serve(n)) =
             LET size == IF Limit > ServerCap THEN ServerCap ELSE Limit
             IN  IF n + size > Len(listing) THEN Len(listing) - n ELSE size
        BY <2>1, PageLength
    <2>4. Len(Serve(n)) \in Nat
        BY <2>2
    <2>5. /\ Len(Serve(n)) <= ServerCap /\ Len(Serve(n)) <= Limit
          /\ EveryPageIsServed /\ Len(Serve(n)) < Limit => n + Len(Serve(n)) >= Len(listing)
        <3> DEFINE m == Len(Serve(n))
                   size == IF Limit > ServerCap THEN ServerCap ELSE Limit
        <3>1. m = IF n + size > Len(listing) THEN Len(listing) - n ELSE size
            BY <2>3
        <3>2. m \in Nat
            BY <2>4
        <3> HIDE DEF m
        <3>3. /\ m <= ServerCap /\ m <= Limit
              /\ EveryPageIsServed /\ m < Limit => n + m >= Len(listing)
            BY <1>1, <1>2, <1>3, <3>1, <3>2
        <3>4. QED
            BY <3>3 DEF m
    <2>6. \A i \in 1..Len(Serve(n)) :
             n + i \in 1..Len(listing) /\ Serve(n)[i] = listing[n + i]
        BY <1>1, <2>2, <2>4
    <2>7. QED
        BY <2>2, <2>4, <2>5, <2>6
<1>4. CASE n > Len(listing)
    <2>1. Serve(n) = SubSeq(listing, n + 1, Len(listing))
        BY <1>1, <1>4 DEF Serve
    <2>2. Serve(n) \in Seq(Nat) /\ Len(Serve(n)) = 0
        BY <1>1, <1>4, <2>1
    <2>3. 1..0 = {}
        OBVIOUS
    <2>4. \A i \in 1..Len(Serve(n)) :
             n + i \in 1..Len(listing) /\ Serve(n)[i] = listing[n + i]
        BY <2>2, <2>3
    <2>5. 0 <= ServerCap /\ 0 <= Limit /\ n + 0 >= Len(listing)
        BY <1>1, <1>4
    <2>6. QED
        BY <2>2, <2>4, <2>5
<1>5. QED
    BY <1>1, <1>3, <1>4
-----------------------------------------------------------------------------
(* A fetch: of a page that is behind the place, or of none. *)

LEMMA FetchedRows ==
    ASSUME walker \in Walkers, Rowed, page = <<>>,
           page' = <<>> \/ \E n \in Nat : page' = Serve(n),
           UNCHANGED <<yielded, listing, lasting, inserts>>
    PROVE  Rowed' /\ Had' = Had \cup ToSet(page') /\ Len(page') <= ServerCap
<1>1. /\ page' \in Seq(Nat) /\ Len(page') <= ServerCap
      /\ ToSet(page') \subseteq ToSet(listing)
    <2>1. CASE page' = <<>>
        BY <2>1, WalkAssumption DEF ToSet
    <2>2. CASE \E n \in Nat : page' = Serve(n)
        <3>1. PICK n \in Nat : page' = Serve(n)
            BY <2>2
        <3>2. /\ Serve(n) \in Seq(Nat) /\ Len(Serve(n)) <= ServerCap
              /\ \A i \in 1..Len(Serve(n)) :
                    n + i \in 1..Len(listing) /\ Serve(n)[i] = listing[n + i]
            BY RowsServed DEF Rowed
        <3>3. /\ page' \in Seq(Nat) /\ Len(page') <= ServerCap
              /\ \A i \in 1..Len(page') :
                    n + i \in 1..Len(listing) /\ page'[i] = listing[n + i]
            BY <3>1, <3>2
        <3>4. DOMAIN page' = 1..Len(page') /\ DOMAIN listing = 1..Len(listing)
            BY <3>3 DEF Rowed
        <3>5. ToSet(page') \subseteq ToSet(listing)
            BY <3>3, <3>4 DEF ToSet
        <3>6. QED
            BY <3>3, <3>5
    <2>3. QED
        BY <2>1, <2>2
<1>2. Had = ToSet(yielded) /\ Had' = ToSet(yielded) \cup ToSet(page')
    BY DEF Had, ToSet
<1>3. QED
    BY <1>1, <1>2 DEF Rowed

LEMMA FetchRepeats ==
    ASSUME walker \in Walkers, Rowed, RepeatsBound, Pending, page = <<>>,
           NEW n \in Nat, n = Decode(place), page' = Serve(n),
           UNCHANGED <<walker, yielded, listing, lasting, inserts>>, inserts \in Nat,
           odd' = 0 => odd = 0,
           odd' = 0 \/ walker = "collector" =>
              (Pending' => Decode(place') = n + Len(page'))
    PROVE  RepeatsBound'
<1>1. SUFFICES ASSUME walker = "collector" \/ odd' = 0
               PROVE  Reached' + Cardinality(Again') <= Cardinality(Had') + inserts
    BY DEF RepeatsBound
<1>2. Reached + Cardinality(Again) <= Cardinality(Had) + inserts
    BY <1>1 DEF RepeatsBound
<1>3. Rowed' /\ Had' = Had \cup ToSet(page')
    BY FetchedRows
<1>4. /\ page' \in Seq(Nat) /\ Len(page') \in Nat
      /\ \A i \in 1..Len(page') : n + i \in 1..Len(listing) /\ page'[i] = listing[n + i]
    BY RowsServed DEF Rowed
<1>5. IsFiniteSet(Had) /\ IsFiniteSet(Again) /\ Cardinality(Had) \in Nat
    BY FiniteHad
<1>6. IsFiniteSet(ToSet(page')) /\ Cardinality(ToSet(page')) = Len(page')
    <2>1. ASSUME NEW i \in 1..Len(page'), NEW j \in 1..Len(page'), page'[i] = page'[j]
          PROVE  i = j
        <3>1. /\ n + i \in DOMAIN listing /\ n + j \in DOMAIN listing
              /\ listing[n + i] = listing[n + j]
            <4>1. listing \in Seq(Nat)
                BY DEF Rowed
            <4>2. n + i \in 1..Len(listing) /\ n + j \in 1..Len(listing)
                BY <1>4
            <4>3. page'[i] = listing[n + i] /\ page'[j] = listing[n + j]
                BY <1>4
            <4>4. DOMAIN listing = 1..Len(listing)
                BY <4>1
            <4>5. listing[n + i] = listing[n + j]
                BY <2>1, <4>3
            <4>6. QED
                BY <4>2, <4>4, <4>5
        <3>2. n + i = n + j
            BY <3>1 DEF Rowed
        <3>3. QED
            BY <1>4, <3>2
    <2>2. QED
        BY <1>4, <2>1, FiniteRows, DistinctRows
<1>7. Cardinality(Had') = Cardinality(Had) + Len(page') - Cardinality(Had \cap ToSet(page'))
    BY <1>3, <1>5, <1>6, FS_Union
<1>8. DOMAIN listing = 1..Len(listing) /\ Len(listing) \in Nat
      /\ DOMAIN page' = 1..Len(page')
    <2>1. listing \in Seq(Nat) /\ page' \in Seq(Nat)
        BY <1>4 DEF Rowed
    <2>2. QED
        BY <2>1
<1>9. Had \cap ToSet(page') \subseteq Again
    BY <1>4, <1>8 DEF Again, Behind, ToSet
<1>10. Again' \subseteq Again /\ Again' \cap (Had \cap ToSet(page')) = {}
    <2>1. CASE ~Pending'
        BY <2>1 DEF Again
    <2>2. CASE Pending'
        <3>1. Decode(place') = n + Len(page')
            BY <1>1, <2>2
        <3>2. SUFFICES ASSUME NEW i \in 1..Len(listing), i > n + Len(page'),
                              listing[i] \in Had'
                       PROVE  listing[i] \in Again /\ listing[i] \notin ToSet(page')
            BY <1>8, <2>2, <3>1 DEF Again, Behind
        <3>3. listing[i] \notin ToSet(page')
            <4>1. SUFFICES ASSUME NEW j \in 1..Len(page'), listing[i] = page'[j]
                           PROVE  FALSE
                BY <1>8 DEF ToSet
            <4>2. n + j \in 1..Len(listing) /\ listing[i] = listing[n + j]
                BY <1>4, <4>1
            <4>3. i = n + j
                BY <1>8, <4>2 DEF Rowed
            <4>4. QED
                BY <1>4, <3>2, <4>3
        <3>4. listing[i] \in Had
            BY <1>3, <3>2, <3>3
        <3>5. i > n
            BY <1>4, <3>2
        <3>6. QED
            BY <1>8, <3>3, <3>4, <3>5 DEF Again, Behind
    <2>3. QED
        BY <2>1, <2>2
<1>11. /\ Cardinality(Had \cap ToSet(page')) \in Nat /\ Cardinality(Again') \in Nat
       /\ Cardinality(Again') + Cardinality(Had \cap ToSet(page')) <= Cardinality(Again)
       /\ Cardinality(Again) \in Nat
    BY <1>5, <1>9, <1>10, Apart
<1>12. Reached = Len(yielded) /\ Reached' = Len(yielded) + Len(page') /\ Len(yielded) \in Nat
    BY <1>4 DEF Reached, Rowed
<1>13. QED
    <2>1. Reached' + Cardinality(Again')
            <= Reached + Cardinality(Again) + Len(page') - Cardinality(Had \cap ToSet(page'))
        BY <1>4, <1>11, <1>12
    <2>2. Cardinality(Had') + inserts
            >= Reached + Cardinality(Again) + Len(page') - Cardinality(Had \cap ToSet(page'))
        BY <1>2, <1>4, <1>5, <1>7, <1>11, <1>12
    <2>3. /\ Cardinality(Had') + inserts \in Int
          /\ Reached' + Cardinality(Again') \in Int
          /\ Reached + Cardinality(Again) + Len(page') - Cardinality(Had \cap ToSet(page')) \in Int
        BY <1>4, <1>5, <1>7, <1>11, <1>12
    <2>4. QED
        BY <2>1, <2>2, <2>3

LEMMA FetchMisses ==
    ASSUME walker \in Walkers, Rowed, MissesBound, Pending, page = <<>>,
           NEW n \in Nat, n = Decode(place), page' = Serve(n), removals \in Nat,
           UNCHANGED <<yielded, listing, lasting, inserts, removals>>,
           odd' = 0 => odd = 0,
           odd' = 0 => IF Pending' THEN Decode(place') = n + Len(page')
                       ELSE n + Len(page') >= Len(listing)
    PROVE  MissesBound'
<1>1. SUFFICES ASSUME odd' = 0 PROVE Cardinality(Missed') <= removals
    BY DEF MissesBound
<1>2. Cardinality(Missed) <= removals
    BY <1>1 DEF MissesBound
<1>3. Rowed' /\ Had' = Had \cup ToSet(page')
    BY FetchedRows
<1>4. /\ page' \in Seq(Nat) /\ Len(page') \in Nat
      /\ \A i \in 1..Len(page') : n + i \in 1..Len(listing) /\ page'[i] = listing[n + i]
    BY RowsServed DEF Rowed
<1>5. DOMAIN listing = 1..Len(listing) /\ Len(listing) \in Nat
      /\ DOMAIN page' = 1..Len(page')
    BY <1>4 DEF Rowed
<1>6. ASSUME NEW i \in 1..Len(listing), i <= n + Len(page'), listing[i] \notin Had'
      PROVE  i <= n
    <2>1. SUFFICES ASSUME i > n PROVE FALSE
        OBVIOUS
    <2>2. i - n \in 1..Len(page') /\ i = n + (i - n)
        BY <1>4, <1>6, <2>1
    <2>3. listing[i] = page'[i - n]
        BY <1>4, <2>2
    <2>4. listing[i] \in ToSet(page')
        BY <1>5, <2>2, <2>3 DEF ToSet
    <2>5. QED
        BY <1>3, <1>6, <2>4
<1>7. Missed' \subseteq Missed
    <2>1. SUFFICES ASSUME NEW row \in Missed' PROVE row \in Missed
        OBVIOUS
    <2>2. row \in lasting /\ row \notin Had' /\ row \notin Had
        BY <1>3, <2>1 DEF Missed
    <2>3. PICK i \in 1..Len(listing) : row = listing[i] /\ i <= n + Len(page')
        <3>1. CASE Pending'
            <4>1. Decode(place') = n + Len(page')
                BY <1>1, <3>1
            <4>2. row \in Before(Decode(place))'
                BY <2>1, <3>1 DEF Missed
            <4>3. QED
                BY <1>5, <4>1, <4>2 DEF Before
        <3>2. CASE ~Pending'
            <4>1. n + Len(page') >= Len(listing)
                BY <1>1, <3>2
            <4>2. row \in ToSet(listing)
                BY <2>2 DEF Rowed
            <4>3. QED
                BY <1>4, <1>5, <4>1, <4>2 DEF ToSet
        <3>3. QED
            BY <3>1, <3>2
    <2>4. i <= n
        BY <1>6, <2>2, <2>3
    <2>5. QED
        BY <1>5, <2>2, <2>3, <2>4 DEF Missed, Before
<1>8. QED
    BY <1>2, <1>7, FiniteHad, NoMore

-----------------------------------------------------------------------------
(* Steps that move neither the place nor the listing. *)

LEMMA BoundsStay ==
    ASSUME RepeatsBound, MissesBound, Had' = Had, Reached' = Reached,
           Pending' <=> Pending, Pending => Decode(place') = Decode(place),
           UNCHANGED <<walker, listing, lasting, inserts, removals, odd>>
    PROVE  RepeatsBound' /\ MissesBound'
<1>1. Again' = Again
    BY DEF Again, Behind
<1>2. Missed' = Missed
    BY DEF Missed, Before
<1>3. QED
    BY <1>1, <1>2 DEF RepeatsBound, MissesBound
-----------------------------------------------------------------------------
(* The places a walk goes to. *)

LEMMA Multiples ==
    ASSUME walker \in Walkers
    PROVE  /\ Multiple(0)
           /\ \A n \in Nat : Multiple(n) => Multiple(n + Limit)
           /\ \A n \in Nat : Multiple(n) => n % Limit = 0
           /\ \A k \in Nat : k * Limit \in Nat /\ Multiple(k * Limit)
<1> DEFINE L == Limit
<1>1. L \in Nat \ {0}
    BY LimitIsServed
<1> HIDE DEF L
<1>2. \A k \in Nat : k * L \in Nat /\ (k + 1) * L = k * L + L /\ (k * L) % L = 0
    BY <1>1
<1>3. 0 * L = 0
    BY <1>1
<1>4. \E k \in Nat : 0 = k * L
    BY <1>3
<1>5. ASSUME NEW n \in Nat, NEW k \in Nat, n = k * L
      PROVE  /\ \E m \in Nat : n + L = m * L
             /\ n % L = 0
    <2>1. n + L = (k + 1) * L /\ k + 1 \in Nat
        BY <1>2, <1>5
    <2>2. n % L = 0
        BY <1>2, <1>5
    <2>3. QED
        BY <2>1, <2>2
<1>6. \A k \in Nat : k * L \in Nat /\ \E m \in Nat : k * L = m * L
    BY <1>2
<1>7. QED
    BY <1>4, <1>5, <1>6 DEF Multiple, L

LEMMA PlaceIsMultiple ==
    ASSUME walker \in Walkers, Places, place # END_CURSOR
    PROVE  Decode(place) \in Nat /\ Multiple(Decode(place))
BY Multiples DEF Places, Counted, Decode, NoCursor, EmptyCursor, END_CURSOR

Known == walker \in Walkers /\ Places /\ Collected /\ Rowed

LEMMA FetchStep ==
    ASSUME EveryPageIsServed, Counters, Known, RepeatsBound, MissesBound,
           NEW w \in Walkers \ ByCursor, FetchBy(w)
    PROVE  Known' /\ RepeatsBound' /\ MissesBound'
<1> DEFINE offset == Decode(place)
           rows == Rows(offset)
<1>1. /\ phase = "asking" /\ phase' = "handing" /\ walker = w /\ walker' = walker
      /\ page' = rows /\ place' = NextPlace(offset, rows)
      /\ more' = GoesOn(offset, rows)
      /\ yielded' = yielded /\ seen' = seen /\ listing' = listing /\ lasting' = lasting
      /\ inserts' = inserts /\ removals' = removals /\ odd' = odd
    BY DEF FetchBy, server
<1>2. Limit \in Nat \ {0} /\ Limit' = Limit /\ ServerCap \in Nat \ {0}
    BY <1>1, LimitIsServed, WalkAssumption DEF Limit
<1>3. page = <<>> /\ walker' \notin ByCursor /\ inserts \in Nat /\ removals \in Nat
    BY <1>1 DEF Known, Places, Counters
<1>4. more' \in BOOLEAN
    <2>1. GoesOn(offset, rows) \in BOOLEAN
        BY Zenon DEF GoesOn
    <2>2. QED
        BY <1>1, <2>1, Zenon
<1>5. Collected'
    <2>1. walker # "collector" /\ walker' # "collector"
        BY <1>1 DEF ByCursor
    <2>2. QED
        BY <1>1, <2>1 DEF Known, Collected
<1>6. CASE place = END_CURSOR
    <2>1. offset = -1 /\ walker # "iterator"
        BY <1>6 DEF Decode, END_CURSOR, NoCursor, EmptyCursor, Known, Places, Counted
    <2>2. rows = <<>> /\ NextPlace(offset, rows) = PastEnd
        BY <2>1 DEF Rows, NextPlace
    <2>3. Len(rows) = 0
        BY <2>2
    <2>4. ~ GoesOn(offset, rows)
        BY <1>2, <2>1, <2>2, <2>3 DEF GoesOn, PastEnd, Clob
    <2>5. Places'
        <3>1. place' \in {NoCursor, END_CURSOR} /\ walker' # "iterator" /\ Len(page') <= ServerCap
            BY <1>1, <1>2, <2>1, <2>2, <2>3 DEF PastEnd
        <3>2. QED
            BY <1>1, <1>3, <1>4, <3>1, Zenon DEF Places, ByCursor
    <2>6. Rowed' /\ Had' = Had /\ Reached' = Reached
        <3>1. page' = page /\ page' = <<>> /\ yielded' = yielded
            BY <1>1, <1>3, <2>2
        <3>2. Rowed'
            BY <1>1, <1>3, <3>1, FetchedRows DEF Known
        <3>3. QED
            BY <3>1, <3>2 DEF Had, Reached
    <2>7. ~Pending /\ ~Pending'
        BY <1>1, <1>6, <2>4 DEF Pending, OnTheWay
    <2>8. RepeatsBound' /\ MissesBound'
        BY <1>1, <2>6, <2>7, BoundsStay
    <2>9. QED
        BY <1>1, <1>5, <2>5, <2>6, <2>8 DEF Known
<1>7. CASE place # END_CURSOR
    <2>1. offset \in Nat /\ Multiple(offset)
        BY <1>7, PlaceIsMultiple DEF Known
    <2>2. rows = Serve(offset)
        BY <2>1 DEF Rows
    <2>3. /\ Len(rows) \in Nat /\ Len(rows) <= Limit /\ Len(rows) <= ServerCap
          /\ Len(rows) < Limit => offset + Len(rows) >= Len(listing)
        BY <2>1, <2>2, RowsServed DEF Known, Rowed
    <2>4. Rowed'
        BY <1>1, <1>3, <2>1, <2>2, FetchedRows DEF Known
    <2>5. Pending
        BY <1>1, <1>7 DEF Pending, OnTheWay
    <2>6. /\ Places'
          /\ IF Pending' THEN Decode(place') = offset + Len(page')
             ELSE offset + Len(page') >= Len(listing)
        <3>1. CASE Len(rows) >= Limit
            <4>1. place' = <<offset + Limit>> /\ Len(rows) = Limit
                BY <1>1, <1>2, <2>1, <2>3, <3>1 DEF NextPlace
            <4>2. /\ Counted(place') /\ place'[1] = offset + Limit
                  /\ Decode(place') = offset + Limit
                  /\ place' # END_CURSOR /\ place' # NoCursor
                BY <1>2, <2>1, <4>1 DEF Counted, Decode, NoCursor, EmptyCursor, END_CURSOR
            <4>3. GoesOn(offset, rows)
                BY <1>1, <1>2, <2>3, <3>1, <4>1, <4>2 DEF GoesOn
            <4>4. Multiple(offset + Limit)
                BY <2>1, Multiples DEF Known
            <4>5. Multiple(place[1])'
                BY <1>2, <4>2, <4>4 DEF Multiple
            <4>6. Len(page') <= ServerCap
                BY <1>1, <2>3
            <4>7. Places'
                BY <1>1, <1>3, <1>4, <4>2, <4>5, <4>6 DEF Places
            <4>8. QED
                BY <1>1, <4>1, <4>2, <4>3, <4>7 DEF Pending, OnTheWay
        <3>2. CASE Len(rows) < Limit
            <4>1. place' = IF walker = "iterator" THEN <<offset + Limit>> ELSE END_CURSOR
                BY <1>1, <1>2, <2>1, <2>3, <3>2 DEF NextPlace
            <4>2. GoesOn(offset, rows) => walker \in {"cursors", "clob_past"}
                BY <1>1, <1>2, <2>3, <3>2, <4>1 DEF GoesOn, END_CURSOR, NoCursor
            <4>3. ~Pending'
                BY <1>1, <4>1, <4>2 DEF Pending, OnTheWay
            <4>4. walker = "iterator" => Counted(place') /\ Multiple(place[1])'
                <5>1. Multiple(offset + Limit) /\ offset + Limit \in Nat
                    BY <1>2, <2>1, Multiples DEF Known
                <5>2. QED
                    BY <1>2, <4>1, <5>1 DEF Multiple, Counted
            <4>5. Len(page') <= ServerCap
                BY <1>1, <2>3
            <4>6. walker' # "iterator" => place' = END_CURSOR
                BY <1>1, <4>1
            <4>7. Places'
                BY <1>1, <1>3, <1>4, <4>4, <4>5, <4>6 DEF Places, ByCursor
            <4>8. QED
                BY <1>1, <2>3, <3>2, <4>3, <4>7
        <3>3. QED
            BY <1>2, <2>3, <3>1, <3>2
    <2>7. RepeatsBound'
        BY <1>1, <1>3, <2>1, <2>2, <2>5, <2>6, FetchRepeats DEF Known
    <2>8. MissesBound'
        BY <1>1, <1>3, <2>1, <2>2, <2>5, <2>6, FetchMisses DEF Known
    <2>9. QED
        BY <1>1, <1>5, <2>4, <2>6, <2>7, <2>8 DEF Known
<1>8. QED
    BY <1>6, <1>7
(* A server's page with the cursor of the next, or an odd one.                *)
LEMMA AskStep ==
    ASSUME EveryPageIsServed, Counters, Known, phase = "asking", place # END_CURSOR,
           NEW n \in Nat, n = Decode(place), NEW cursor, Ask(cursor)
    PROVE  /\ Rowed' /\ page' = Serve(n) /\ Len(page') <= ServerCap /\ Len(page') \in Nat
           /\ Multiple(n) /\ Limit' = Limit
           /\ \/ cursor \in {NoCursor, END_CURSOR, EmptyCursor}
              \/ Counted(cursor) /\ Multiple(cursor[1])
           /\ \/ /\ odd' = odd
                 /\ IF n + Len(page') < Len(listing)
                    THEN cursor = <<n + Limit>> /\ Len(page') = Limit
                    ELSE cursor = END_CURSOR
              \/ odd' = odd + 1 /\ odd' <= MaxOdd /\ cursor \in OddCursors(n)
<1>1. /\ page' = Serve(n) /\ page = <<>>
      /\ UNCHANGED <<walker, yielded, listing, lasting, inserts>>
      /\ \/ cursor = ServerCursor(n, Serve(n)) /\ odd' = odd
         \/ cursor \in OddCursors(n) /\ odd < MaxOdd /\ odd' = odd + 1
    BY DEF Ask, server, Known, Places
<1>2. Rowed' /\ Len(page') <= ServerCap
    BY <1>1, FetchedRows DEF Known
<1>3. Limit \in Nat \ {0} /\ Limit' = Limit
    BY <1>1, LimitIsServed DEF Limit, Known
<1>4. Multiple(n)
    BY PlaceIsMultiple DEF Known
<1>5. /\ Len(page') \in Nat /\ Len(page') <= Limit
      /\ Len(page') < Limit => n + Len(page') >= Len(listing)
    BY <1>1, RowsServed DEF Known, Rowed
<1>6. Len(listing) \in Nat
    BY DEF Known, Rowed
<1>7. CASE cursor = ServerCursor(n, Serve(n)) /\ odd' = odd
    <2>1. CASE n + Len(page') < Len(listing)
        <3>1. Len(page') = Limit
            BY <1>3, <1>5, <1>6, <2>1
        <3>2. cursor = <<n + Limit>>
            BY <1>1, <1>7, <2>1, <3>1 DEF ServerCursor
        <3>3. Multiple(n + Limit) /\ n + Limit \in Nat
            BY <1>3, <1>4, Multiples DEF Known
        <3>4. Counted(cursor) /\ Multiple(cursor[1])
            BY <3>2, <3>3 DEF Counted
        <3>5. QED
            BY <1>1, <1>2, <1>3, <1>4, <1>5, <1>7, <2>1, <3>1, <3>2, <3>4
    <2>2. CASE ~(n + Len(page') < Len(listing))
        <3>1. cursor = END_CURSOR
            BY <1>1, <1>7, <2>2 DEF ServerCursor
        <3>2. QED
            BY <1>1, <1>2, <1>3, <1>4, <1>5, <1>7, <2>2, <3>1
    <2>3. QED
        BY <2>1, <2>2
<1>8. CASE cursor \in OddCursors(n) /\ odd < MaxOdd /\ odd' = odd + 1
    <2>1. odd' <= MaxOdd
        BY <1>8, WalkAssumption DEF Counters
    <2>2. ASSUME cursor \notin {NoCursor, EmptyCursor}
          PROVE  Counted(cursor) /\ Multiple(cursor[1])
        <3>1. PICK k \in 0..(n \div Limit) : cursor = <<k * Limit>>
            BY <1>8, <2>2 DEF OddCursors
        <3>2. k \in Nat
            BY <1>3
        <3>3. k * Limit \in Nat /\ Multiple(k * Limit)
            BY <3>2, Multiples DEF Known
        <3>4. QED
            BY <3>1, <3>3 DEF Counted
    <2>3. QED
        BY <1>1, <1>2, <1>3, <1>4, <1>5, <1>8, <2>1, <2>2
<1>9. QED
    BY <1>1, <1>7, <1>8

(* Below the next place there is the present one and those before it.         *)
LEMMA MultiplesBelow ==
    ASSUME walker \in Walkers, NEW n \in Nat, Multiple(n),
           NEW k \in Nat, k * Limit < n + Limit
    PROVE  k * Limit <= n
<1> DEFINE L == Limit
<1>1. L \in Nat \ {0}
    BY LimitIsServed
<1>2. PICK m \in Nat : n = m * L
    BY DEF Multiple, L
<1>3. k * L < m * L + L
    BY <1>2
<1> HIDE DEF L
<1>4. k * L <= m * L
    BY <1>1, <1>3
<1>5. QED
    BY <1>2, <1>4 DEF L

LEMMA OddIsKnown ==
    ASSUME walker \in Walkers, NEW n \in Nat,
           NEW cursor \in OddCursors(n), cursor \notin {NoCursor, EmptyCursor}
    PROVE  \E k \in Nat : cursor = <<k * Limit>> /\ k * Limit <= n
<1> DEFINE L == Limit
<1>1. L \in Nat \ {0}
    BY LimitIsServed
<1>2. PICK k \in 0..(n \div L) : cursor = <<k * L>>
    BY DEF OddCursors
<1> HIDE DEF L
<1>3. k \in Nat /\ k * L <= n
    BY <1>1
<1>4. QED
    BY <1>2, <1>3 DEF L

LEMMA CollectStep ==
    ASSUME EveryPageIsServed, Counters, Known, RepeatsBound, MissesBound, Collect
    PROVE  Known' /\ RepeatsBound' /\ MissesBound' /\ odd' \in 0..MaxOdd
<1> DEFINE n == Decode(place)
<1>1. PICK cursor \in Cursors :
        Ask(cursor) /\ place' = cursor /\ more' = CollectsOn(cursor)
    BY DEF Collect
<1>2. /\ phase = "asking" /\ phase' = "handing" /\ walker = "collector"
      /\ seen' = seen \cup {place}
      /\ UNCHANGED <<walker, yielded, listing, lasting, inserts, removals>>
    BY <1>1 DEF Collect, Ask, server
<1>3. /\ Counted(place) /\ place[1] = n /\ place = <<n>> /\ n \in Nat /\ place # END_CURSOR
      /\ \A c \in seen : Counted(c) /\ c[1] < n
      /\ \A k \in Nat : k * Limit < n => <<k * Limit>> \in seen
    <2>1. /\ Counted(place)
          /\ \A c \in seen : Counted(c) /\ c[1] < place[1]
          /\ \A k \in Nat : k * Limit < place[1] => <<k * Limit>> \in seen
        BY <1>2 DEF Known, Collected, OnTheWay
    <2>2. place[1] = n /\ place # END_CURSOR
        BY <2>1 DEF Counted, Decode, NoCursor, EmptyCursor, END_CURSOR
    <2>3. QED
        BY <2>1, <2>2 DEF Counted
<1>4. page = <<>> /\ Pending /\ inserts \in Nat /\ removals \in Nat /\ odd \in Nat
    BY <1>2, <1>3 DEF Known, Places, Pending, OnTheWay, Counters
<1> HIDE DEF n
<1>5. n = Decode(place)
    BY DEF n
<1>6. /\ Rowed' /\ page' = Serve(n) /\ Len(page') <= ServerCap /\ Len(page') \in Nat
      /\ Multiple(n) /\ Limit' = Limit
      /\ \/ cursor \in {NoCursor, END_CURSOR, EmptyCursor}
         \/ Counted(cursor) /\ Multiple(cursor[1])
      /\ \/ /\ odd' = odd
            /\ IF n + Len(page') < Len(listing)
               THEN cursor = <<n + Limit>> /\ Len(page') = Limit
               ELSE cursor = END_CURSOR
         \/ odd' = odd + 1 /\ odd' <= MaxOdd /\ cursor \in OddCursors(n)
    BY <1>1, <1>2, <1>3, <1>5, AskStep
<1>7. odd' \in 0..MaxOdd /\ (odd' = 0 => odd = 0)
    BY <1>4, <1>6 DEF Counters
<1>8. more' \in BOOLEAN
    <2>1. CollectsOn(cursor) \in BOOLEAN
        BY Zenon DEF CollectsOn
    <2>2. QED
        BY <1>1, <2>1, Zenon
<1>9. Places'
    <2>1. \/ place' \in {NoCursor, END_CURSOR, EmptyCursor}
          \/ Counted(place') /\ Multiple(place[1])'
        BY <1>1, <1>6 DEF Multiple
    <2>2. walker' = "collector"
        BY <1>2
    <2>3. QED
        BY <1>2, <1>6, <1>8, <2>1, <2>2 DEF Places
<1>10. Limit \in Nat \ {0}
    BY LimitIsServed DEF Known
<1>11. CASE odd' = odd /\ n + Len(page') < Len(listing)
    <2>1. cursor = <<n + Limit>> /\ Len(page') = Limit
        BY <1>4, <1>6, <1>11
    <2>2. Counted(place') /\ place'[1] = n + Limit /\ Decode(place') = n + Limit
        BY <1>1, <1>3, <1>10, <2>1 DEF Counted, Decode, NoCursor, EmptyCursor
    <2>3. \A c \in seen' : Counted(c) /\ c[1] < place'[1]
        BY <1>2, <1>3, <1>10, <2>2 DEF Counted
    <2>4. ASSUME NEW k \in Nat, k * Limit < n + Limit PROVE <<k * Limit>> \in seen'
        <3>1. k * Limit <= n /\ k * Limit \in Nat
            BY <1>3, <1>6, <2>4, MultiplesBelow, Multiples DEF Known
        <3>2. CASE k * Limit = n
            BY <1>2, <1>3, <3>2
        <3>3. CASE k * Limit < n
            BY <1>2, <1>3, <3>3
        <3>4. QED
            BY <1>3, <3>1, <3>2, <3>3
    <2>5. Collected'
        BY <1>2, <1>6, <2>2, <2>3, <2>4 DEF Collected
    <2>6. Decode(place') = n + Len(page')
        BY <2>1, <2>2
    <2>7. Pending'
        <3>1. cursor \notin {NoCursor, EmptyCursor, END_CURSOR}
            BY <1>3, <1>10, <2>1 DEF NoCursor, EmptyCursor, END_CURSOR
        <3>2. cursor \notin seen /\ cursor # place
            BY <1>3, <1>10, <2>1 DEF Counted
        <3>3. CollectsOn(cursor)
            BY <3>1, <3>2 DEF CollectsOn
        <3>4. more'
            BY <1>1, <3>3, Zenon
        <3>5. QED
            BY <1>1, <1>2, <3>1, <3>4 DEF Pending, OnTheWay
    <2>8. RepeatsBound'
        BY <1>2, <1>3, <1>4, <1>5, <1>6, <1>7, <2>6, FetchRepeats DEF Known
    <2>9. MissesBound'
        BY <1>2, <1>3, <1>4, <1>5, <1>6, <1>7, <2>6, <2>7, FetchMisses DEF Known
    <2>10. QED
        BY <1>2, <1>6, <1>7, <1>9, <2>5, <2>8, <2>9 DEF Known
<1>12. CASE odd' # odd \/ ~(n + Len(page') < Len(listing))
    <2>1. ~CollectsOn(cursor)
        <3>1. CASE cursor \in {NoCursor, EmptyCursor, END_CURSOR}
            BY <3>1 DEF CollectsOn
        <3>2. CASE cursor \notin {NoCursor, EmptyCursor, END_CURSOR}
            <4>1. cursor \in OddCursors(n)
                BY <1>6, <1>12, <3>2
            <4>2. PICK k \in Nat : cursor = <<k * Limit>> /\ k * Limit <= n
                BY <1>3, <3>2, <4>1, OddIsKnown DEF Known
            <4>3. k * Limit \in Nat
                BY <4>2, Multiples DEF Known
            <4>4. CASE k * Limit = n
                BY <1>3, <4>2, <4>4 DEF CollectsOn
            <4>5. CASE k * Limit < n
                BY <1>3, <4>2, <4>5 DEF CollectsOn
            <4>6. QED
                BY <1>3, <4>2, <4>3, <4>4, <4>5
        <3>3. QED
            BY <3>1, <3>2
    <2>2. ~OnTheWay' /\ ~Pending'
        <3>1. ~more'
            BY <1>1, <2>1, Zenon
        <3>2. QED
            BY <1>2, <3>1 DEF OnTheWay, Pending
    <2>3. Collected'
        BY <1>2, <2>2 DEF Collected
    <2>4. RepeatsBound'
        BY <1>2, <1>3, <1>4, <1>5, <1>6, <1>7, <2>2, FetchRepeats DEF Known
    <2>5. odd' = 0 => n + Len(page') >= Len(listing)
        <3>1. Len(listing) \in Nat
            BY DEF Known, Rowed
        <3>2. QED
            BY <1>3, <1>4, <1>6, <1>12, <3>1
    <2>6. MissesBound'
        BY <1>2, <1>3, <1>4, <1>5, <1>6, <1>7, <2>2, <2>5, FetchMisses DEF Known
    <2>7. QED
        BY <1>2, <1>6, <1>7, <1>9, <2>3, <2>4, <2>6 DEF Known
<1>13. QED
    BY <1>11, <1>12

LEMMA FetchAccountStep ==
    ASSUME EveryPageIsServed, Counters, Known, RepeatsBound, MissesBound,
           NEW w \in {"account", "async_account"}, FetchAccount(w)
    PROVE  Known' /\ RepeatsBound' /\ MissesBound' /\ odd' \in 0..MaxOdd
<1> DEFINE n == Decode(place)
<1>1. PICK cursor \in Cursors :
        /\ Ask(cursor) /\ place' = PageCursor(cursor)
        /\ more' = (PageCursor(cursor) # NoCursor)
    BY DEF FetchAccount
<1>2. /\ phase = "asking" /\ phase' = "handing" /\ walker = w /\ seen' = seen
      /\ UNCHANGED <<walker, yielded, listing, lasting, inserts, removals>>
    BY <1>1 DEF FetchAccount, Ask, server
<1>3. place # END_CURSOR /\ n \in Nat
    <2>1. place # END_CURSOR
        BY <1>2 DEF Known, Places
    <2>2. QED
        BY <2>1, PlaceIsMultiple DEF Known
<1>4. page = <<>> /\ Pending /\ inserts \in Nat /\ removals \in Nat /\ odd \in Nat
    BY <1>2, <1>3 DEF Known, Places, Pending, OnTheWay, Counters
<1> HIDE DEF n
<1>5. n = Decode(place)
    BY DEF n
<1>6. /\ Rowed' /\ page' = Serve(n) /\ Len(page') <= ServerCap /\ Len(page') \in Nat
      /\ Multiple(n) /\ Limit' = Limit
      /\ \/ cursor \in {NoCursor, END_CURSOR, EmptyCursor}
         \/ Counted(cursor) /\ Multiple(cursor[1])
      /\ \/ /\ odd' = odd
            /\ IF n + Len(page') < Len(listing)
               THEN cursor = <<n + Limit>> /\ Len(page') = Limit
               ELSE cursor = END_CURSOR
         \/ odd' = odd + 1 /\ odd' <= MaxOdd /\ cursor \in OddCursors(n)
    BY <1>1, <1>2, <1>3, <1>5, AskStep
<1>7. odd' \in 0..MaxOdd /\ (odd' = 0 => odd = 0) /\ (odd' = 0 => odd' = odd)
    BY <1>4, <1>6 DEF Counters
<1>8. more' \in BOOLEAN
    BY <1>1, Zenon
<1>9. Places'
    <2>1. \/ place' \in {NoCursor, EmptyCursor}
          \/ Counted(place') /\ Multiple(place[1])'
        BY <1>1, <1>6 DEF Multiple, PageCursor
    <2>2. place' # END_CURSOR
        BY <2>1 DEF Counted, END_CURSOR, EmptyCursor, NoCursor
    <2>3. walker' # "iterator"
        BY <1>2
    <2>4. QED
        BY <1>2, <1>6, <1>8, <2>1, <2>2, <2>3 DEF Places
<1>10. Collected'
    BY <1>2 DEF Known, Collected
<1>11. Limit \in Nat \ {0} /\ Len(listing) \in Nat
    BY LimitIsServed DEF Known, Rowed
<1>12. odd' = 0 => IF Pending' THEN Decode(place') = n + Len(page')
                   ELSE n + Len(page') >= Len(listing)
    <2>1. SUFFICES ASSUME odd' = 0
                   PROVE  IF Pending' THEN Decode(place') = n + Len(page')
                          ELSE n + Len(page') >= Len(listing)
        OBVIOUS
    <2>2. CASE n + Len(page') < Len(listing)
        <3>1. cursor = <<n + Limit>> /\ Len(page') = Limit
            BY <1>4, <1>6, <1>7, <2>1, <2>2
        <3>2. place' = <<n + Limit>> /\ PageCursor(cursor) # NoCursor /\ place' # END_CURSOR
            BY <1>1, <1>3, <1>11, <3>1 DEF PageCursor, NoCursor, END_CURSOR
        <3>3. more'
            BY <1>1, <3>2, Zenon
        <3>4. Pending'
            BY <1>2, <3>2, <3>3 DEF Pending, OnTheWay
        <3>5. Decode(place') = n + Limit
            BY <1>3, <1>11, <3>2 DEF Decode, NoCursor, EmptyCursor
        <3>6. QED
            BY <3>1, <3>4, <3>5
    <2>3. CASE ~(n + Len(page') < Len(listing))
        <3>1. cursor = END_CURSOR
            BY <1>4, <1>6, <1>7, <2>1, <2>3
        <3>2. PageCursor(cursor) = NoCursor
            BY <3>1 DEF PageCursor
        <3>3. ~more'
            BY <1>1, <3>2, Zenon
        <3>4. ~Pending'
            BY <1>2, <3>3 DEF Pending, OnTheWay
        <3>5. n + Len(page') >= Len(listing)
            BY <1>3, <1>6, <1>11, <2>3
        <3>6. QED
            BY <3>4, <3>5
    <2>4. QED
        BY <2>2, <2>3
<1>13. RepeatsBound'
    <2>1. odd' = 0 \/ walker = "collector" => (Pending' => Decode(place') = n + Len(page'))
        BY <1>2, <1>12
    <2>2. QED
        BY <1>2, <1>3, <1>4, <1>5, <1>6, <1>7, <2>1, FetchRepeats DEF Known
<1>14. MissesBound'
    BY <1>2, <1>3, <1>4, <1>5, <1>6, <1>7, <1>12, FetchMisses DEF Known
<1>15. QED
    BY <1>2, <1>6, <1>7, <1>9, <1>10, <1>13, <1>14 DEF Known
-----------------------------------------------------------------------------
(* The consumer's steps, and failures. *)

LEMMA HandStep ==
    ASSUME Known, RepeatsBound, MissesBound, Hand
    PROVE  Known' /\ RepeatsBound' /\ MissesBound'
<1>1. /\ phase = "handing" /\ page # <<>> /\ yielded' = Append(yielded, Head(page))
      /\ page' = Tail(page)
      /\ UNCHANGED <<walker, phase, place, more, seen, listing, lasting, inserts,
                     removals, odd>>
    BY DEF Hand, server
<1>2. page \in Seq(Nat) /\ yielded \in Seq(Nat)
    BY DEF Known, Rowed
<1>3. /\ page' \in Seq(Nat) /\ yielded' \in Seq(Nat)
      /\ Len(page') = Len(page) - 1 /\ Len(yielded') = Len(yielded) + 1
      /\ Len(page) \in Nat \ {0} /\ Len(yielded) \in Nat
      /\ \A i \in 1..Len(page') : page'[i] = page[i + 1]
      /\ \A i \in 1..Len(yielded) : yielded'[i] = yielded[i]
      /\ yielded'[Len(yielded) + 1] = page[1]
    BY <1>1, <1>2
<1>4. /\ DOMAIN page = 1..Len(page) /\ DOMAIN page' = 1..Len(page')
      /\ DOMAIN yielded = 1..Len(yielded) /\ DOMAIN yielded' = 1..Len(yielded')
    BY <1>2, <1>3
<1>5. ToSet(page) = {page[1]} \cup ToSet(page')
    <2>1. ASSUME NEW row \in ToSet(page) PROVE row = page[1] \/ row \in ToSet(page')
        <3>1. PICK i \in 1..Len(page) : row = page[i]
            BY <1>4 DEF ToSet
        <3>2. CASE i # 1
            <4>1. i - 1 \in 1..Len(page')
                BY <1>3, <3>2
            <4>2. page'[i - 1] = page[(i - 1) + 1]
                BY <1>3, <4>1
            <4>3. (i - 1) + 1 = i
                OBVIOUS
            <4>4. QED
                BY <1>4, <3>1, <4>1, <4>2, <4>3 DEF ToSet
        <3>3. QED
            BY <3>1, <3>2
    <2>2. page[1] \in ToSet(page)
        BY <1>3, <1>4 DEF ToSet
    <2>3. ASSUME NEW i \in 1..Len(page') PROVE page'[i] \in ToSet(page)
        <3>1. i + 1 \in 1..Len(page) /\ page'[i] = page[i + 1]
            BY <1>3
        <3>2. QED
            BY <1>4, <3>1 DEF ToSet
    <2>4. ToSet(page') \subseteq ToSet(page)
        BY <1>4, <2>3 DEF ToSet
    <2>5. QED
        BY <2>1, <2>2, <2>4
<1>6. ToSet(yielded') = ToSet(yielded) \cup {page[1]}
    <2>1. ASSUME NEW i \in 1..Len(yielded')
          PROVE  yielded'[i] \in ToSet(yielded) \cup {page[1]}
        <3>1. CASE i = Len(yielded) + 1
            BY <1>3, <3>1
        <3>2. CASE i \in 1..Len(yielded)
            BY <1>3, <1>4, <3>2 DEF ToSet
        <3>3. QED
            BY <1>3, <3>1, <3>2
    <2>2. ToSet(yielded') \subseteq ToSet(yielded) \cup {page[1]}
        BY <1>4, <2>1 DEF ToSet
    <2>3. Len(yielded) + 1 \in 1..Len(yielded')
        BY <1>3
    <2>4. page[1] \in ToSet(yielded')
        BY <1>3, <1>4, <2>3 DEF ToSet
    <2>5. ASSUME NEW i \in 1..Len(yielded) PROVE yielded[i] \in ToSet(yielded')
        <3>1. i \in 1..Len(yielded') /\ yielded'[i] = yielded[i]
            BY <1>3
        <3>2. QED
            BY <1>4, <3>1 DEF ToSet
    <2>6. ToSet(yielded) \subseteq ToSet(yielded')
        BY <1>4, <2>5 DEF ToSet
    <2>7. QED
        BY <2>2, <2>4, <2>6
<1>7. Had' = Had
    BY <1>5, <1>6 DEF Had
<1>8. Reached' = Reached
    BY <1>3 DEF Reached
<1>9. (OnTheWay' <=> OnTheWay) /\ (Pending' <=> Pending)
    BY <1>1 DEF OnTheWay, Pending
<1>10. RepeatsBound' /\ MissesBound'
    BY <1>1, <1>7, <1>8, <1>9, BoundsStay DEF Decode
<1>11. Rowed'
    BY <1>1, <1>3, <1>7 DEF Known, Rowed
<1>12. Places'
    <2>1. Len(page') <= ServerCap
        BY <1>3, WalkAssumption DEF Known, Places
    <2>2. Limit' = Limit
        BY <1>1 DEF Limit
    <2>3. QED
        BY <1>1, <2>1, <2>2 DEF Known, Places, Counted, Multiple
<1>13. Collected'
    BY <1>1, <1>9 DEF Known, Collected, Counted, Limit
<1>14. QED
    BY <1>1, <1>10, <1>11, <1>12, <1>13 DEF Known

LEMMA RestStep ==
    ASSUME Known, RepeatsBound, MissesBound, Turn \/ FetchFails \/ Resume
    PROVE  Known' /\ RepeatsBound' /\ MissesBound'
<1>1. /\ UNCHANGED <<walker, place, more, page, yielded, seen, listing, lasting, inserts,
                     removals, odd>>
      /\ page = <<>>
      /\ OnTheWay' <=> OnTheWay
    BY DEF Turn, FetchFails, Resume, server, OnTheWay, Known, Places
<1>2. Had' = Had /\ Reached' = Reached /\ Limit' = Limit /\ Decode(place') = Decode(place)
    BY <1>1 DEF Had, Reached, Limit
<1>3. Pending' <=> Pending
    BY <1>1 DEF Pending
<1>4. RepeatsBound' /\ MissesBound'
    BY <1>1, <1>2, <1>3, BoundsStay
<1>5. Rowed'
    BY <1>1, <1>2 DEF Known, Rowed
<1>6. Places'
    BY <1>1, <1>2 DEF Known, Places, Counted, Multiple
<1>7. Collected'
    BY <1>1, <1>2 DEF Known, Collected, Counted
<1>8. QED
    BY <1>1, <1>4, <1>5, <1>6, <1>7 DEF Known
-----------------------------------------------------------------------------
(* The listing changes. *)

LEMMA Joined ==
    ASSUME NEW s \in Seq(Nat), NEW t \in Seq(Nat)
    PROVE  /\ s \o t \in Seq(Nat) /\ Len(s \o t) = Len(s) + Len(t)
           /\ \A j \in 1..Len(s) : (s \o t)[j] = s[j]
           /\ \A j \in 1..Len(t) : (s \o t)[Len(s) + j] = t[j]
OBVIOUS

LEMMA Inserted ==
    ASSUME listing \in Seq(Nat), NEW i \in 1..(Len(listing) + 1), NEW e \in Nat,
           listing' = InsertAt(listing, i, e)
    PROVE  /\ listing' \in Seq(Nat) /\ Len(listing') = Len(listing) + 1
           /\ \A j \in 1..(Len(listing) + 1) :
                 listing'[j] = IF j < i THEN listing[j]
                               ELSE IF j = i THEN e ELSE listing[j - 1]
<1> DEFINE s == listing
           a == SubSeq(s, 1, i - 1)
           b == SubSeq(s, i, Len(s))
           one == <<e>>
           c == a \o one
           t == c \o b
<1>1. Len(s) \in Nat /\ i \in Nat \ {0} /\ i <= Len(s) + 1
    OBVIOUS
<1>2. a \in Seq(Nat) /\ Len(a) = i - 1 /\ \A j \in 1..(i - 1) : a[j] = s[j]
    BY <1>1
<1>3. b \in Seq(Nat) /\ Len(b) = Len(s) - i + 1
      /\ \A j \in 1..(Len(s) - i + 1) : b[j] = s[i + j - 1]
    BY <1>1
<1>4. one \in Seq(Nat) /\ Len(one) = 1 /\ one[1] = e
    OBVIOUS
<1>5. listing' = t /\ s \in Seq(Nat)
    BY DEF InsertAt
<1> HIDE DEF a, b, one
<1>6. /\ c \in Seq(Nat) /\ Len(c) = Len(a) + Len(one)
      /\ \A j \in 1..Len(a) : c[j] = a[j]
      /\ \A j \in 1..Len(one) : c[Len(a) + j] = one[j]
    BY <1>2, <1>4, Joined
<1> HIDE DEF c
<1>7. /\ t \in Seq(Nat) /\ Len(t) = Len(c) + Len(b)
      /\ \A j \in 1..Len(c) : t[j] = c[j]
      /\ \A j \in 1..Len(b) : t[Len(c) + j] = b[j]
    BY <1>3, <1>6, Joined
<1> HIDE DEF t
<1>8. Len(c) = i /\ Len(t) = Len(s) + 1
    BY <1>1, <1>2, <1>3, <1>4, <1>6, <1>7
<1>9. ASSUME NEW j \in 1..(Len(s) + 1)
      PROVE  t[j] = IF j < i THEN s[j] ELSE IF j = i THEN e ELSE s[j - 1]
    <2>1. CASE j < i
        <3>1. j \in 1..(i - 1) /\ j \in 1..Len(a) /\ j \in 1..Len(c)
            BY <1>1, <1>2, <1>8, <2>1
        <3>2. QED
            BY <1>2, <1>6, <1>7, <2>1, <3>1
    <2>2. CASE j = i
        <3>1. i \in 1..Len(c) /\ 1 \in 1..Len(one) /\ Len(a) + 1 = i
            BY <1>1, <1>2, <1>4, <1>8
        <3>2. c[i] = e
            BY <1>4, <1>6, <3>1
        <3>3. QED
            BY <1>7, <2>2, <3>1, <3>2
    <2>3. CASE j > i
        <3>1. j - i \in 1..(Len(s) - i + 1) /\ i + (j - i) - 1 = j - 1 /\ i + (j - i) = j
            BY <1>1, <2>3
        <3>2. b[j - i] = s[j - 1]
            BY <1>3, <3>1
        <3>3. t[j] = b[j - i]
            BY <1>3, <1>7, <1>8, <3>1
        <3>4. QED
            BY <1>1, <2>3, <3>2, <3>3
    <2>4. QED
        BY <1>1, <2>1, <2>2, <2>3
<1>10. QED
    BY <1>5, <1>7, <1>8, <1>9

LEMMA Removed ==
    ASSUME NEW s \in Seq(Nat), NEW i \in 1..Len(s)
    PROVE  LET t == RemoveAt(s, i)
           IN  /\ t \in Seq(Nat) /\ Len(t) = Len(s) - 1
               /\ \A j \in 1..(Len(s) - 1) : t[j] = IF j < i THEN s[j] ELSE s[j + 1]
<1> DEFINE a == SubSeq(s, 1, i - 1)
           b == SubSeq(s, i + 1, Len(s))
           t == a \o b
<1>1. Len(s) \in Nat /\ i \in Nat \ {0} /\ i <= Len(s)
    OBVIOUS
<1>2. a \in Seq(Nat) /\ Len(a) = i - 1 /\ \A j \in 1..(i - 1) : a[j] = s[j]
    BY <1>1
<1>3. b \in Seq(Nat) /\ Len(b) = Len(s) - i
      /\ \A j \in 1..(Len(s) - i) : b[j] = s[i + 1 + j - 1]
    BY <1>1
<1>4. RemoveAt(s, i) = t
    BY DEF RemoveAt
<1> HIDE DEF a, b
<1>5. /\ t \in Seq(Nat) /\ Len(t) = Len(a) + Len(b)
      /\ \A j \in 1..Len(a) : t[j] = a[j]
      /\ \A j \in 1..Len(b) : t[Len(a) + j] = b[j]
    BY <1>2, <1>3, Joined
<1> HIDE DEF t
<1>6. ASSUME NEW j \in 1..(Len(s) - 1)
      PROVE  t[j] = IF j < i THEN s[j] ELSE s[j + 1]
    <2>1. CASE j < i
        <3>1. j \in 1..(i - 1) /\ j \in 1..Len(a)
            BY <1>1, <1>2, <2>1
        <3>2. QED
            BY <1>2, <1>5, <2>1, <3>1
    <2>2. CASE j >= i
        <3>1. /\ j - (i - 1) \in 1..(Len(s) - i) /\ i + 1 + (j - (i - 1)) - 1 = j + 1
              /\ Len(a) + (j - (i - 1)) = j
            BY <1>1, <1>2, <2>2
        <3>2. b[j - (i - 1)] = s[j + 1]
            BY <1>3, <3>1
        <3>3. t[j] = b[j - (i - 1)]
            BY <1>3, <1>5, <3>1
        <3>4. QED
            BY <1>1, <2>2, <3>2, <3>3
    <2>3. QED
        BY <1>1, <2>1, <2>2
<1>7. QED
    BY <1>1, <1>2, <1>3, <1>4, <1>5, <1>6

LEMMA RowsAreNumbers ==
    ASSUME Rowed
    PROVE  ToSet(listing) \cup Had \subseteq Nat
<1>1. ASSUME NEW s \in Seq(Nat) PROVE ToSet(s) \subseteq Nat
    <2>1. DOMAIN s = 1..Len(s) /\ \A j \in 1..Len(s) : s[j] \in Nat
        OBVIOUS
    <2>2. QED
        BY <2>1 DEF ToSet
<1>2. QED
    BY <1>1 DEF Rowed, Had

LEMMA InsertStep ==
    ASSUME Counters, Known, RepeatsBound, MissesBound, Insert
    PROVE  Known' /\ RepeatsBound' /\ MissesBound' /\ inserts' \in 0..MaxInserts
<1> DEFINE e == MaxRows + inserts + 1
           n == Decode(place)
<1>1. PICK i \in 1..(Len(listing) + 1) : listing' = InsertAt(listing, i, e)
    BY DEF Insert
<1>2. /\ inserts' = inserts + 1 /\ inserts \in Nat /\ inserts' \in 0..MaxInserts
      /\ UNCHANGED <<walker, phase, place, more, page, yielded, seen, lasting, removals, odd>>
    BY WalkAssumption DEF Insert, walk, Counters
<1>3. e \in Nat /\ e = MaxRows + inserts' /\ MaxRows \in Nat
    BY <1>2, WalkAssumption
<1>4. /\ listing \in Seq(Nat) /\ Len(listing) \in Nat
      /\ DOMAIN listing = 1..Len(listing)
      /\ \A k, j \in 1..Len(listing) : listing[k] = listing[j] => k = j
    <2>1. listing \in Seq(Nat)
        BY DEF Known, Rowed
    <2>2. DOMAIN listing = 1..Len(listing) /\ Len(listing) \in Nat
        BY <2>1
    <2>3. QED
        BY <2>1, <2>2 DEF Known, Rowed
<1> HIDE DEF e
<1>5. /\ listing' \in Seq(Nat) /\ Len(listing') = Len(listing) + 1
      /\ \A j \in 1..(Len(listing) + 1) :
            listing'[j] = IF j < i THEN listing[j] ELSE IF j = i THEN e ELSE listing[j - 1]
    BY <1>1, <1>3, <1>4, Inserted
<1>6. DOMAIN listing' = 1..(Len(listing) + 1)
    BY <1>5
(* Where the rows of the new listing come from. *)
<1>7. ASSUME NEW j \in 1..(Len(listing) + 1)
      PROVE  \/ j < i /\ j \in 1..Len(listing) /\ listing'[j] = listing[j]
             \/ j = i /\ listing'[j] = e
             \/ j > i /\ j - 1 \in 1..Len(listing) /\ listing'[j] = listing[j - 1]
    <2>1. listing'[j] = IF j < i THEN listing[j] ELSE IF j = i THEN e ELSE listing[j - 1]
        BY <1>5
    <2>2. /\ j < i => j \in 1..Len(listing)
          /\ j > i => j - 1 \in 1..Len(listing)
          /\ j < i \/ j = i \/ j > i
        BY <1>4
    <2>3. j > i => ~(j < i) /\ j # i
        BY <1>4
    <2>4. QED
        BY <2>1, <2>2, <2>3
<1>8. \A row \in ToSet(listing) \cup Had : row <= MaxRows + inserts /\ row # e
    <2>1. ASSUME NEW row \in ToSet(listing) \cup Had PROVE row <= MaxRows + inserts
        BY DEF Known, Rowed
    <2>2. ToSet(listing) \cup Had \subseteq Nat
        BY RowsAreNumbers DEF Known
    <2>3. QED
        BY <1>2, <1>3, <2>1, <2>2 DEF e
<1>9. \A j \in 1..Len(listing) : listing[j] \in ToSet(listing) /\ listing[j] # e
    BY <1>4, <1>8 DEF ToSet
<1>10. Had' = Had
    BY <1>2 DEF Had
<1>11. ToSet(listing) \subseteq ToSet(listing') /\ ToSet(listing') \subseteq ToSet(listing) \cup {e}
    <2>1. ASSUME NEW j \in 1..Len(listing) PROVE listing[j] \in ToSet(listing')
        <3>1. CASE j < i
            <4>1. j \in 1..(Len(listing) + 1) /\ listing'[j] = listing[j]
                BY <1>4, <1>5, <3>1
            <4>2. QED
                BY <1>6, <4>1 DEF ToSet
        <3>2. CASE j >= i
            <4>1. /\ j + 1 \in 1..(Len(listing) + 1) /\ (j + 1) - 1 = j
                  /\ ~(j + 1 < i) /\ j + 1 # i
                BY <1>4, <3>2
            <4>2. listing'[j + 1] = listing[j]
                BY <1>5, <4>1
            <4>3. QED
                BY <1>6, <4>1, <4>2 DEF ToSet
        <3>3. QED
            BY <1>4, <3>1, <3>2
    <2>2. QED
        BY <1>4, <1>6, <1>7, <1>9, <2>1 DEF ToSet
<1>12. Rowed'
    <2>1. ASSUME NEW k \in 1..(Len(listing) + 1), NEW j \in 1..(Len(listing) + 1),
                 listing'[k] = listing'[j]
          PROVE  k = j
        <3>1. CASE k = i \/ j = i
            BY <1>7, <1>9, <2>1, <3>1
        <3>2. CASE k < i /\ j < i
            <4>1. /\ k \in 1..Len(listing) /\ listing'[k] = listing[k]
                  /\ j \in 1..Len(listing) /\ listing'[j] = listing[j]
                BY <1>7, <3>2
            <4>2. k = j
                BY <1>4, <2>1, <4>1
            <4>3. QED
                BY <3>2, <4>2
        <3>3. CASE k < i /\ j > i
            <4>1. /\ k \in 1..Len(listing) /\ listing'[k] = listing[k]
                  /\ j - 1 \in 1..Len(listing) /\ listing'[j] = listing[j - 1]
                BY <1>7, <3>3
            <4>2. k = j - 1
                BY <1>4, <2>1, <4>1
            <4>3. QED
                BY <3>3, <4>2
        <3>4. CASE k > i /\ j < i
            <4>1. /\ k - 1 \in 1..Len(listing) /\ listing'[k] = listing[k - 1]
                  /\ j \in 1..Len(listing) /\ listing'[j] = listing[j]
                BY <1>7, <3>4
            <4>2. k - 1 = j
                BY <1>4, <2>1, <4>1
            <4>3. QED
                BY <3>4, <4>2
        <3>5. CASE k > i /\ j > i
            <4>1. /\ k - 1 \in 1..Len(listing) /\ listing'[k] = listing[k - 1]
                  /\ j - 1 \in 1..Len(listing) /\ listing'[j] = listing[j - 1]
                BY <1>7, <3>5
            <4>2. k - 1 = j - 1
                BY <1>4, <2>1, <4>1
            <4>3. QED
                BY <4>2
        <3>6. QED
            BY <3>1, <3>2, <3>3, <3>4, <3>5
    <2>2. \A row \in ToSet(listing') \cup Had' : row <= MaxRows + inserts'
        <3>1. ToSet(listing) \cup Had \subseteq Nat
            BY RowsAreNumbers DEF Known
        <3>2. ASSUME NEW row \in ToSet(listing') \cup Had'
              PROVE  row = e \/ row \in ToSet(listing) \cup Had
            BY <1>10, <1>11
        <3>3. QED
            BY <1>2, <1>3, <1>8, <3>1, <3>2
    <2>3. lasting' \subseteq ToSet(listing')
        BY <1>2, <1>11 DEF Known, Rowed
    <2>4. page' \in Seq(Nat) /\ yielded' \in Seq(Nat)
        BY <1>2 DEF Known, Rowed
    <2>5. QED
        BY <1>5, <1>6, <2>1, <2>2, <2>3, <2>4 DEF Rowed
<1>13. /\ Pending' <=> Pending
       /\ OnTheWay' <=> OnTheWay
       /\ Limit' = Limit /\ Reached' = Reached
    BY <1>2 DEF Pending, OnTheWay, Limit, Reached
<1>14. Pending => n \in Nat /\ Decode(place') = n
    BY <1>2, PlaceIsMultiple DEF Pending, Known
<1> HIDE DEF n
<1>behind. ASSUME NEW j \in 1..Len(listing), j > n PROVE listing[j] \in Behind(n)
    BY <1>4, <1>behind DEF Behind
<1>before. ASSUME NEW j \in 1..Len(listing), j <= n PROVE listing[j] \in Before(n)
    BY <1>4, <1>before DEF Before
<1>15. Again' \subseteq Again \cup {listing[n]}
    <2>1. CASE ~Pending
        BY <1>13, <2>1 DEF Again
    <2>2. CASE Pending
        <3>1. ASSUME NEW j \in 1..(Len(listing) + 1), j > n, listing'[j] \in Had
              PROVE  listing'[j] \in Again \cup {listing[n]}
            <4>1. listing'[j] # e
                BY <1>8, <3>1
            <4>2. CASE j < i
                <5>1. j \in 1..Len(listing) /\ listing'[j] = listing[j]
                    BY <1>7, <4>2
                <5>2. QED
                    BY <1>4, <2>2, <3>1, <5>1 DEF Again, Behind, n
            <4>3. CASE j > i
                <5>1. j - 1 \in 1..Len(listing) /\ listing'[j] = listing[j - 1]
                    BY <1>7, <4>3
                <5>2. j - 1 > n \/ j - 1 = n
                    BY <1>14, <2>2, <3>1
                <5>3. CASE j - 1 = n
                    BY <5>1, <5>3
                <5>4. CASE j - 1 > n
                    BY <1>4, <2>2, <3>1, <5>1, <5>4 DEF Again, Behind, n
                <5>5. QED
                    BY <5>2, <5>3, <5>4
            <4>4. QED
                BY <1>7, <4>1, <4>2, <4>3
        <3>2. Again' = {listing'[j] : j \in {k \in DOMAIN listing' : k > n}} \cap Had
            BY <1>10, <1>13, <1>14, <2>2 DEF Again, Behind
        <3>3. QED
            BY <1>6, <3>1, <3>2
    <2>3. QED
        BY <2>1, <2>2
<1>16. Missed' \subseteq Missed
    <2>1. CASE ~Pending
        BY <1>2, <1>10, <1>13, <2>1 DEF Missed
    <2>2. CASE Pending
        <3>1. ASSUME NEW j \in 1..(Len(listing) + 1), j <= n, listing'[j] \in lasting
              PROVE  listing'[j] \in Before(n)
            <4>1. listing'[j] # e
                BY <1>8, <3>1 DEF Known, Rowed
            <4>2. CASE j < i
                <5>1. j \in 1..Len(listing) /\ listing'[j] = listing[j]
                    BY <1>7, <4>2
                <5>2. QED
                    BY <1>before, <3>1, <5>1
            <4>3. CASE j > i
                <5>1. j - 1 \in 1..Len(listing) /\ listing'[j] = listing[j - 1]
                    BY <1>7, <4>3
                <5>2. j - 1 <= n
                    BY <1>14, <2>2, <3>1
                <5>3. QED
                    BY <1>before, <5>1, <5>2
            <4>4. QED
                BY <1>7, <4>1, <4>2, <4>3
        <3>2. Missed' = (lasting \cap {listing'[j] : j \in {k \in DOMAIN listing' : k <= n}}) \ Had
            BY <1>2, <1>10, <1>13, <1>14, <2>2 DEF Missed, Before
        <3>3. Missed = (lasting \cap Before(n)) \ Had
            BY <2>2 DEF Missed, n
        <3>4. QED
            BY <1>6, <3>1, <3>2, <3>3
    <2>3. QED
        BY <2>1, <2>2
<1>17. IsFiniteSet(Again) /\ IsFiniteSet(Missed) /\ Cardinality(Had) \in Nat
    BY FiniteHad DEF Known
<1>18. /\ Cardinality(Again') <= Cardinality(Again) + 1
       /\ Cardinality(Again) \in Nat /\ Cardinality(Again') \in Nat
    BY <1>15, <1>17, OneMore
<1>19. RepeatsBound'
    <2>1. Reached \in Nat
        BY DEF Reached, Known, Rowed
    <2>2. QED
        BY <1>2, <1>10, <1>13, <1>17, <1>18, <2>1 DEF RepeatsBound
<1>20. MissesBound'
    <2>1. /\ Cardinality(Missed') <= Cardinality(Missed)
          /\ Cardinality(Missed) \in Nat /\ Cardinality(Missed') \in Nat
        BY <1>16, <1>17, NoMore
    <2>2. QED
        BY <1>2, <2>1 DEF MissesBound, Counters
<1>21. Places' /\ Collected'
    BY <1>2, <1>13 DEF Known, Places, Collected, Counted, Multiple
<1>22. QED
    BY <1>2, <1>12, <1>19, <1>20, <1>21 DEF Known

LEMMA DeleteStep ==
    ASSUME Counters, Known, RepeatsBound, MissesBound, Delete
    PROVE  Known' /\ RepeatsBound' /\ MissesBound' /\ removals' \in 0..MaxRemovals
<1> DEFINE n == Decode(place)
<1>1. /\ listing \in Seq(Nat) /\ Len(listing) \in Nat
      /\ DOMAIN listing = 1..Len(listing)
      /\ \A k, j \in 1..Len(listing) : listing[k] = listing[j] => k = j
    <2>1. listing \in Seq(Nat)
        BY DEF Known, Rowed
    <2>2. DOMAIN listing = 1..Len(listing) /\ Len(listing) \in Nat
        BY <2>1
    <2>3. QED
        BY <2>1, <2>2 DEF Known, Rowed
<1>2. PICK i \in 1..Len(listing) :
        listing' = RemoveAt(listing, i) /\ lasting' = lasting \ {listing[i]}
    BY <1>1 DEF Delete
<1>3. /\ removals' = removals + 1 /\ removals \in Nat /\ removals' \in 0..MaxRemovals
      /\ UNCHANGED <<walker, phase, place, more, page, yielded, seen, inserts, odd>>
    BY WalkAssumption DEF Delete, walk, Counters
<1>4. /\ listing' \in Seq(Nat) /\ Len(listing') = Len(listing) - 1
      /\ \A j \in 1..(Len(listing) - 1) :
            listing'[j] = IF j < i THEN listing[j] ELSE listing[j + 1]
    BY <1>1, <1>2, Removed
<1>5. DOMAIN listing' = 1..(Len(listing) - 1)
    BY <1>4
<1>6. ASSUME NEW j \in 1..(Len(listing) - 1)
      PROVE  \/ j < i /\ j \in 1..Len(listing) /\ listing'[j] = listing[j]
             \/ j >= i /\ j + 1 \in 1..Len(listing) /\ listing'[j] = listing[j + 1]
    <2>1. listing'[j] = IF j < i THEN listing[j] ELSE listing[j + 1]
        BY <1>4
    <2>2. /\ j < i => j \in 1..Len(listing)
          /\ j >= i => j + 1 \in 1..Len(listing) /\ ~(j < i)
          /\ j < i \/ j >= i
        BY <1>1
    <2>3. QED
        BY <2>1, <2>2
<1>7. Had' = Had
    BY <1>3 DEF Had
<1>8. ToSet(listing') \subseteq ToSet(listing) /\ ToSet(listing) \subseteq ToSet(listing') \cup {listing[i]}
    <2>1. ASSUME NEW j \in 1..Len(listing), j # i PROVE listing[j] \in ToSet(listing')
        <3>1. CASE j < i
            <4>1. j \in 1..(Len(listing) - 1) /\ listing'[j] = listing[j]
                BY <1>1, <1>4, <3>1
            <4>2. QED
                BY <1>5, <4>1 DEF ToSet
        <3>2. CASE j > i
            <4>1. /\ j - 1 \in 1..(Len(listing) - 1) /\ (j - 1) + 1 = j /\ ~(j - 1 < i)
                BY <1>1, <3>2
            <4>2. listing'[j - 1] = listing[j]
                BY <1>4, <4>1
            <4>3. QED
                BY <1>5, <4>1, <4>2 DEF ToSet
        <3>3. QED
            BY <1>1, <2>1, <3>1, <3>2
    <2>2. ASSUME NEW j \in 1..(Len(listing) - 1) PROVE listing'[j] \in ToSet(listing)
        BY <1>1, <1>6 DEF ToSet
    <2>3. ToSet(listing') \subseteq ToSet(listing)
        BY <1>5, <2>2 DEF ToSet
    <2>4. ToSet(listing) \subseteq ToSet(listing') \cup {listing[i]}
        BY <1>1, <2>1 DEF ToSet
    <2>5. QED
        BY <2>3, <2>4
<1>9. Rowed'
    <2>1. ASSUME NEW k \in 1..(Len(listing) - 1), NEW j \in 1..(Len(listing) - 1),
                 listing'[k] = listing'[j]
          PROVE  k = j
        <3>1. CASE k < i /\ j < i
            <4>1. /\ k \in 1..Len(listing) /\ listing'[k] = listing[k]
                  /\ j \in 1..Len(listing) /\ listing'[j] = listing[j]
                BY <1>6, <3>1
            <4>2. k = j
                BY <1>1, <2>1, <4>1
            <4>3. QED
                BY <3>1, <4>2
        <3>2. CASE k < i /\ j >= i
            <4>1. /\ k \in 1..Len(listing) /\ listing'[k] = listing[k]
                  /\ j + 1 \in 1..Len(listing) /\ listing'[j] = listing[j + 1]
                BY <1>6, <3>2
            <4>2. k = j + 1
                BY <1>1, <2>1, <4>1
            <4>3. QED
                BY <3>2, <4>2
        <3>3. CASE k >= i /\ j < i
            <4>1. /\ k + 1 \in 1..Len(listing) /\ listing'[k] = listing[k + 1]
                  /\ j \in 1..Len(listing) /\ listing'[j] = listing[j]
                BY <1>6, <3>3
            <4>2. k + 1 = j
                BY <1>1, <2>1, <4>1
            <4>3. QED
                BY <3>3, <4>2
        <3>4. CASE k >= i /\ j >= i
            <4>1. /\ k + 1 \in 1..Len(listing) /\ listing'[k] = listing[k + 1]
                  /\ j + 1 \in 1..Len(listing) /\ listing'[j] = listing[j + 1]
                BY <1>6, <3>4
            <4>2. k + 1 = j + 1
                BY <1>1, <2>1, <4>1
            <4>3. QED
                BY <4>2
        <3>5. QED
            BY <1>1, <3>1, <3>2, <3>3, <3>4
    <2>2. \A row \in ToSet(listing') \cup Had' : row <= MaxRows + inserts'
        BY <1>3, <1>7, <1>8 DEF Known, Rowed
    <2>3. lasting' \subseteq ToSet(listing')
        BY <1>2, <1>8 DEF Known, Rowed
    <2>4. page' \in Seq(Nat) /\ yielded' \in Seq(Nat)
        BY <1>3 DEF Known, Rowed
    <2>5. QED
        BY <1>4, <1>5, <2>1, <2>2, <2>3, <2>4 DEF Rowed
<1>10. /\ Pending' <=> Pending
       /\ OnTheWay' <=> OnTheWay
       /\ Limit' = Limit /\ Reached' = Reached
    BY <1>3 DEF Pending, OnTheWay, Limit, Reached
<1>11. Pending => n \in Nat /\ Decode(place') = n
    BY <1>3, PlaceIsMultiple DEF Pending, Known
<1> HIDE DEF n
<1>behind. ASSUME NEW j \in 1..Len(listing), j > n PROVE listing[j] \in Behind(n)
    BY <1>1, <1>behind DEF Behind
<1>before. ASSUME NEW j \in 1..Len(listing), j <= n PROVE listing[j] \in Before(n)
    BY <1>1, <1>before DEF Before
<1>12. Again' \subseteq Again
    <2>1. CASE ~Pending
        BY <1>10, <2>1 DEF Again
    <2>2. CASE Pending
        <3>1. ASSUME NEW j \in 1..(Len(listing) - 1), j > n
              PROVE  listing'[j] \in Behind(n)
            <4>1. CASE j < i
                <5>1. j \in 1..Len(listing) /\ listing'[j] = listing[j]
                    BY <1>6, <4>1
                <5>2. QED
                    BY <1>behind, <3>1, <5>1
            <4>2. CASE j >= i
                <5>1. j + 1 \in 1..Len(listing) /\ listing'[j] = listing[j + 1]
                    BY <1>6, <4>2
                <5>2. j + 1 > n
                    BY <1>11, <2>2, <3>1
                <5>3. QED
                    BY <1>behind, <5>1, <5>2
            <4>3. QED
                BY <1>1, <4>1, <4>2
        <3>2. Again' = {listing'[j] : j \in {k \in DOMAIN listing' : k > n}} \cap Had
            BY <1>7, <1>10, <1>11, <2>2 DEF Again, Behind
        <3>3. Again = Behind(n) \cap Had
            BY <2>2 DEF Again, n
        <3>4. QED
            BY <1>5, <3>1, <3>2, <3>3
    <2>3. QED
        BY <2>1, <2>2
<1>13. Missed' \subseteq Missed \cup {listing[n + 1]}
    <2>1. CASE ~Pending
        BY <1>2, <1>7, <1>10, <2>1 DEF Missed
    <2>2. CASE Pending
        <3>1. ASSUME NEW j \in 1..(Len(listing) - 1), j <= n
              PROVE  listing'[j] \in Before(n) \cup {listing[n + 1]}
            <4>1. CASE j < i
                <5>1. j \in 1..Len(listing) /\ listing'[j] = listing[j]
                    BY <1>6, <4>1
                <5>2. QED
                    BY <1>before, <3>1, <5>1
            <4>2. CASE j >= i
                <5>1. j + 1 \in 1..Len(listing) /\ listing'[j] = listing[j + 1]
                    BY <1>6, <4>2
                <5>2. j + 1 <= n \/ j + 1 = n + 1
                    BY <1>11, <2>2, <3>1
                <5>3. CASE j + 1 = n + 1
                    BY <5>1, <5>3
                <5>4. CASE j + 1 <= n
                    BY <1>before, <5>1, <5>4
                <5>5. QED
                    BY <5>2, <5>3, <5>4
            <4>3. QED
                BY <1>1, <4>1, <4>2
        <3>2. Missed' = (lasting' \cap {listing'[j] : j \in {k \in DOMAIN listing' : k <= n}}) \ Had
            BY <1>7, <1>10, <1>11, <2>2 DEF Missed, Before
        <3>3. Missed = (lasting \cap Before(n)) \ Had
            BY <2>2 DEF Missed, n
        <3>4. QED
            BY <1>2, <1>5, <3>1, <3>2, <3>3
    <2>3. QED
        BY <2>1, <2>2
<1>14. IsFiniteSet(Again) /\ IsFiniteSet(Missed)
    BY FiniteHad DEF Known
<1>15. RepeatsBound'
    <2>1. /\ Cardinality(Again') <= Cardinality(Again)
          /\ Cardinality(Again) \in Nat /\ Cardinality(Again') \in Nat
        BY <1>12, <1>14, NoMore
    <2>2. Reached \in Nat /\ Cardinality(Had) \in Nat /\ inserts \in Nat
        BY FiniteHad DEF Reached, Known, Rowed, Counters
    <2>3. QED
        BY <1>3, <1>7, <1>10, <2>1, <2>2 DEF RepeatsBound
<1>16. MissesBound'
    <2>1. /\ Cardinality(Missed') <= Cardinality(Missed) + 1
          /\ Cardinality(Missed) \in Nat /\ Cardinality(Missed') \in Nat
        BY <1>13, <1>14, OneMore
    <2>2. QED
        BY <1>3, <2>1 DEF MissesBound
<1>17. Places' /\ Collected'
    BY <1>3, <1>10 DEF Known, Places, Collected, Counted, Multiple
<1>18. QED
    BY <1>3, <1>9, <1>15, <1>16, <1>17 DEF Known
-----------------------------------------------------------------------------
(* The invariant of a walk over a listing that moves. *)

LEMMA InitMoving == Init => MovingInv
<1> SUFFICES ASSUME Init PROVE MovingInv
    OBVIOUS
<1>1. PICK n \in 0..MaxRows : listing = [i \in 1..n |-> i]
    BY DEF Init
<1>2. /\ n \in Nat /\ MaxRows \in Nat /\ ServerCap \in Nat
      /\ {MaxInserts, MaxRemovals, MaxFailures, MaxOdd} \subseteq Nat
    BY WalkAssumption
<1>3. /\ listing \in Seq(Nat) /\ DOMAIN listing = 1..n
      /\ \A i \in 1..n : listing[i] = i
    BY <1>1, <1>2
<1>4. /\ page = <<>> /\ yielded = <<>> /\ Len(page) = 0 /\ Len(yielded) = 0
      /\ seen = {} /\ lasting = ToSet(listing) /\ inserts = 0 /\ removals = 0
      /\ failures = 0 /\ odd = 0 /\ walker \in Walkers /\ phase = "asking" /\ more = TRUE
      /\ place = IF walker \in {"iterator", "collector"} THEN <<0>> ELSE NoCursor
    BY DEF Init
<1>5. Counters
    BY <1>2, <1>4 DEF Counters
<1>6. Multiple(0) /\ Limit \in Nat \ {0}
    BY <1>4, Multiples, LimitIsServed
<1>7. Places
    BY <1>2, <1>4, <1>6 DEF Places, Counted, NoCursor, END_CURSOR
<1>8. \A k \in Nat : ~(k * Limit < 0)
    BY <1>4, Multiples
<1>9. Collected
    BY <1>4, <1>8 DEF Collected, Counted
<1>10. Had = {}
    BY <1>4 DEF Had, ToSet
<1>11. Rowed
    <2>1. \A row \in ToSet(listing) \cup Had : row <= MaxRows + inserts
        BY <1>2, <1>3, <1>4, <1>10 DEF ToSet
    <2>2. QED
        BY <1>3, <1>4, <2>1 DEF Rowed
<1>12. Again = {}
    BY <1>10 DEF Again
<1>13. Missed = {}
    <2>1. Pending /\ Decode(place) = 0
        BY <1>4 DEF Pending, OnTheWay, Decode, NoCursor, EmptyCursor, END_CURSOR
    <2>2. Before(0) = {}
        BY <1>2, <1>3 DEF Before
    <2>3. QED
        BY <2>1, <2>2 DEF Missed
<1>14. RepeatsBound /\ MissesBound
    BY <1>4, <1>10, <1>12, <1>13, FS_EmptySet DEF RepeatsBound, MissesBound, Reached
<1>15. QED
    BY <1>5, <1>7, <1>9, <1>11, <1>14 DEF MovingInv

LEMMA CountersStay ==
    ASSUME Counters, [Next]_vars, odd' \in 0..MaxOdd,
           inserts' \in 0..MaxInserts, removals' \in 0..MaxRemovals
    PROVE  Counters'
<1> USE DEF walk, server, vars
<1>1. failures' \in 0..MaxFailures
    <2>1. CASE FetchFails
        BY <2>1, WalkAssumption DEF FetchFails, Counters
    <2>2. CASE UNCHANGED failures
        BY <2>2 DEF Counters
    <2>3. QED
        BY <2>1, <2>2 DEF Next, Walk, Iterate, ListMarkets, AsyncListMarkets,
            FollowMarkets, GetMarkets, GetMarketsPastTheEnd, FetchBy, Collect, ListOpenOrders, AsyncListOpenOrders, FetchAccount, Ask,
            Hand, Turn, Resume, Insert, Delete
<1>2. walker' = walker /\ phase' \in {"asking", "handing", "ended", "failed"}
    BY DEF Counters, Next, Walk, Iterate, ListMarkets, AsyncListMarkets,
        FollowMarkets, GetMarkets, GetMarketsPastTheEnd, FetchBy, Collect, ListOpenOrders, AsyncListOpenOrders, FetchAccount, Ask,
        Hand, Turn, Resume, FetchFails, Insert, Delete
<1>3. QED
    BY <1>1, <1>2 DEF Counters

LEMMA NextMoving ==
    ASSUME EveryPageIsServed, MovingInv, [Next]_vars
    PROVE  MovingInv'
<1>1. Counters /\ Known /\ RepeatsBound /\ MissesBound
    BY DEF MovingInv, Known, Counters
<1> DEFINE Kept == /\ Known' /\ RepeatsBound' /\ MissesBound'
                   /\ odd' \in 0..MaxOdd
                   /\ inserts' \in 0..MaxInserts /\ removals' \in 0..MaxRemovals
<1>2. ASSUME \/ Iterate \/ ListMarkets \/ AsyncListMarkets \/ FollowMarkets
             \/ GetMarkets \/ GetMarketsPastTheEnd
      PROVE  Kept
    <2>1. PICK w \in Walkers \ ByCursor : FetchBy(w)
        BY <1>1, <1>2 DEF Iterate, ListMarkets, AsyncListMarkets, FollowMarkets,
            GetMarkets, GetMarketsPastTheEnd, FetchBy, Counters, ByCursor
    <2>2. UNCHANGED <<odd, inserts, removals>>
        BY <2>1 DEF FetchBy, server
    <2>3. QED
        BY <1>1, <2>1, <2>2, FetchStep DEF Counters
<1>3. ASSUME Collect PROVE Kept
    <2>1. UNCHANGED <<inserts, removals>>
        BY <1>3 DEF Collect, Ask, server
    <2>2. QED
        BY <1>1, <1>3, <2>1, CollectStep DEF Counters
<1>4. ASSUME ListOpenOrders \/ AsyncListOpenOrders PROVE Kept
    <2>1. PICK w \in {"account", "async_account"} : FetchAccount(w)
        BY <1>4 DEF ListOpenOrders, AsyncListOpenOrders
    <2>2. UNCHANGED <<inserts, removals>>
        BY <2>1 DEF FetchAccount, Ask, server
    <2>3. QED
        BY <1>1, <2>1, <2>2, FetchAccountStep DEF Counters
<1>5. ASSUME Hand PROVE Kept
    BY <1>1, <1>5, HandStep DEF Hand, server, Counters
<1>6. ASSUME Turn \/ FetchFails \/ Resume PROVE Kept
    BY <1>1, <1>6, RestStep DEF Turn, FetchFails, Resume, server, Counters
<1>7. ASSUME Insert PROVE Kept
    BY <1>1, <1>7, InsertStep DEF Insert, Counters
<1>8. ASSUME Delete PROVE Kept
    BY <1>1, <1>8, DeleteStep DEF Delete, Counters
<1>9. ASSUME UNCHANGED vars PROVE Kept
    <2>1. UNCHANGED <<walker, phase, place, more, page, yielded, seen, listing, lasting,
                      inserts, removals, odd>>
        BY <1>9 DEF vars, walk, server
    <2>2. Had' = Had /\ Reached' = Reached /\ Limit' = Limit /\ (OnTheWay' <=> OnTheWay)
        BY <2>1 DEF Had, Reached, Limit, OnTheWay
    <2>3. Pending' <=> Pending
        BY <2>1, <2>2 DEF Pending
    <2>4. RepeatsBound' /\ MissesBound'
        BY <1>1, <2>1, <2>2, <2>3, BoundsStay DEF Decode
    <2>5. Known'
        BY <1>1, <2>1, <2>2 DEF Known, Rowed, Places, Collected, Counted, Multiple
    <2>6. QED
        BY <1>1, <2>1, <2>4, <2>5 DEF Counters
<1>10. Kept
    BY <1>2, <1>3, <1>4, <1>5, <1>6, <1>7, <1>8, <1>9 DEF Next, Walk
<1>11. Counters'
    BY <1>1, <1>10, CountersStay
<1>12. QED
    BY <1>10, <1>11 DEF MovingInv, Known

THEOREM MovingTheorem ==
    ASSUME EveryPageIsServed
    PROVE  Spec => []MovingInv
<1>1. MovingInv /\ [Next]_vars => MovingInv'
    BY NextMoving
<1>2. QED
    BY <1>1, InitMoving, PTL DEF Spec

(* What a walk over a moving listing misses is no more than was removed, and  *)
(* what it hands out again no more than was inserted; a collector even when   *)
(* the server sends it back.                                                 *)
THEOREM BoundedShifts ==
    ASSUME EveryPageIsServed
    PROVE  Spec => []ShiftsAreBounded
<1>1. MovingInv => ShiftsAreBounded
    <2>1. SUFFICES ASSUME MovingInv PROVE ShiftsAreBounded
        OBVIOUS
    <2>2. IsFiniteSet(Had) /\ IsFiniteSet(Again) /\ Cardinality(Had) \in Nat
          /\ IsFiniteSet(lasting)
        BY <2>1, FiniteHad DEF MovingInv
    <2>3. MissesBoundedByRemovals
        <3>1. SUFFICES ASSUME phase = "ended", odd = 0
                       PROVE  Cardinality(lasting \ ToSet(yielded)) <= removals
            BY DEF MissesBoundedByRemovals
        <3>2. page = <<>>
            BY <2>1, <3>1 DEF MovingInv, Places
        <3>3. Had = ToSet(yielded)
            BY <3>2 DEF Had, ToSet
        <3>4. Missed = lasting \ ToSet(yielded)
            BY <3>1, <3>3 DEF Missed, Pending, OnTheWay
        <3>5. QED
            BY <2>1, <3>1, <3>4 DEF MovingInv, MissesBound
    <2>4. RepeatsBoundedByInserts
        <3>1. SUFFICES ASSUME walker = "collector" \/ odd = 0
                       PROVE  Len(yielded) - Cardinality(ToSet(yielded)) <= inserts
            BY DEF RepeatsBoundedByInserts
        <3>2. yielded \in Seq(Nat) /\ page \in Seq(Nat) /\ inserts \in Nat
            BY <2>1 DEF MovingInv, Rowed, Counters
        <3>3. /\ IsFiniteSet(ToSet(yielded)) /\ IsFiniteSet(ToSet(page))
              /\ Cardinality(ToSet(page)) <= Len(page)
            BY <3>2, FiniteRows
        <3>4. Cardinality(Had) = Cardinality(ToSet(yielded)) + Cardinality(ToSet(page))
                                   - Cardinality(ToSet(yielded) \cap ToSet(page))
            BY <3>3, FS_Union DEF Had
        <3>5. /\ Cardinality(ToSet(yielded)) \in Nat /\ Cardinality(ToSet(page)) \in Nat
              /\ Cardinality(ToSet(yielded) \cap ToSet(page)) \in Nat
              /\ Cardinality(Again) \in Nat
            BY <2>2, <3>3, FS_Intersection, FS_CardinalityType
        <3>6. Reached + Cardinality(Again) <= Cardinality(Had) + inserts
            BY <2>1, <3>1 DEF MovingInv, RepeatsBound
        <3>7. Len(yielded) \in Nat /\ Len(page) \in Nat /\ Reached = Len(yielded) + Len(page)
            BY <3>2 DEF Reached
        <3>8. QED
            BY <3>2, <3>3, <3>4, <3>5, <3>6, <3>7
    <2>5. QED
        BY <2>3, <2>4 DEF ShiftsAreBounded
<1>2. QED
    BY <1>1, MovingTheorem, PTL

(* Types, and that a walk asks only for places that are whole pages from the  *)
(* start.                                                                    *)
THEOREM WalkTypes ==
    ASSUME EveryPageIsServed
    PROVE  Spec => []TypeOK
<1>1. MovingInv => TypeOK
    <2>1. SUFFICES ASSUME MovingInv PROVE TypeOK
        OBVIOUS
    <2>2. place \in Seq(Int) /\ Len(place) <= 1
        <3>1. ASSUME NEW k \in Int PROVE <<k>> \in Seq(Int) /\ Len(<<k>>) = 1
            OBVIOUS
        <3>2. <<>> \in Seq(Int) /\ Len(<<>>) = 0
            OBVIOUS
        <3>3. \/ place \in {<<>>, <<-1>>, <<-2>>}
              \/ place = <<place[1]>> /\ place[1] \in Nat
            BY <2>1 DEF MovingInv, Places, Counted, NoCursor, EmptyCursor, END_CURSOR
        <3>5. CASE place \in {<<>>, <<-1>>, <<-2>>}
            <4>1. CASE place = <<>>
                BY <3>2, <4>1
            <4>2. CASE place = <<-1>>
                BY <4>2
            <4>3. CASE place = <<-2>>
                BY <4>3
            <4>4. QED
                BY <3>5, <4>1, <4>2, <4>3
        <3>6. CASE place = <<place[1]>> /\ place[1] \in Nat
            <4>1. PICK k \in Nat : place = <<k>>
                BY <3>6
            <4>2. QED
                BY <3>1, <4>1
        <3>7. QED
            BY <3>3, <3>5, <3>6
    <2>3. place = NoCursor => walker # "iterator"
        BY <2>1 DEF MovingInv, Places, Counted, NoCursor
    <2>4. place # END_CURSOR => Decode(place) % Limit = 0
        BY <2>1, PlaceIsMultiple, Multiples DEF MovingInv, Counters
    <2>5. walker \in {"account", "async_account"} => place # END_CURSOR
        BY <2>1 DEF MovingInv, Places
    <2>6. seen # {} => walker = "collector"
        BY <2>1 DEF MovingInv, Collected
    <2>7. /\ more \in BOOLEAN /\ page \in Seq(Nat) /\ Len(page) <= ServerCap
          /\ yielded \in Seq(Nat) /\ listing \in Seq(Nat) /\ lasting \subseteq ToSet(listing)
        BY <2>1 DEF MovingInv, Places, Rowed
    <2>8. QED
        BY <2>1, <2>2, <2>3, <2>4, <2>5, <2>6, <2>7 DEF TypeOK, MovingInv, Counters
<1>2. QED
    BY <1>1, MovingTheorem, PTL
=============================================================================
