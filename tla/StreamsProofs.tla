---------------------------- MODULE StreamsProofs -----------------------------
(***************************************************************************)
(* What a subscription tells the bot, for all markets and labels, specs,     *)
(* prices and frames, and any number of events: it is so (SoInv), it is       *)
(* current (CurrentInv), and it is whole and in order (TopicInv, FillInv);   *)
(* and it ends where what it asked for cannot be told (EndsInv).             *)
(* What a flattened sequence holds is by induction over its length, of which  *)
(* the first lemmas are made.                                                *)
(***************************************************************************)
EXTENDS Streams, FiniteSetTheorems, WellFoundedInduction, TLAPS

(* A set of numbers has a least one. *)
LEMMA Least ==
    ASSUME NEW T \in SUBSET Nat, T # {}
    PROVE  \E m \in T : \A n \in T : ~(n < m)
<1> DEFINE R == OpToRel(<, Nat)
<1>1. IsWellFoundedOn(R, Nat)
    BY NatLessThanWellFounded
<1>2. \A m, n \in Nat : n < m => <<n, m>> \in R
    BY DEF OpToRel
<1> HIDE DEF R
<1>3. PICK m \in T : \A n \in T : <<n, m>> \notin R
    BY <1>1, WFMin
<1>4. QED
    BY <1>2, <1>3

(* A set with zero and every successor of its members has every number.      *)
LEMMA Induct ==
    ASSUME NEW T \in SUBSET Nat, 0 \in T, \A n \in Nat : n \in T => n + 1 \in T
    PROVE  T = Nat
<1>1. SUFFICES ASSUME Nat \ T # {} PROVE FALSE
    OBVIOUS
<1>2. PICK m \in Nat \ T : \A n \in Nat \ T : ~(n < m)
    BY <1>1, Least
<1>3. m # 0
    OBVIOUS
<1>4. m - 1 \in T
    BY <1>2, <1>3
<1>5. QED
    BY <1>2, <1>4

(* A set of numbers that has one and a bound has a greatest, which is Max.   *)
LEMMA Greatest ==
    ASSUME NEW n \in Nat, NEW T \in SUBSET (0..n), T # {}
    PROVE  Max(T) \in T /\ \A k \in T : k <= Max(T)
<1> DEFINE U == {k \in Nat : \A t \in T : t <= k}
<1>1. n \in U /\ U \in SUBSET Nat
    OBVIOUS
<1>2. PICK m \in U : \A k \in U : ~(k < m)
    BY <1>1, Least
<1>3. m \in T
    <2>1. SUFFICES ASSUME m \notin T PROVE FALSE
        OBVIOUS
    <2>2. \A t \in T : t < m /\ t \in Nat
        BY <1>2, <2>1
    <2>3. PICK t \in T : TRUE
        OBVIOUS
    <2>4. t < m /\ t \in Nat /\ m \in Nat
        BY <2>2
    <2>5. m - 1 \in Nat /\ \A x \in T : x <= m - 1
        BY <2>2, <2>4
    <2>6. m - 1 \in U
        BY <2>5
    <2>7. QED
        BY <1>2, <2>4, <2>6
<1>4. \E x \in T : \A y \in T : x >= y
    BY <1>2, <1>3
<1>5. QED
    BY <1>4 DEF Max
-----------------------------------------------------------------------------
(* Sequences, by the set of what is in them. *)

IsSeq(s) == s \in Seq(Range(s))

LEMMA SeqIsSeq ==
    ASSUME NEW S, NEW s \in Seq(S)
    PROVE  IsSeq(s) /\ Range(s) \subseteq S
<1>1. DOMAIN s = 1..Len(s) /\ Len(s) \in Nat /\ s \in [1..Len(s) -> S]
    OBVIOUS
<1>2. s \in [1..Len(s) -> Range(s)] /\ Range(s) \subseteq S
    BY <1>1 DEF Range
<1>3. QED
    BY <1>1, <1>2 DEF IsSeq

LEMMA SeqIsFunction ==
    ASSUME NEW s, IsSeq(s)
    PROVE  s = [k \in 1..Len(s) |-> s[k]]
BY DEF IsSeq

(* Putting two behind each other puts together what is in them. *)
LEMMA Behind ==
    ASSUME NEW s, NEW t, IsSeq(s), IsSeq(t)
    PROVE  /\ IsSeq(s \o t) /\ Range(s \o t) = Range(s) \cup Range(t)
           /\ Len(s) \in Nat /\ Len(t) \in Nat
           /\ DOMAIN s = 1..Len(s) /\ DOMAIN t = 1..Len(t)
           /\ Len(s \o t) = Len(s) + Len(t)
           /\ DOMAIN (s \o t) = 1..(Len(s) + Len(t))
           /\ \A k \in DOMAIN s : (s \o t)[k] = s[k]
           /\ \A k \in DOMAIN t : (s \o t)[Len(s) + k] = t[k]
<1> DEFINE S == Range(s) \cup Range(t)
<1>1. s \in Seq(S) /\ t \in Seq(S)
    BY DEF IsSeq
<1> HIDE DEF S
<1>2. /\ s \o t \in Seq(S) /\ Len(s) \in Nat /\ Len(t) \in Nat
      /\ DOMAIN s = 1..Len(s) /\ DOMAIN t = 1..Len(t)
      /\ Len(s \o t) = Len(s) + Len(t)
    BY <1>1
<1>3. DOMAIN (s \o t) = 1..(Len(s) + Len(t))
    BY <1>2
<1>4. \A k \in 1..Len(s) : (s \o t)[k] = s[k]
    BY <1>1, <1>2
<1>5. \A k \in 1..Len(t) : (s \o t)[Len(s) + k] = t[k]
    BY <1>1, <1>2
<1>6. Range(s \o t) \subseteq S
    BY <1>2, SeqIsSeq
<1>7. Range(s) \subseteq Range(s \o t)
    BY <1>2, <1>3, <1>4 DEF Range
<1>8. Range(t) \subseteq Range(s \o t)
    <2>1. \A k \in 1..Len(t) : Len(s) + k \in 1..(Len(s) + Len(t))
        BY <1>2
    <2>2. QED
        BY <1>2, <1>3, <1>5, <2>1 DEF Range
<1>9. IsSeq(s \o t)
    BY <1>2, SeqIsSeq
<1>10. QED
    BY <1>2, <1>3, <1>4, <1>5, <1>6, <1>7, <1>8, <1>9 DEF S

LEMMA Added ==
    ASSUME NEW s, IsSeq(s), NEW e
    PROVE  /\ IsSeq(Append(s, e)) /\ Range(Append(s, e)) = Range(s) \cup {e}
           /\ Len(s) \in Nat /\ Len(Append(s, e)) = Len(s) + 1
           /\ DOMAIN s = 1..Len(s) /\ DOMAIN Append(s, e) = 1..(Len(s) + 1)
           /\ \A k \in DOMAIN s : Append(s, e)[k] = s[k]
           /\ Append(s, e)[Len(s) + 1] = e
<1> DEFINE S == Range(s) \cup {e}
<1>1. s \in Seq(S) /\ e \in S
    BY DEF IsSeq
<1> HIDE DEF S
<1>2. /\ Append(s, e) \in Seq(S) /\ Len(s) \in Nat /\ Len(Append(s, e)) = Len(s) + 1
      /\ DOMAIN s = 1..Len(s)
    BY <1>1
<1>3. DOMAIN Append(s, e) = 1..(Len(s) + 1)
    BY <1>2
<1>4. /\ \A k \in 1..Len(s) : Append(s, e)[k] = s[k]
      /\ Append(s, e)[Len(s) + 1] = e
    BY <1>1, <1>2
<1>5. IsSeq(Append(s, e)) /\ Range(Append(s, e)) \subseteq S
    BY <1>2, SeqIsSeq
<1>6. S \subseteq Range(Append(s, e))
    BY <1>2, <1>3, <1>4 DEF Range, S
<1>7. QED
    BY <1>2, <1>3, <1>4, <1>5, <1>6 DEF S

LEMMA Taken ==
    ASSUME NEW s, IsSeq(s), s # <<>>
    PROVE  /\ Head(s) \in Range(s) /\ Head(s) = s[1]
           /\ IsSeq(Tail(s)) /\ Range(Tail(s)) \subseteq Range(s)
           /\ Len(s) \in Nat \ {0} /\ Len(Tail(s)) = Len(s) - 1
           /\ DOMAIN s = 1..Len(s)
           /\ \A k \in 1..(Len(s) - 1) : Tail(s)[k] = s[k + 1]
<1>1. s \in Seq(Range(s))
    BY DEF IsSeq
<1>2. /\ Len(s) \in Nat \ {0} /\ DOMAIN s = 1..Len(s) /\ Head(s) = s[1]
      /\ Tail(s) \in Seq(Range(s)) /\ Len(Tail(s)) = Len(s) - 1
    BY <1>1
<1>3. \A k \in 1..(Len(s) - 1) : Tail(s)[k] = s[k + 1]
    BY <1>1, <1>2
<1>4. Head(s) \in Range(s)
    BY <1>2 DEF Range
<1>5. QED
    BY <1>2, <1>3, <1>4, SeqIsSeq

(* The first parts of a sequence of sequences, flattened. *)
Flat(f, seqs, n) ==
    /\ f = [i \in 1..n |-> IF i = 1 THEN seqs[i] ELSE f[i - 1] \o seqs[i]]
    /\ \A i \in 1..n : /\ IsSeq(f[i])
                       /\ Range(f[i]) = UNION {Range(seqs[j]) : j \in 1..i}

LEMMA FlatTables ==
    ASSUME NEW seqs, NEW len \in Nat, \A i \in 1..len : IsSeq(seqs[i])
    PROVE  \A n \in Nat : n <= len => \E f : Flat(f, seqs, n)
<1> DEFINE T == {n \in Nat : n <= len => \E f : Flat(f, seqs, n)}
<1>1. 0 \in T
    <2>1. Flat([i \in 1..0 |-> 0], seqs, 0)
        BY DEF Flat
    <2>2. QED
        BY <2>1
<1>2. ASSUME NEW n \in Nat, n \in T PROVE n + 1 \in T
    <2>1. SUFFICES ASSUME n + 1 <= len PROVE \E g : Flat(g, seqs, n + 1)
        OBVIOUS
    <2>2. PICK f : Flat(f, seqs, n)
        BY <1>2, <2>1
    <2> DEFINE last == IF n = 0 THEN seqs[1] ELSE f[n] \o seqs[n + 1]
               g == [i \in 1..(n + 1) |-> IF i = n + 1 THEN last ELSE f[i]]
    <2>3. IsSeq(seqs[n + 1])
        BY <2>1
    <2>4. IsSeq(last) /\ Range(last) = UNION {Range(seqs[j]) : j \in 1..(n + 1)}
        <3>1. CASE n = 0
            BY <2>3, <3>1
        <3>2. CASE n # 0
            <4>1. IsSeq(f[n]) /\ Range(f[n]) = UNION {Range(seqs[j]) : j \in 1..n}
                <5>1. n \in 1..n
                    BY <3>2
                <5>2. QED
                    BY <2>2, <5>1, Zenon DEF Flat
            <4>2. /\ IsSeq(f[n] \o seqs[n + 1])
                  /\ Range(f[n] \o seqs[n + 1]) = Range(f[n]) \cup Range(seqs[n + 1])
                BY <2>3, <4>1, Behind
            <4>3. 1..(n + 1) = (1..n) \cup {n + 1}
                OBVIOUS
            <4>4. QED
                BY <3>2, <4>1, <4>2, <4>3
        <3>3. QED
            BY <3>1, <3>2
    <2> HIDE DEF last
    <2>5. \A i \in 1..n : g[i] = f[i]
        OBVIOUS
    <2>6. g[n + 1] = last
        OBVIOUS
    <2>7. \A i \in 1..n : f[i] = IF i = 1 THEN seqs[i] ELSE f[i - 1] \o seqs[i]
        BY <2>2 DEF Flat
    <2>8. \A i \in 1..(n + 1) :
            g[i] = IF i = 1 THEN seqs[i] ELSE g[i - 1] \o seqs[i]
        <3>1. TAKE i \in 1..(n + 1)
        <3>2. CASE i = n + 1
            BY <2>5, <2>6, <3>2 DEF last
        <3>3. CASE i # n + 1
            <4>1. i \in 1..n /\ (i # 1 => i - 1 \in 1..n)
                BY <3>3
            <4>2. QED
                BY <2>5, <2>7, <4>1
        <3>4. QED
            BY <3>2, <3>3
    <2>9. \A i \in 1..(n + 1) :
            IsSeq(g[i]) /\ Range(g[i]) = UNION {Range(seqs[j]) : j \in 1..i}
        <3>1. TAKE i \in 1..(n + 1)
        <3>2. CASE i = n + 1
            BY <2>4, <2>6, <3>2, Zenon
        <3>3. CASE i # n + 1
            <4>1. i \in 1..n
                BY <3>3
            <4>2. g[i] = f[i]
                BY <2>5, <4>1
            <4>3. QED
                BY <2>2, <4>1, <4>2, Zenon DEF Flat
        <3>4. QED
            BY <3>2, <3>3
    <2>10. g = [i \in 1..(n + 1) |-> IF i = 1 THEN seqs[i] ELSE g[i - 1] \o seqs[i]]
        <3>1. g = [i \in 1..(n + 1) |-> g[i]]
            OBVIOUS
        <3> HIDE DEF g
        <3>2. QED
            BY <2>8, <3>1
    <2> HIDE DEF g
    <2>11. Flat(g, seqs, n + 1)
        BY <2>9, <2>10 DEF Flat
    <2>12. QED
        BY <2>11
<1> HIDE DEF T
<1>3. T = Nat
    BY <1>1, <1>2, Induct DEF T
<1>4. QED
    BY <1>3 DEF T

(* FlattenSeq is the last entry of its table: there is no other table.       *)
LEMMA FlattenIsTable ==
    ASSUME NEW seqs, IsSeq(seqs), Len(seqs) # 0, NEW f,
           f = [i \in 1..Len(seqs) |-> IF i = 1 THEN seqs[i] ELSE f[i - 1] \o seqs[i]]
    PROVE  FlattenSeq(seqs) = f[Len(seqs)]
<1>1. Len(seqs) \in Nat
    BY DEF IsSeq
<1> DEFINE n == Len(seqs)
           Q(g) == g = [i \in 1..n |-> IF i = 1 THEN seqs[i] ELSE g[i - 1] \o seqs[i]]
           c == CHOOSE g : Q(g)
<1>2. Q(f)
    OBVIOUS
<1>3. Q(c)
    BY <1>2
<1>4. FlattenSeq(seqs) = c[n]
    BY DEF FlattenSeq
<1> HIDE DEF c
<1> DEFINE T == {i \in Nat : i \in 1..n => c[i] = f[i]}
<1>5. 0 \in T
    BY <1>1
<1>6. ASSUME NEW i \in Nat, i \in T PROVE i + 1 \in T
    <2>1. SUFFICES ASSUME i + 1 \in 1..n PROVE c[i + 1] = f[i + 1]
        OBVIOUS
    <2>2. /\ c[i + 1] = IF i + 1 = 1 THEN seqs[i + 1] ELSE c[i] \o seqs[i + 1]
          /\ f[i + 1] = IF i + 1 = 1 THEN seqs[i + 1] ELSE f[i] \o seqs[i + 1]
        <3>1. (i + 1) - 1 = i
            OBVIOUS
        <3>2. QED
            BY <1>2, <1>3, <2>1, <3>1
    <2>3. i + 1 # 1 => c[i] = f[i]
        BY <1>1, <1>6, <2>1
    <2>4. QED
        BY <2>2, <2>3
<1> HIDE DEF T
<1>7. T = Nat
    BY <1>5, <1>6, Induct DEF T
<1>8. n \in 1..n
    BY <1>1
<1>9. c[n] = f[n]
    BY <1>1, <1>7, <1>8 DEF T
<1>10. QED
    BY <1>4, <1>9

(* What FlattenSeq puts together is all there is, and no more.               *)
LEMMA Flattened ==
    ASSUME NEW seqs, IsSeq(seqs), \A i \in DOMAIN seqs : IsSeq(seqs[i])
    PROVE  /\ IsSeq(FlattenSeq(seqs))
           /\ Range(FlattenSeq(seqs)) = UNION {Range(seqs[i]) : i \in DOMAIN seqs}
<1>1. Len(seqs) \in Nat /\ DOMAIN seqs = 1..Len(seqs)
    BY DEF IsSeq
<1>2. CASE Len(seqs) = 0
    BY <1>1, <1>2 DEF FlattenSeq, IsSeq, Range
<1>3. CASE Len(seqs) # 0
    <2>n. PICK n : n = Len(seqs)
        OBVIOUS
    <2>0. n \in Nat /\ n <= n /\ \A i \in 1..n : IsSeq(seqs[i])
        BY <1>1, <2>n
    <2>1. PICK f : Flat(f, seqs, n)
        BY <2>0, FlatTables
    <2>2. FlattenSeq(seqs) = f[n]
        BY <1>3, <2>n, <2>1, FlattenIsTable DEF Flat
    <2>3. n \in 1..n
        BY <1>1, <1>3, <2>n
    <2>4. QED
        BY <1>1, <2>n, <2>1, <2>2, <2>3 DEF Flat
<1>4. QED
    BY <1>2, <1>3

(* One sequence more is put at the end.                                      *)
LEMMA FlattenedMore ==
    ASSUME NEW seqs, IsSeq(seqs), \A i \in DOMAIN seqs : IsSeq(seqs[i]),
           NEW s, IsSeq(s)
    PROVE  FlattenSeq(Append(seqs, s)) = FlattenSeq(seqs) \o s
<1> DEFINE all == Append(seqs, s)
           n == Len(seqs)
<1>1. /\ n \in Nat /\ DOMAIN seqs = 1..n /\ IsSeq(all) /\ Len(all) = n + 1
      /\ DOMAIN all = 1..(n + 1) /\ \A k \in 1..n : all[k] = seqs[k]
      /\ all[n + 1] = s
    BY Added
<1> HIDE DEF all, n
<1>2. \A i \in 1..(n + 1) : IsSeq(all[i])
    <2>1. TAKE i \in 1..(n + 1)
    <2>2. CASE i = n + 1
        BY <1>1, <2>2
    <2>3. CASE i # n + 1
        <3>1. i \in 1..n
            BY <1>1, <2>3
        <3>2. QED
            BY <1>1, <3>1
    <2>4. QED
        BY <2>2, <2>3
<1>3. PICK f : Flat(f, all, n + 1)
    BY <1>1, <1>2, FlatTables
<1>4. FlattenSeq(all) = f[n + 1]
    <2>1. Len(all) # 0
        BY <1>1
    <2>2. f = [i \in 1..Len(all) |-> IF i = 1 THEN all[i] ELSE f[i - 1] \o all[i]]
        BY <1>1, <1>3 DEF Flat
    <2>3. QED
        BY <1>1, <2>1, <2>2, FlattenIsTable
<1>5. \A i \in 1..(n + 1) : f[i] = IF i = 1 THEN all[i] ELSE f[i - 1] \o all[i]
    BY <1>3 DEF Flat
<1>6. CASE n = 0
    <2>1. seqs = <<>> /\ FlattenSeq(seqs) = <<>>
        BY <1>6 DEF n, IsSeq, FlattenSeq
    <2>2. f[n + 1] = s
        BY <1>1, <1>5, <1>6
    <2>3. <<>> \o s = s
        BY DEF IsSeq
    <2>4. QED
        BY <1>4, <2>1, <2>2, <2>3 DEF all
<1>7. CASE n # 0
    <2>1. f[n + 1] = f[n] \o s
        <3>1. n + 1 \in 1..(n + 1) /\ n + 1 # 1 /\ (n + 1) - 1 = n
            BY <1>1, <1>7
        <3>2. QED
            BY <1>1, <1>5, <3>1
    <2>2. PICK g : g = [i \in 1..n |-> f[i]]
        OBVIOUS
    <2>3. \A i \in 1..n : g[i] = IF i = 1 THEN seqs[i] ELSE g[i - 1] \o seqs[i]
        <3>1. TAKE i \in 1..n
        <3>2. i \in 1..(n + 1) /\ (i # 1 => i - 1 \in 1..n)
            BY <1>1
        <3>3. g[i] = f[i] /\ (i # 1 => g[i - 1] = f[i - 1]) /\ all[i] = seqs[i]
            BY <1>1, <2>2, <3>2
        <3>4. QED
            BY <1>5, <3>2, <3>3
    <2>4. g = [i \in 1..Len(seqs) |-> IF i = 1 THEN seqs[i] ELSE g[i - 1] \o seqs[i]]
        <3>1. g = [i \in 1..n |-> g[i]]
            BY <2>2
        <3>2. QED
            BY <2>3, <3>1 DEF n
    <2>5. FlattenSeq(seqs) = g[n]
        <3>1. Len(seqs) # 0
            BY <1>7 DEF n
        <3>2. QED
            BY <2>4, <3>1, FlattenIsTable DEF n
    <2>6. g[n] = f[n]
        <3>1. n \in 1..n
            BY <1>1, <1>7
        <3>2. QED
            BY <2>2, <3>1
    <2>7. QED
        BY <1>4, <2>1, <2>5, <2>6 DEF all
<1>8. QED
    BY <1>6, <1>7
-----------------------------------------------------------------------------
(* What the adapters make of a frame. *)

(* The events of one outcome of a blob. *)
EntryEvents(m, b, i, wanted) ==
    LET token == MakeToken(m, Labels[m][i])
    IN  IF token = NoToken \/ token \notin wanted THEN {}
        ELSE (IF b.price[i] = None THEN {}
              ELSE {[type |-> "price_change", token |-> token, price |-> b.price[i]]})
             \cup
             (IF b.last[i] = None \/ b.side = None THEN {}
              ELSE {[type |-> "last_trade_price", token |-> token,
                     price |-> b.last[i], side |-> Upper(b.side), size |-> b.size]})

LEMMA OneOrNone ==
    /\ IsSeq(<<>>) /\ Range(<<>>) = {}
    /\ \A e : IsSeq(<<e>>) /\ Range(<<e>>) = {e}
<1>1. IsSeq(<<>>) /\ Range(<<>>) = {}
    BY DEF IsSeq, Range
<1>2. ASSUME NEW e PROVE IsSeq(<<e>>) /\ Range(<<e>>) = {e}
    <2>1. DOMAIN <<e>> = {1} /\ <<e>>[1] = e
        OBVIOUS
    <2>2. Range(<<e>>) = {e}
        BY <2>1 DEF Range
    <2>3. QED
        BY <2>2 DEF IsSeq
<1>3. QED
    BY <1>1, <1>2

(* A sequence made entry by entry. *)
LEMMA Mapped ==
    ASSUME NEW s, IsSeq(s), NEW f, f = [i \in DOMAIN s |-> f[i]]
    PROVE  IsSeq(f) /\ DOMAIN f = DOMAIN s
<1>1. DOMAIN s = 1..Len(s) /\ Len(s) \in Nat
    BY DEF IsSeq
<1>2. DOMAIN f = 1..Len(s) /\ f \in [1..Len(s) -> Range(f)]
    BY <1>1 DEF Range
<1>3. QED
    BY <1>1, <1>2 DEF IsSeq

EntryOf(m, b, i) ==
    [label |-> Labels[m][i], price |-> b.price[i], last |-> b.last[i]]

LEMMA PricesAdapted ==
    ASSUME NEW m \in Markets, NEW b, NEW stamp, NEW wanted
    PROVE  LET frame == BlobFrame(m, b, stamp)
               made == AdaptPricesFrame(frame, wanted)
               token(i) == MakeToken(m, Labels[m][i])
           IN  /\ IsSeq(made.events)
               /\ made.ok <=> \A i \in DOMAIN Labels[m] :
                                token(i) # NoToken /\ token(i) \in wanted =>
                                    EntryCanBeMade(EntryOf(m, b, i), frame)
               /\ \A e : e \in Range(made.events) <=>
                        /\ made.ok
                        /\ \E i \in DOMAIN Labels[m] : e \in EntryEvents(m, b, i, wanted)
<1> DEFINE entry(i) == EntryOf(m, b, i)
           token(i) == MakeToken(m, Labels[m][i])
           frame == BlobFrame(m, b, stamp)
           of(i) == IF token(i) # NoToken /\ token(i) \in wanted
                    THEN PriceEvents(token(i), entry(i))
                         \o TradeEvents(token(i), entry(i), frame)
                    ELSE <<>>
           seqs == [i \in DOMAIN Labels[m] |-> of(i)]
           makeable == \A i \in DOMAIN Labels[m] :
                          token(i) # NoToken /\ token(i) \in wanted =>
                              EntryCanBeMade(entry(i), frame)
           made == AdaptPricesFrame(frame, wanted)
<1>1. made = IF makeable THEN Made(FlattenSeq(seqs)) ELSE Unmade
    <2>1. /\ frame.type = "price" /\ frame.market = m
          /\ frame.outcomes = [i \in DOMAIN Labels[m] |-> entry(i)]
        BY DEF BlobFrame, EntryOf
    <2>2. /\ DOMAIN frame.outcomes = DOMAIN Labels[m]
          /\ \A i \in DOMAIN Labels[m] : frame.outcomes[i] = entry(i)
        BY <2>1
    <2>3. \A i \in DOMAIN Labels[m] : entry(i).label = Labels[m][i]
        BY DEF EntryOf
    <2> HIDE DEF frame, entry
    <2> DEFINE t(i) == MakeToken(frame.market, frame.outcomes[i].label)
               g == [i \in DOMAIN frame.outcomes |->
                       IF t(i) # NoToken /\ t(i) \in wanted
                       THEN PriceEvents(t(i), frame.outcomes[i])
                            \o TradeEvents(t(i), frame.outcomes[i], frame)
                       ELSE <<>>]
               c == \A i \in DOMAIN frame.outcomes :
                       t(i) # NoToken /\ t(i) \in wanted =>
                           EntryCanBeMade(frame.outcomes[i], frame)
    <2>4. made = IF c THEN Made(FlattenSeq(g)) ELSE Unmade
        BY <2>1 DEF AdaptPricesFrame
    <2>5. g = seqs
        BY <2>1, <2>2, <2>3
    <2>6. c <=> makeable
        BY <2>1, <2>2, <2>3
    <2> HIDE DEF g, c, seqs, makeable, made
    <2>7. QED
        BY <2>4, <2>5, <2>6
<1>2. ASSUME NEW i \in DOMAIN Labels[m]
      PROVE  IsSeq(of(i)) /\ Range(of(i)) = EntryEvents(m, b, i, wanted)
    <2>1. /\ entry(i).price = b.price[i] /\ entry(i).last = b.last[i]
          /\ frame.side = b.side /\ frame.size = b.size
        BY DEF BlobFrame, EntryOf
    <2> DEFINE p == [type |-> "price_change", token |-> token(i), price |-> b.price[i]]
               l == [type |-> "last_trade_price", token |-> token(i),
                     price |-> b.last[i], side |-> Upper(b.side), size |-> b.size]
    <2> HIDE DEF entry, frame, token
    <2>2. PriceEvents(token(i), entry(i)) = IF b.price[i] = None THEN <<>> ELSE <<p>>
        BY <2>1 DEF PriceEvents
    <2>3. TradeEvents(token(i), entry(i), frame) =
            IF b.last[i] = None \/ b.side = None THEN <<>> ELSE <<l>>
        BY <2>1 DEF TradeEvents
    <2>4. EntryEvents(m, b, i, wanted) =
            IF token(i) = NoToken \/ token(i) \notin wanted THEN {}
            ELSE (IF b.price[i] = None THEN {} ELSE {p})
                 \cup (IF b.last[i] = None \/ b.side = None THEN {} ELSE {l})
        BY DEF EntryEvents, token
    <2> HIDE DEF p, l
    <2>5. /\ IsSeq(PriceEvents(token(i), entry(i)))
          /\ Range(PriceEvents(token(i), entry(i))) =
               (IF b.price[i] = None THEN {} ELSE {p})
        BY <2>2, OneOrNone
    <2>6. /\ IsSeq(TradeEvents(token(i), entry(i), frame))
          /\ Range(TradeEvents(token(i), entry(i), frame)) =
               (IF b.last[i] = None \/ b.side = None THEN {} ELSE {l})
        BY <2>3, OneOrNone
    <2>7. CASE token(i) = NoToken \/ token(i) \notin wanted
        BY <2>4, <2>7, OneOrNone
    <2>8. CASE ~(token(i) = NoToken \/ token(i) \notin wanted)
        <3> DEFINE x == PriceEvents(token(i), entry(i))
                   y == TradeEvents(token(i), entry(i), frame)
        <3>1. of(i) = x \o y
            BY <2>8
        <3>2. Range(x) \cup Range(y) = EntryEvents(m, b, i, wanted)
            BY <2>4, <2>5, <2>6, <2>8
        <3>3. IsSeq(x) /\ IsSeq(y)
            BY <2>5, <2>6
        <3> HIDE DEF x, y, of
        <3>4. QED
            BY <3>1, <3>2, <3>3, Behind
    <2>9. QED
        BY <2>7, <2>8
<1> HIDE DEF of, frame, token, entry, makeable
<1>3. IsSeq(Labels[m])
    BY LabelsAssumption DEF IsSeq
<1>4. IsSeq(seqs) /\ DOMAIN seqs = DOMAIN Labels[m]
    BY <1>3, Mapped
<1>5. \A i \in DOMAIN seqs : IsSeq(seqs[i])
    BY <1>2, <1>4
<1>6. /\ IsSeq(FlattenSeq(seqs))
      /\ Range(FlattenSeq(seqs)) = UNION {Range(seqs[i]) : i \in DOMAIN seqs}
    BY <1>4, <1>5, Flattened
<1>7. \A e : e \in Range(FlattenSeq(seqs)) <=>
               \E i \in DOMAIN Labels[m] : e \in EntryEvents(m, b, i, wanted)
    BY <1>2, <1>4, <1>6
<1>8. CASE makeable
    <2>1. made.ok /\ made.events = FlattenSeq(seqs)
        BY <1>1, <1>8 DEF Made
    <2>2. QED
        BY <1>6, <1>7, <1>8, <2>1 DEF frame, token, entry, makeable
<1>9. CASE ~makeable
    <2>1. ~made.ok /\ made.events = <<>>
        BY <1>1, <1>9 DEF Unmade
    <2>2. QED
        BY <1>9, <2>1, OneOrNone DEF frame, token, entry, makeable
<1>10. QED
    BY <1>8, <1>9

(* A fill is told as two events of its token, or not at all. *)
FillEvents(f) ==
    {[type |-> type, id |-> f.id, token |-> MakeToken(f.market, f.outcome)] :
        type \in {"trade", "order"}}

LEMMA FillAdapted ==
    ASSUME NEW f, NEW markets
    PROVE  LET made == AdaptExecutionFrame(f, markets)
           IN  /\ IsSeq(made.events)
               /\ Range(made.events) = {} \/
                    /\ f.type = "fill" /\ Admits(markets, f.market)
                    /\ MakeToken(f.market, f.outcome) # NoToken
                    /\ Range(made.events) = FillEvents(f)
<1> DEFINE made == AdaptExecutionFrame(f, markets)
           event(type) ==
               [type |-> type, id |-> f.id, token |-> MakeToken(f.market, f.outcome)]
<1>1. CASE \/ f.type # "fill" \/ ~Admits(markets, f.market)
           \/ MakeToken(f.market, f.outcome) = NoToken
    <2>1. made = Made(<<>>)
        BY <1>1 DEF AdaptExecutionFrame
    <2>2. QED
        BY <2>1, OneOrNone DEF Made
<1>2. CASE ~(\/ f.type # "fill" \/ ~Admits(markets, f.market)
             \/ MakeToken(f.market, f.outcome) = NoToken)
    <2>1. CASE FillCanBeMade(f)
        <3>1. made = Made(<<event("trade"), event("order")>>)
            BY <1>2, <2>1 DEF AdaptExecutionFrame
        <3>2. made.ok /\ made.events = <<event("trade")>> \o <<event("order")>>
            BY <3>1 DEF Made
        <3>3. FillEvents(f) = {event("trade")} \cup {event("order")}
            BY DEF FillEvents
        <3> HIDE DEF made, event
        <3>4. IsSeq(made.events) /\ Range(made.events) = FillEvents(f)
            BY <3>2, <3>3, Behind, OneOrNone
        <3>5. QED
            BY <1>2, <3>2, <3>4 DEF made
    <2>2. CASE ~FillCanBeMade(f)
        <3>1. made = Unmade
            BY <1>2, <2>2 DEF AdaptExecutionFrame
        <3>2. QED
            BY <3>1, OneOrNone DEF Unmade
    <2>3. QED
        BY <2>1, <2>2
<1>3. QED
    BY <1>1, <1>2

(* Updates are told as updates. *)
LEMMA UpdateAdapted ==
    ASSUME NEW u, NEW s
    PROVE  LET made == CryptoEventFor(u, s)
           IN  /\ IsSeq(made.events)
               /\ \A e \in Range(made.events) : e.type = "update"
<1> DEFINE made == CryptoEventFor(u, s)
           event == [type |-> "update", topic |-> TopicOf(u.source),
                     symbol |-> u.symbol, price |-> u.price]
<1>1. \/ made = Made(<<>>)
      \/ made = Made(<<event>>)
      \/ made = Unmade
    BY DEF CryptoEventFor
<1> HIDE DEF made
<1>2. QED
    BY <1>1, OneOrNone DEF Made, Unmade, made

LEMMA SpotAdapted ==
    ASSUME NEW batch \in Batches, NEW type, NEW s
    PROVE  LET made == AdaptSpotFrame([type |-> type, updates |-> batch], s)
           IN  /\ IsSeq(made.events)
               /\ \A e \in Range(made.events) : e.type = "update"
<1> DEFINE f == [type |-> type, updates |-> batch]
           made == AdaptSpotFrame(f, s)
           each == [i \in DOMAIN batch |-> CryptoEventFor(batch[i], s)]
           seqs == [i \in DOMAIN each |-> each[i].events]
<1>1. f.type = type /\ f.updates = batch
    OBVIOUS
<1>2. CASE type \notin {"crypto_price", "crypto_price_batch"}
    <2>1. made = Made(<<>>)
        BY <1>2 DEF AdaptSpotFrame
    <2>2. QED
        BY <2>1, OneOrNone DEF Made
<1>3. CASE /\ type \in {"crypto_price", "crypto_price_batch"}
           /\ \E i \in DOMAIN each : ~each[i].ok
    <2>1. made = Unmade
        BY <1>3 DEF AdaptSpotFrame
    <2>2. QED
        BY <2>1, OneOrNone DEF Unmade
<1>4. CASE /\ type \in {"crypto_price", "crypto_price_batch"}
           /\ ~\E i \in DOMAIN each : ~each[i].ok
    <2>1. made = Made(FlattenSeq(seqs))
        BY <1>4 DEF AdaptSpotFrame
    <2>2. IsSeq(batch)
        BY BatchesAssumption DEF IsSeq
    <2>3. DOMAIN seqs = DOMAIN batch
        OBVIOUS
    <2>4. \A i \in DOMAIN seqs :
            IsSeq(seqs[i]) /\ \A e \in Range(seqs[i]) : e.type = "update"
        BY UpdateAdapted
    <2> HIDE DEF each
    <2>5. seqs = [i \in DOMAIN batch |-> seqs[i]]
        BY <2>3
    <2> HIDE DEF seqs, made
    <2>6. IsSeq(seqs)
        BY <2>2, <2>5, Mapped
    <2>7. /\ IsSeq(FlattenSeq(seqs))
          /\ Range(FlattenSeq(seqs)) = UNION {Range(seqs[i]) : i \in DOMAIN seqs}
        BY <2>4, <2>6, Flattened
    <2>8. made.ok /\ made.events = FlattenSeq(seqs)
        BY <2>1 DEF Made
    <2>9. QED
        BY <2>4, <2>7, <2>8 DEF made
<1>5. QED
    BY <1>2, <1>3, <1>4
-----------------------------------------------------------------------------
(* Types. *)

Kinds == {"market", "crypto", "user"}

PriceFrame(f) == \E m \in Markets : \E b, stamp : f = BlobFrame(m, b, stamp)
FillFrame(f) ==
    f.type = "fill" /\ f.market \in Markets
    /\ f.outcome \in Range(Labels[f.market]) \cup {""}
SpotFrame(f) == \E batch \in Batches : \E type :
                    f = [type |-> type, updates |-> batch]
                    /\ type \in {"crypto_price", "crypto_price_batch"}
OtherKind(f) == f = [type |-> "other"]

(* What can be in flight, by the kind of the spec. *)
InFlight(f) ==
    \/ spec.kind = "market" /\ PriceFrame(f)
    \/ spec.kind = "user" /\ FillFrame(f)
    \/ spec.kind = "crypto" /\ SpotFrame(f)
    \/ OtherKind(f)

EventTypes == {"price_change", "last_trade_price", "trade", "order", "update"}

(* Whatever is made of a frame is events. *)
LEMMA Events ==
    ASSUME NEW f, InFlight(f), spec.kind \in Kinds
    PROVE  /\ IsSeq(Adapted(f).events)
           /\ \A e \in Range(Adapted(f).events) : e.type \in EventTypes
<1>1. CASE spec.kind = "market"
    <2>1. Adapted(f) = AdaptPricesFrame(f, spec.filter.ids)
        BY <1>1 DEF Adapted
    <2>2. CASE OtherKind(f)
        <3>1. Adapted(f) = Made(<<>>)
            BY <2>1, <2>2 DEF OtherKind, AdaptPricesFrame
        <3>2. QED
            BY <3>1, OneOrNone DEF Made
    <2>3. CASE PriceFrame(f)
        <3>1. PICK m \in Markets : \E b, stamp : f = BlobFrame(m, b, stamp)
            BY <2>3 DEF PriceFrame
        <3>0. PICK b, stamp : f = BlobFrame(m, b, stamp)
            BY <3>1
        <3>w. PICK wanted : wanted = spec.filter.ids
            OBVIOUS
        <3>2. /\ IsSeq(Adapted(f).events)
              /\ \A e \in Range(Adapted(f).events) :
                   \E i \in DOMAIN Labels[m] : e \in EntryEvents(m, b, i, wanted)
            BY <2>1, <3>0, <3>w, PricesAdapted
        <3>3. \A i, e : e \in EntryEvents(m, b, i, wanted) => e.type \in EventTypes
            BY DEF EntryEvents, EventTypes
        <3>4. QED
            BY <3>2, <3>3
    <2>4. QED
        BY <1>1, <2>2, <2>3 DEF InFlight
<1>2. CASE spec.kind = "user"
    <2>1. Adapted(f) = AdaptExecutionFrame(f, spec.filter)
        BY <1>2 DEF Adapted
    <2>2. \A e \in FillEvents(f) : e.type \in EventTypes
        BY DEF FillEvents, EventTypes
    <2>3. /\ IsSeq(Adapted(f).events)
          /\ Range(Adapted(f).events) = {} \/ Range(Adapted(f).events) = FillEvents(f)
        BY <2>1, FillAdapted
    <2>4. QED
        BY <2>2, <2>3
<1>3. CASE spec.kind = "crypto"
    <2>1. Adapted(f) = AdaptSpotFrame(f, spec)
        BY <1>3 DEF Adapted
    <2>2. CASE OtherKind(f)
        <3>1. Adapted(f) = Made(<<>>)
            BY <2>1, <2>2 DEF OtherKind, AdaptSpotFrame
        <3>2. QED
            BY <3>1, OneOrNone DEF Made
    <2>3. CASE SpotFrame(f)
        <3>0. PICK batch \in Batches : \E type :
                f = [type |-> type, updates |-> batch]
                /\ type \in {"crypto_price", "crypto_price_batch"}
            BY <2>3 DEF SpotFrame
        <3>1. PICK type : f = [type |-> type, updates |-> batch]
                          /\ type \in {"crypto_price", "crypto_price_batch"}
            BY <3>0
        <3>2. /\ IsSeq(Adapted(f).events)
              /\ \A e \in Range(Adapted(f).events) : e.type = "update"
            BY <2>1, <3>1, SpotAdapted
        <3>3. QED
            BY <3>2 DEF EventTypes
    <2>4. QED
        BY <1>3, <2>2, <2>3 DEF InFlight
<1>4. QED
    BY <1>1, <1>2, <1>3 DEF Kinds

TypesInv ==
    /\ TypeOK /\ spec.kind \in Kinds
    /\ IsSeq(feed) /\ IsSeq(told) /\ IsSeq(taken) /\ IsSeq(happened)
    /\ status = "new" => spec \in Specs /\ happened = <<>> /\ told = <<>>
                          /\ feed = <<>> /\ taken = <<>>
    /\ status = "refused" => taken = <<>>
    /\ \A f \in Range(feed) : InFlight(f)
    /\ \A e \in Range(told) : e.type \in EventTypes

(* What a subscription checks: an open stream is one that can tell           *)
(* something, and has the kind and the filter of a spec.                     *)
LEMMA SubscribeTypes == TypesInv /\ Subscribe => TypesInv'
<1> SUFFICES ASSUME TypesInv, Subscribe PROVE TypesInv'
    OBVIOUS
<1>1. /\ spec \in Specs /\ status = "new"
      /\ UNCHANGED <<client, feed, told, happened, missed, taken>>
    BY DEF Subscribe, TypesInv
<1>2. /\ spec.kind \in Kinds /\ {"kind", "filter"} \subseteq DOMAIN spec
      /\ spec.filter = All \/ spec.filter = Only(spec.filter.ids)
    BY <1>1, SpecsAssumption DEF Kinds
<1>3. /\ spec'.kind = spec.kind
      /\ status' = "open" => spec'.filter.all \/ spec'.filter.ids # {}
      /\ status' \in {"open", "refused"}
    <2>1. CASE (ValidMarketSpec(spec) \/ ValidCryptoSpec(spec) \/ ValidUserSpec(spec))
               /\ Opens(client, spec)
        <3>1. spec' = Normalized(spec) /\ status' = "open"
            BY <2>1 DEF Subscribe
        <3>2. CASE spec.kind = "user" /\ spec.filter = Only({})
            <4>1. spec' = [spec EXCEPT !.filter = All]
                BY <3>1, <3>2 DEF Normalized
            <4>2. spec'.kind = spec.kind /\ spec'.filter = All
                BY <1>2, <4>1
            <4>3. QED
                BY <3>1, <4>2 DEF All
        <3>3. CASE ~(spec.kind = "user" /\ spec.filter = Only({}))
            <4>1. spec' = spec
                BY <3>1, <3>3 DEF Normalized
            <4>2. spec.filter.all \/ spec.filter.ids # {}
                <5>1. All.all
                    BY DEF All
                <5>2. CASE spec.kind = "user"
                    <6>1. spec.filter = All \/ spec.filter.ids # {}
                        BY <1>2, <3>3, <5>2
                    <6>2. QED
                        BY <5>1, <6>1
                <5>3. CASE spec.kind # "user"
                    BY <2>1, <5>3
                    DEF ValidMarketSpec, ValidCryptoSpec, ValidUserSpec
                <5>4. QED
                    BY <5>2, <5>3
            <4>3. QED
                BY <3>1, <4>1, <4>2
        <3>4. QED
            BY <3>2, <3>3
    <2>2. CASE ~((ValidMarketSpec(spec) \/ ValidCryptoSpec(spec) \/ ValidUserSpec(spec))
               /\ Opens(client, spec))
        BY <2>2 DEF Subscribe
    <2>3. QED
        BY <2>1, <2>2
<1>4. TypeOK'
    BY <1>1, <1>3 DEF TypesInv, TypeOK
<1>5. Range(<<>>) = {}
    BY OneOrNone
<1>6. QED
    BY <1>1, <1>3, <1>4, <1>5 DEF TypesInv

(* The pump tells events only. *)
LEMMA PumpTypes == TypesInv /\ Pump => TypesInv'
<1> SUFFICES ASSUME TypesInv, Pump PROVE TypesInv'
    OBVIOUS
<1> DEFINE f == Head(feed)
<1>1. /\ status = "open" /\ feed # <<>>
      /\ told' = told \o Adapted(f).events
      /\ status' = (IF Adapted(f).ok THEN "open" ELSE "ended")
      /\ taken' = Append(taken, f) /\ feed' = Tail(feed)
      /\ UNCHANGED <<client, spec, happened, missed>>
    BY DEF Pump
<1>2. /\ f \in Range(feed) /\ IsSeq(feed') /\ Range(feed') \subseteq Range(feed)
      /\ Len(feed) \in Nat /\ Len(feed') = Len(feed) - 1
    BY <1>1, Taken DEF TypesInv
<1> HIDE DEF f
<1>3. /\ IsSeq(taken') /\ Len(taken') = Len(taken) + 1 /\ Len(taken) \in Nat
      /\ taken'[Len(taken')] = f
    BY <1>1, Added DEF TypesInv
<1>4. InFlight(f) /\ spec.kind \in Kinds
    BY <1>2 DEF TypesInv
<1>5. /\ IsSeq(Adapted(f).events)
      /\ \A e \in Range(Adapted(f).events) : e.type \in EventTypes
    BY <1>4, Events
<1>6. IsSeq(told') /\ Range(told') = Range(told) \cup Range(Adapted(f).events)
    BY <1>1, <1>5, Behind DEF TypesInv
<1>7. \A e \in Range(told') : e.type \in EventTypes
    BY <1>5, <1>6 DEF TypesInv
<1>9. \A g \in Range(feed') : InFlight(g)'
    BY <1>1, <1>2 DEF TypesInv, InFlight
<1>10. TypeOK'
    <2>1. \A i \in DOMAIN told' : told'[i].type \in EventTypes
        BY <1>7 DEF Range
    <2>2. Len(taken') + Len(feed') = Len(taken) + Len(feed)
        BY <1>2, <1>3
    <2>3. QED
        BY <1>1, <2>1, <2>2 DEF TypesInv, TypeOK, EventTypes
<1>11. QED
    BY <1>1, <1>2, <1>3, <1>6, <1>7, <1>9, <1>10 DEF TypesInv

(* Something happens at the server: a frame is sent, or none.                *)
LEMMA HappensTypes ==
    ASSUME TypesInv, NEW kind, NEW event, Happens(kind, event),
           feed' = feed \/ \E f : feed' = Append(feed, f) /\ InFlight(f),
           missed'.markets \subseteq Markets
    PROVE  TypesInv'
<1>1. /\ status = "open" /\ spec.kind = kind /\ Len(happened) < MaxEvents[kind]
      /\ happened' = Append(happened, event)
      /\ UNCHANGED <<client, spec, status, told, taken>>
    BY DEF Happens
<1>2. /\ IsSeq(happened') /\ Len(happened) \in Nat
      /\ Len(happened') = Len(happened) + 1
    BY <1>1, Added DEF TypesInv
<1>3. /\ IsSeq(feed') /\ \A f \in Range(feed') : InFlight(f)
      /\ Len(feed) \in Nat
      /\ Len(feed') = Len(feed) \/ Len(feed') = Len(feed) + 1
    <2>1. IsSeq(feed) /\ \A f \in Range(feed) : InFlight(f)
        BY DEF TypesInv
    <2>2. Len(feed) \in Nat
        BY <2>1 DEF IsSeq
    <2>3. CASE feed' = feed
        BY <2>1, <2>2, <2>3
    <2>4. CASE \E f : feed' = Append(feed, f) /\ InFlight(f)
        <3>1. PICK f : feed' = Append(feed, f) /\ InFlight(f)
            BY <2>4
        <3>2. /\ IsSeq(feed') /\ Range(feed') = Range(feed) \cup {f}
              /\ Len(feed') = Len(feed) + 1
            BY <2>1, <3>1, Added
        <3>3. QED
            BY <2>1, <2>2, <3>1, <3>2
    <2>5. QED
        BY <2>3, <2>4
<1>4. Len(taken) \in Nat
    BY DEF TypesInv, IsSeq
<1>5. MaxEvents[kind] \in Nat
    BY <1>1, SpecsAssumption DEF TypesInv, Kinds
<1>6. TypeOK'
    <2>1. Len(happened') <= MaxEvents[spec'.kind]
        BY <1>1, <1>2, <1>5
    <2>2. Len(taken') + Len(feed') <= Len(happened')
        <3>1. Len(taken) + Len(feed) <= Len(happened)
            BY DEF TypesInv, TypeOK
        <3>2. QED
            BY <1>1, <1>2, <1>3, <1>4, <3>1
    <2>3. QED
        BY <1>1, <2>1, <2>2 DEF TypesInv, TypeOK
<1>7. \A f \in Range(feed') : InFlight(f)'
    BY <1>1, <1>3 DEF InFlight
<1>8. QED
    BY <1>1, <1>2, <1>3, <1>6, <1>7 DEF TypesInv

(* A broadcast sends a price frame, to those who have asked for its market.  *)
LEMMA BroadcastSends ==
    ASSUME TypesInv, spec.kind = "market", NEW m \in Markets, NEW b, Broadcast(m, b)
    PROVE  /\ feed' = feed \/ \E f : feed' = Append(feed, f) /\ InFlight(f)
           /\ missed'.markets \subseteq Markets
<1>1. \A stamp : InFlight(BlobFrame(m, b, stamp))
    BY DEF InFlight, PriceFrame
<1>2. feed' = feed \/ \E stamp : feed' = Append(feed, BlobFrame(m, b, stamp))
    BY DEF Broadcast
<1>3. missed'.markets \subseteq Markets
    <2>1. missed' = [missed EXCEPT !.markets = @ \ {m}]
        BY DEF Broadcast
    <2>2. missed.markets \subseteq Markets
        BY DEF TypesInv, TypeOK
    <2>3. QED
        BY <2>1, <2>2
<1>4. QED
    BY <1>1, <1>2, <1>3

LEMMA ServerTypes ==
    TypesInv /\ (PriceMoves \/ Trade \/ Fill \/ Tick \/ OtherFrame) => TypesInv'
<1> SUFFICES ASSUME TypesInv, PriceMoves \/ Trade \/ Fill \/ Tick \/ OtherFrame
             PROVE  TypesInv'
    OBVIOUS
<1>1. CASE PriceMoves \/ Trade
    <2>1. PICK m \in Markets : \E event, b :
            Happens("market", event) /\ Broadcast(m, b)
        BY <1>1 DEF PriceMoves, Trade
    <2>2. PICK event, b : Happens("market", event) /\ Broadcast(m, b)
        BY <2>1
    <2>3. spec.kind = "market"
        BY <2>2 DEF Happens
    <2>4. QED
        BY <2>2, <2>3, BroadcastSends, HappensTypes
<1>2. missed.markets \subseteq Markets
    BY DEF TypesInv, TypeOK
<1>3. CASE Fill
    <2>1. PICK f, event :
            /\ Happens("user", event) /\ missed' = missed /\ feed' = Append(feed, f)
            /\ f.type = "fill" /\ f.market \in Markets
            /\ f.outcome \in Range(Labels[f.market]) \cup {""}
        <3>1. PICK m \in Markets, form \in FillForms : \E l \in Range(Labels[m]) \cup {""} :
                \E event, id :
                   /\ Happens("user", event) /\ missed' = missed
                   /\ feed' = Append(feed, [type |-> "fill", id |-> id, market |-> m,
                                            outcome |-> l, side |-> form.side,
                                            price |-> form.price, stamp |-> form.stamp])
            BY <1>3 DEF Fill
        <3>p. PICK l \in Range(Labels[m]) \cup {""} : \E event, id :
                /\ Happens("user", event) /\ missed' = missed
                /\ feed' = Append(feed, [type |-> "fill", id |-> id, market |-> m,
                                         outcome |-> l, side |-> form.side,
                                         price |-> form.price, stamp |-> form.stamp])
            BY <3>1
        <3>2. PICK event, id :
                /\ Happens("user", event) /\ missed' = missed
                /\ feed' = Append(feed, [type |-> "fill", id |-> id, market |-> m,
                                         outcome |-> l, side |-> form.side,
                                         price |-> form.price, stamp |-> form.stamp])
            BY <3>p
        <3>3. PICK f : f = [type |-> "fill", id |-> id, market |-> m, outcome |-> l,
                            side |-> form.side, price |-> form.price, stamp |-> form.stamp]
            OBVIOUS
        <3>4. f.type = "fill" /\ f.market = m /\ f.outcome = l
            BY <3>3
        <3>5. QED
            BY <3>2, <3>3, <3>4
    <2>2. missed' = missed /\ Happens("user", event)
        BY <2>1
    <2>3. InFlight(f) /\ feed' = Append(feed, f)
        BY <2>1 DEF Happens, InFlight, FillFrame
    <2>4. QED
        BY <1>2, <2>2, <2>3, HappensTypes
<1>4. CASE Tick
    <2>1. PICK batch \in Batches : \E type, event :
            /\ Happens("crypto", event) /\ missed' = missed
            /\ type \in {"crypto_price", "crypto_price_batch"}
            /\ feed' = Append(feed, [type |-> type, updates |-> batch])
        BY <1>4 DEF Tick
    <2>2. PICK type, event :
            /\ Happens("crypto", event) /\ missed' = missed
            /\ type \in {"crypto_price", "crypto_price_batch"}
            /\ feed' = Append(feed, [type |-> type, updates |-> batch])
        BY <2>1
    <2>3. InFlight([type |-> type, updates |-> batch])
        BY <2>2 DEF Happens, InFlight, SpotFrame
    <2>4. QED
        BY <1>2, <2>2, <2>3, HappensTypes
<1>5. CASE OtherFrame
    <2>1. /\ Happens(spec.kind, [kind |-> "other"]) /\ missed' = missed
          /\ feed' = Append(feed, [type |-> "other"]) /\ InFlight([type |-> "other"])
        BY <1>5 DEF OtherFrame, InFlight, OtherKind
    <2>2. QED
        BY <1>2, <2>1, HappensTypes
<1>6. QED
    BY <1>1, <1>3, <1>4, <1>5

(* A market whose frame is lost is one there is.                             *)
LEMMA DropTypes == TypesInv /\ Drop => TypesInv'
<1> SUFFICES ASSUME TypesInv, Drop PROVE TypesInv'
    OBVIOUS
<1>1. /\ feed' = <<>> /\ UNCHANGED <<client, spec, status, told, happened, taken>>
      /\ missed' = [markets |-> missed.markets
                                \cup {f.market : f \in Frames(feed, "price")},
                    fills |-> missed.fills \cup {f.id : f \in Frames(feed, "fill")}]
    BY DEF Drop
<1>2. ASSUME NEW f \in Frames(feed, "price") PROVE f.market \in Markets
    <2>1. f \in Range(feed) /\ f.type = "price"
        BY <1>2 DEF Frames, Range
    <2>2. InFlight(f)
        BY <2>1 DEF TypesInv
    <2>3. PriceFrame(f)
        <3>1. FillFrame(f) => f.type = "fill"
            BY DEF FillFrame
        <3>2. SpotFrame(f) => f.type # "price"
            BY DEF SpotFrame
        <3>3. OtherKind(f) => f.type = "other"
            BY DEF OtherKind
        <3>4. QED
            BY <2>1, <2>2, <3>1, <3>2, <3>3 DEF InFlight
    <2>4. QED
        BY <2>3 DEF PriceFrame, BlobFrame
<1>3. missed'.markets \subseteq Markets
    BY <1>1, <1>2 DEF TypesInv, TypeOK
<1>4. Len(feed) \in Nat /\ Len(taken) \in Nat /\ Len(happened) \in Nat
    BY DEF TypesInv, IsSeq
<1>5. IsSeq(feed') /\ Range(feed') = {} /\ Len(feed') = 0
    BY <1>1, OneOrNone
<1>6. TypeOK'
    <2>1. Len(taken') + Len(feed') <= Len(happened')
        BY <1>1, <1>4, <1>5 DEF TypesInv, TypeOK
    <2>2. QED
        BY <1>1, <1>3, <2>1 DEF TypesInv, TypeOK
<1>7. QED
    BY <1>1, <1>5, <1>6 DEF TypesInv

(* Types and frames, in every state. *)
THEOREM TypesTheorem == Spec => []TypesInv
<1>1. Init => TypesInv
    <2> SUFFICES ASSUME Init PROVE TypesInv
        OBVIOUS
    <2>1. /\ client \in Clients /\ spec \in Specs /\ status = "new"
          /\ feed = <<>> /\ told = <<>> /\ happened = <<>> /\ taken = <<>>
          /\ missed.markets = {}
        BY DEF Init
    <2>2. IsSeq(<<>>) /\ Range(<<>>) = {} /\ Len(<<>>) = 0
        BY OneOrNone
    <2>3. spec.kind \in Kinds /\ MaxEvents[spec.kind] \in Nat
        BY <2>1, SpecsAssumption DEF Kinds
    <2>4. TypeOK
        BY <2>1, <2>2, <2>3 DEF TypeOK
    <2>5. QED
        BY <2>1, <2>2, <2>3, <2>4 DEF TypesInv
<1>2. TypesInv /\ [Next]_vars => TypesInv'
    <2> SUFFICES ASSUME TypesInv, [Next]_vars PROVE TypesInv'
        OBVIOUS
    <2>1. CASE Done \/ UNCHANGED vars
        <3>1. UNCHANGED vars
            BY <2>1 DEF Done
        <3>2. \A f \in Range(feed) : InFlight(f) => InFlight(f)'
            BY <3>1 DEF vars, InFlight
        <3>3. QED
            BY <3>1, <3>2 DEF vars, TypesInv, TypeOK
    <2>2. QED
        BY <2>1, SubscribeTypes, PumpTypes, ServerTypes, DropTypes DEF Next
<1>3. QED
    BY <1>1, <1>2, PTL DEF Spec

(* The types; an open stream is never one that can tell nothing, and what is *)
(* told are events of the five kinds.                                        *)
THEOREM TypesHold == Spec => []TypeOK
    BY TypesTheorem, PTL DEF TypesInv
-----------------------------------------------------------------------------
(* What is told is so. *)

(* The token of an event is taken apart into what it was made of. *)
TradedAs(token) ==
    \E m \in Markets : \E l \in Range(Labels[m]) :
        /\ Meant(SplitToken(token)) = <<m, Upper(l)>>
        /\ BookRoute(token) = [by |-> "market", id |-> m, outcome |-> Upper(l)]

LEMMA UpperTwice ==
    /\ \A l : Upper(Upper(l)) = Upper(l)
    /\ \A l : Upper(l) = "" => l = ""
BY DEF Upper

LEMMA TokenTakenApart ==
    ASSUME NEW m \in Markets, NEW l \in Range(Labels[m])
    PROVE  /\ MakeToken(m, l) = m \o <<Upper(l)>> /\ MakeToken(m, l) # NoToken
           /\ HasColon(MakeToken(m, l))
           /\ LabelPart(MakeToken(m, l)) = Upper(l)
           /\ MarketPart(MakeToken(m, l)) = m
           /\ LabelPart(MakeToken(m, l)) \in Outcomes => TradedAs(MakeToken(m, l))
<1> DEFINE t == m \o <<Upper(l)>>
<1>1. /\ m \in Seq(Range(m)) /\ ~IsEmpty(m) /\ l # ""
    BY LabelsAssumption
<1>2. MakeToken(m, l) = t
    BY <1>1 DEF MakeToken
<1>3. Len(m) \in Nat \ {0}
    <2>1. m # <<>>
        BY <1>1 DEF IsEmpty
    <2>2. QED
        BY <1>1, <2>1, Taken DEF IsSeq
<1>4. IsSeq(m) /\ IsSeq(<<Upper(l)>>) /\ Len(<<Upper(l)>>) = 1
    BY <1>1, OneOrNone DEF IsSeq
<1>5. /\ IsSeq(t) /\ Len(t) = Len(m) + 1 /\ DOMAIN m = 1..Len(m)
      /\ \A k \in DOMAIN m : t[k] = m[k]
      /\ t[Len(m) + 1] = Upper(l)
    <2>1. /\ IsSeq(t) /\ Len(t) = Len(m) + 1 /\ DOMAIN m = 1..Len(m)
          /\ \A k \in DOMAIN m : t[k] = m[k]
          /\ \A k \in DOMAIN <<Upper(l)>> : t[Len(m) + k] = <<Upper(l)>>[k]
        BY <1>4, Behind
    <2>2. 1 \in DOMAIN <<Upper(l)>> /\ <<Upper(l)>>[1] = Upper(l)
        OBVIOUS
    <2>3. QED
        BY <2>1, <2>2
<1> HIDE DEF t
<1>6. LabelPart(t) = Upper(l) /\ HasColon(t)
    BY <1>3, <1>5 DEF LabelPart, HasColon
<1>7. MarketPart(t) = m
    <2> DEFINE p == SubSeq(t, 1, Len(t) - 1)
    <2>1. /\ t \in Seq(Range(t)) /\ Len(t) - 1 = Len(m) /\ Len(m) \in Nat
          /\ DOMAIN t = 1..Len(t)
        BY <1>3, <1>5 DEF IsSeq
    <2>2. p = [k \in 1..Len(m) |-> t[k]]
        BY <2>1, <1>3
    <2>3. m = [k \in 1..Len(m) |-> m[k]]
        BY <1>4, SeqIsFunction
    <2> HIDE DEF p
    <2>4. p = m
        BY <1>5, <2>2, <2>3
    <2>5. QED
        BY <2>4 DEF p, MarketPart
<1>8. ASSUME LabelPart(t) \in Outcomes PROVE TradedAs(t)
    <2> DEFINE u == Upper(l)
    <2>0. Upper(u) = u
        BY UpperTwice
    <2>a. Upper(LabelPart(t)) = u
        BY <1>6, <2>0
    <2> HIDE DEF u
    <2>1. NamesOutcome(t)
        BY <1>1, <1>6, <1>7, <1>8, <2>a DEF NamesOutcome, u
    <2>2. SplitToken(t) = <<m, u>>
        BY <1>7, <2>1, <2>a DEF SplitToken
    <2>3. Meant(SplitToken(t)) = <<m, u>>
        BY <2>0, <2>2 DEF Meant
    <2>4. BookRoute(t) = [by |-> "market", id |-> m, outcome |-> u]
        BY <1>7, <2>1, <2>a DEF BookRoute
    <2>5. QED
        BY <2>3, <2>4 DEF TradedAs, u
<1>9. t # NoToken
    BY <1>3, <1>5 DEF NoToken
<1>10. QED
    BY <1>2, <1>6, <1>7, <1>8, <1>9 DEF t

(* Behind a last trade in a blob is a trade, and behind its side and size,   *)
(* if the server does not keep the trades of other outcomes.                 *)
TradeBehind(m, l, price, side, size) ==
    \E t \in Happened("trade") :
        /\ t.market = m /\ t.label = l /\ t.price = price
        /\ ~keeps => t.side = side /\ t.size = size

BlobSo(m, b) ==
    \A i \in DOMAIN Labels[m] :
        b.last[i] # None => TradeBehind(m, Labels[m][i], b.last[i], b.side, b.size)

SaidSo(e) ==
    e.type = "last_trade_price" =>
        \E t \in Happened("trade") :
            /\ e.token = t.market \o <<Upper(t.label)>> /\ e.price = t.price
            /\ ~keeps => e.side = Upper(t.side) /\ e.size = t.size

Tradable(e) ==
    e.type # "update" /\ LabelPart(e.token) \in Outcomes => TradedAs(e.token)

BlobsTyped ==
    /\ DOMAIN blob = Markets
    /\ \A m \in Markets :
         /\ {"price", "last", "side", "size"} \subseteq DOMAIN blob[m]
         /\ DOMAIN blob[m].price = DOMAIN Labels[m]

FrameSo(f) ==
    \E m \in Markets : \E b, stamp : f = BlobFrame(m, b, stamp) /\ BlobSo(m, b)

SoInv ==
    /\ BlobsTyped
    /\ \A m \in Markets : BlobSo(m, blob[m])
    /\ spec.kind = "market" => \A f \in Range(feed) : FrameSo(f) \/ OtherKind(f)
    /\ \A e \in Range(told) : SaidSo(e) /\ Tradable(e)

(* What is behind a trade stays behind it.                                   *)
LEMMA StaysSo ==
    ASSUME IsSeq(happened), keeps' = keeps,
           happened' = happened \/ \E event : happened' = Append(happened, event)
    PROVE  /\ \A kind : Happened(kind) \subseteq Happened(kind)'
           /\ \A m, b : BlobSo(m, b) => BlobSo(m, b)'
           /\ \A f : FrameSo(f) => FrameSo(f)'
           /\ \A e : SaidSo(e) => SaidSo(e)'
<1>1. \A i \in DOMAIN happened : i \in DOMAIN happened' /\ happened'[i] = happened[i]
    BY Added
<1>2. \A kind : Happened(kind) \subseteq Happened(kind)'
    BY <1>1 DEF Happened
<1>3. \A m, b : BlobSo(m, b) => BlobSo(m, b)'
    BY <1>2 DEF BlobSo, TradeBehind
<1>4. \A f : FrameSo(f) => FrameSo(f)'
    BY <1>3 DEF FrameSo
<1>5. \A e : SaidSo(e) => SaidSo(e)'
    BY <1>2 DEF SaidSo
<1>6. QED
    BY <1>2, <1>3, <1>4, <1>5

(* What is made of a frame that is so, is so. *)
LEMMA EntrySo ==
    ASSUME NEW m \in Markets, NEW b, BlobSo(m, b), NEW wanted,
           NEW i \in DOMAIN Labels[m], NEW e \in EntryEvents(m, b, i, wanted)
    PROVE  SaidSo(e) /\ Tradable(e)
<1> DEFINE l == Labels[m][i]
           token == MakeToken(m, l)
<1>1. l \in Range(Labels[m])
    BY DEF Range
<1>2. token = m \o <<Upper(l)>> /\ (LabelPart(token) \in Outcomes => TradedAs(token))
    BY <1>1, TokenTakenApart
<1>3. e.token = token
    BY DEF EntryEvents
<1>4. e.type = "last_trade_price" =>
        /\ b.last[i] # None /\ e.price = b.last[i]
        /\ e.side = Upper(b.side) /\ e.size = b.size
    BY DEF EntryEvents
<1> HIDE DEF l, token
<1>5. ASSUME e.type = "last_trade_price"
      PROVE  \E t \in Happened("trade") :
               /\ e.token = t.market \o <<Upper(t.label)>> /\ e.price = t.price
               /\ ~keeps => e.side = Upper(t.side) /\ e.size = t.size
    <2>1. TradeBehind(m, l, b.last[i], b.side, b.size)
        BY <1>4, <1>5 DEF BlobSo, l
    <2>2. PICK t \in Happened("trade") :
            /\ t.market = m /\ t.label = l /\ t.price = b.last[i]
            /\ ~keeps => t.side = b.side /\ t.size = b.size
        BY <2>1 DEF TradeBehind
    <2>3. QED
        BY <1>2, <1>3, <1>4, <1>5, <2>2
<1>6. QED
    BY <1>2, <1>3, <1>5 DEF SaidSo, Tradable

LEMMA EventsSo ==
    ASSUME NEW f, InFlight(f), spec.kind \in Kinds,
           spec.kind = "market" => FrameSo(f) \/ OtherKind(f),
           NEW e \in Range(Adapted(f).events)
    PROVE  SaidSo(e) /\ Tradable(e)
<1>0. Range(<<>>) = {}
    BY OneOrNone
<1>1. CASE spec.kind = "market"
    <2>1. Adapted(f) = AdaptPricesFrame(f, spec.filter.ids)
        BY <1>1 DEF Adapted
    <2>2. CASE OtherKind(f)
        <3>1. Adapted(f) = Made(<<>>)
            BY <2>1, <2>2 DEF OtherKind, AdaptPricesFrame
        <3>2. QED
            BY <1>0, <3>1 DEF Made
    <2>3. CASE FrameSo(f)
        <3>1. PICK m \in Markets :
                \E b, stamp : f = BlobFrame(m, b, stamp) /\ BlobSo(m, b)
            BY <2>3 DEF FrameSo
        <3>2. PICK b, stamp : f = BlobFrame(m, b, stamp) /\ BlobSo(m, b)
            BY <3>1
        <3>w. PICK wanted : wanted = spec.filter.ids
            OBVIOUS
        <3>3. \E i \in DOMAIN Labels[m] : e \in EntryEvents(m, b, i, wanted)
            BY <2>1, <3>2, <3>w, PricesAdapted
        <3>4. PICK i \in DOMAIN Labels[m] : e \in EntryEvents(m, b, i, wanted)
            BY <3>3
        <3>5. QED
            BY <3>2, <3>4, EntrySo
    <2>4. QED
        BY <1>1, <2>2, <2>3
<1>2. CASE spec.kind = "user"
    <2>1. Adapted(f) = AdaptExecutionFrame(f, spec.filter)
        BY <1>2 DEF Adapted
    <2>2. /\ f.type = "fill" /\ MakeToken(f.market, f.outcome) # NoToken
          /\ e \in FillEvents(f)
        BY <2>1, FillAdapted
    <2>3. FillFrame(f)
        BY <1>2, <2>2 DEF InFlight, OtherKind
    <2>4. PICK m \in Markets : m = f.market
        BY <2>3 DEF FillFrame
    <2>5. f.market = m /\ f.outcome \in Range(Labels[m]) \cup {""}
        BY <2>3, <2>4 DEF FillFrame
    <2>6. f.outcome \in Range(Labels[m])
        BY <2>2, <2>5 DEF MakeToken
    <2>7. e.type \in {"trade", "order"} /\ e.token = MakeToken(m, f.outcome)
        <3>1. PICK type \in {"trade", "order"} :
                e = [type |-> type, id |-> f.id, token |-> MakeToken(f.market, f.outcome)]
            BY <2>2 DEF FillEvents
        <3>2. QED
            BY <2>5, <3>1
    <2>8. QED
        BY <2>6, <2>7, TokenTakenApart DEF SaidSo, Tradable
<1>3. CASE spec.kind = "crypto"
    <2>1. Adapted(f) = AdaptSpotFrame(f, spec)
        BY <1>3 DEF Adapted
    <2>2. CASE OtherKind(f)
        <3>1. Adapted(f) = Made(<<>>)
            BY <2>1, <2>2 DEF OtherKind, AdaptSpotFrame
        <3>2. QED
            BY <1>0, <3>1 DEF Made
    <2>3. CASE SpotFrame(f)
        <3>1. PICK batch \in Batches : \E type : f = [type |-> type, updates |-> batch]
            BY <2>3 DEF SpotFrame
        <3>2. e.type = "update"
            BY <2>1, <3>1, SpotAdapted
        <3>3. QED
            BY <3>2 DEF SaidSo, Tradable
    <2>4. QED
        BY <1>3, <2>2, <2>3 DEF InFlight
<1>4. QED
    BY <1>1, <1>2, <1>3 DEF Kinds

LEMMA PumpSo == TypesInv /\ SoInv /\ Pump => SoInv'
<1> SUFFICES ASSUME TypesInv, SoInv, Pump PROVE SoInv'
    OBVIOUS
<1> DEFINE f == Head(feed)
<1>1. /\ feed # <<>> /\ told' = told \o Adapted(f).events /\ feed' = Tail(feed)
      /\ UNCHANGED <<keeps, spec, blob, happened>>
    BY DEF Pump
<1>2. f \in Range(feed) /\ Range(feed') \subseteq Range(feed)
    BY <1>1, Taken DEF TypesInv
<1> HIDE DEF f
<1>3. InFlight(f) /\ spec.kind \in Kinds /\ IsSeq(told) /\ IsSeq(happened)
    BY <1>2 DEF TypesInv
<1>4. IsSeq(Adapted(f).events)
    BY <1>3, Events
<1>5. \A e \in Range(Adapted(f).events) : SaidSo(e) /\ Tradable(e)
    BY <1>2, <1>3, EventsSo DEF SoInv
<1>6. Range(told') = Range(told) \cup Range(Adapted(f).events)
    BY <1>1, <1>3, <1>4, Behind
<1>7. /\ \A m, b : BlobSo(m, b) => BlobSo(m, b)'
      /\ \A g : FrameSo(g) => FrameSo(g)'
      /\ \A e : SaidSo(e) => SaidSo(e)'
    BY <1>1, <1>3, StaysSo
<1>8. \A e \in Range(told') : SaidSo(e)' /\ Tradable(e)
    BY <1>5, <1>6, <1>7 DEF SoInv
<1>9. QED
    BY <1>1, <1>2, <1>7, <1>8 DEF SoInv, BlobsTyped

(* A broadcast of a blob that is so, is so. *)
LEMMA BroadcastSo ==
    ASSUME TypesInv, SoInv, NEW m \in Markets, NEW b, NEW event,
           Happens("market", event), Broadcast(m, b), keeps' = keeps,
           BlobSo(m, b)', {"price", "last", "side", "size"} \subseteq DOMAIN b,
           DOMAIN b.price = DOMAIN Labels[m]
    PROVE  SoInv'
<1>1. /\ happened' = Append(happened, event) /\ UNCHANGED <<spec, told>>
      /\ blob' = [blob EXCEPT ![m] = b]
    BY DEF Happens, Broadcast
<1>0. PICK stamp : feed' = feed \/ feed' = Append(feed, BlobFrame(m, b, stamp))
    BY DEF Broadcast
<1>2. IsSeq(happened) /\ IsSeq(feed)
    BY DEF TypesInv
<1>3. /\ \A n, c : BlobSo(n, c) => BlobSo(n, c)'
      /\ \A g : FrameSo(g) => FrameSo(g)'
      /\ \A e : SaidSo(e) => SaidSo(e)'
    BY <1>1, <1>2, StaysSo
<1>4. /\ DOMAIN blob' = Markets /\ blob'[m] = b
      /\ \A n \in Markets : n # m => blob'[n] = blob[n]
    BY <1>1 DEF SoInv, BlobsTyped
<1>5. BlobsTyped'
    BY <1>4 DEF SoInv, BlobsTyped
<1>6. \A n \in Markets : BlobSo(n, blob[n])'
    BY <1>3, <1>4 DEF SoInv
<1>7. FrameSo(BlobFrame(m, b, stamp))'
    BY DEF FrameSo
<1>8. spec.kind = "market" => \A f \in Range(feed') : FrameSo(f)' \/ OtherKind(f)
    <2>1. CASE feed' = feed
        BY <1>3, <2>1 DEF SoInv
    <2>2. CASE feed' = Append(feed, BlobFrame(m, b, stamp))
        <3>1. Range(feed') = Range(feed) \cup {BlobFrame(m, b, stamp)}
            BY <1>2, <2>2, Added
        <3>2. QED
            BY <1>3, <1>7, <3>1 DEF SoInv
    <2>3. QED
        BY <1>0, <1>1, <2>1, <2>2
<1>9. QED
    BY <1>1, <1>3, <1>5, <1>6, <1>8 DEF SoInv

(* A move of a price leaves the trades of a blob, or clears them. *)
LEMMA PriceMovesSo == TypesInv /\ SoInv /\ PriceMoves => SoInv'
<1> SUFFICES ASSUME TypesInv, SoInv, PriceMoves PROVE SoInv'
    OBVIOUS
<1>1. PICK m \in Markets : \E value \in Values : \E i \in DOMAIN Labels[m] :
        /\ Happens("market", [kind |-> "price", market |-> m])
        /\ Broadcast(m, [blob[m] EXCEPT !.price[i] = value,
                                        !.last = IF keeps THEN @ ELSE Each(m, None)])
    BY DEF PriceMoves
<1>2. PICK value \in Values, i \in DOMAIN Labels[m] :
        /\ Happens("market", [kind |-> "price", market |-> m])
        /\ Broadcast(m, [blob[m] EXCEPT !.price[i] = value,
                                        !.last = IF keeps THEN @ ELSE Each(m, None)])
    BY <1>1
<1>b. PICK b : b = [blob[m] EXCEPT !.price[i] = value,
                                  !.last = IF keeps THEN @ ELSE Each(m, None)]
    OBVIOUS
<1>3. {"price", "last", "side", "size"} \subseteq DOMAIN blob[m]
      /\ DOMAIN blob[m].price = DOMAIN Labels[m]
    BY DEF SoInv, BlobsTyped
<1>4. /\ DOMAIN b = DOMAIN blob[m] /\ DOMAIN b.price = DOMAIN Labels[m]
      /\ b.last = (IF keeps THEN blob[m].last ELSE Each(m, None))
      /\ b.side = blob[m].side /\ b.size = blob[m].size
    BY <1>3, <1>b
<1>5. BlobSo(m, b)
    <2>1. \A k \in DOMAIN Labels[m] : Each(m, None)[k] = None
        BY DEF Each
    <2>2. BlobSo(m, blob[m])
        BY DEF SoInv
    <2>3. CASE keeps
        BY <1>4, <2>2, <2>3 DEF BlobSo
    <2>4. CASE ~keeps
        BY <1>4, <2>1, <2>4 DEF BlobSo
    <2>5. QED
        BY <2>3, <2>4
<1>6. /\ Happens("market", [kind |-> "price", market |-> m]) /\ Broadcast(m, b)
    BY <1>2, <1>b
<1>7. keeps' = keeps /\ happened' = Append(happened, [kind |-> "price", market |-> m])
    BY <1>6 DEF Happens
<1>8. BlobSo(m, b)'
    BY <1>5, <1>7, StaysSo DEF TypesInv
<1>9. QED
    BY <1>3, <1>4, <1>6, <1>7, <1>8, BroadcastSo

(* A trade is behind the last trade of its outcome, and those of the others  *)
(* stay, or are gone.                                                        *)
LEMMA TradeSo == TypesInv /\ SoInv /\ Trade => SoInv'
<1> SUFFICES ASSUME TypesInv, SoInv, Trade PROVE SoInv'
    OBVIOUS
<1> DEFINE lastOf(m, i, value) ==
               [k \in DOMAIN Labels[m] |-> IF k = i THEN value
                                          ELSE IF keeps THEN blob[m].last[k] ELSE None]
           eventOf(m, i, value, side, size) ==
               [kind |-> "trade", market |-> m, label |-> Labels[m][i],
                price |-> value, side |-> side, size |-> size]
<1>1. PICK m \in Markets : \E value, side, size : \E i \in DOMAIN Labels[m] :
        /\ Happens("market", eventOf(m, i, value, side, size))
        /\ Broadcast(m, [blob[m] EXCEPT !.last = lastOf(m, i, value), !.side = side,
                                        !.size = size])
    BY DEF Trade
<1>2. PICK value, side, size : \E i \in DOMAIN Labels[m] :
        /\ Happens("market", eventOf(m, i, value, side, size))
        /\ Broadcast(m, [blob[m] EXCEPT !.last = lastOf(m, i, value), !.side = side,
                                        !.size = size])
    BY <1>1
<1>3. PICK i \in DOMAIN Labels[m] :
        /\ Happens("market", eventOf(m, i, value, side, size))
        /\ Broadcast(m, [blob[m] EXCEPT !.last = lastOf(m, i, value), !.side = side,
                                        !.size = size])
    BY <1>2
<1>l. PICK last : last = lastOf(m, i, value)
    OBVIOUS
<1>e. PICK event : event = eventOf(m, i, value, side, size)
    OBVIOUS
<1>b. PICK b : b = [blob[m] EXCEPT !.last = last, !.side = side, !.size = size]
    OBVIOUS
<1>4. /\ {"price", "last", "side", "size"} \subseteq DOMAIN blob[m]
      /\ DOMAIN blob[m].price = DOMAIN Labels[m] /\ BlobSo(m, blob[m])
    BY DEF SoInv, BlobsTyped
<1>5. /\ Happens("market", event) /\ Broadcast(m, b)
    BY <1>3, <1>l, <1>e, <1>b
<1>6. \A k \in DOMAIN Labels[m] :
        last[k] = IF k = i THEN value ELSE IF keeps THEN blob[m].last[k] ELSE None
    BY <1>l
<1>7. /\ event.kind = "trade" /\ event.market = m /\ event.label = Labels[m][i]
      /\ event.price = value /\ event.side = side /\ event.size = size
    BY <1>e
<1> HIDE DEF lastOf, eventOf
<1>8. /\ DOMAIN b = DOMAIN blob[m] /\ b.price = blob[m].price
      /\ b.last = last /\ b.side = side /\ b.size = size
    BY <1>4, <1>b
<1>9. keeps' = keeps /\ happened' = Append(happened, event) /\ IsSeq(happened)
    BY <1>5 DEF Happens, TypesInv
<1>10. event \in Happened("trade")'
    <2>1. Len(happened) + 1 \in DOMAIN happened' /\ happened'[Len(happened) + 1] = event
        BY <1>9, Added
    <2>2. QED
        BY <1>7, <2>1 DEF Happened
<1>11. \A kind : Happened(kind) \subseteq Happened(kind)'
    BY <1>9, StaysSo
<1>12. BlobSo(m, b)'
    <2>1. SUFFICES ASSUME NEW k \in DOMAIN Labels[m], b.last[k] # None
                   PROVE  \E t \in Happened("trade")' :
                            /\ t.market = m /\ t.label = Labels[m][k] /\ t.price = b.last[k]
                            /\ ~keeps => t.side = b.side /\ t.size = b.size
        BY <1>9 DEF BlobSo, TradeBehind
    <2>2. CASE k = i
        BY <1>6, <1>7, <1>8, <1>10, <2>2
    <2>3. CASE k # i
        <3>1. keeps /\ b.last[k] = blob[m].last[k]
            BY <1>6, <1>8, <2>1, <2>3
        <3>2. \E t \in Happened("trade") :
                t.market = m /\ t.label = Labels[m][k] /\ t.price = b.last[k]
            BY <1>4, <2>1, <3>1 DEF BlobSo, TradeBehind
        <3>3. QED
            BY <1>11, <3>1, <3>2
    <2>4. QED
        BY <2>2, <2>3
<1>13. QED
    BY <1>4, <1>5, <1>8, <1>9, <1>12, BroadcastSo

(* What is told is so, in every state. *)
THEOREM SoTheorem == Spec => []SoInv
<1>0. Range(<<>>) = {}
    BY OneOrNone
<1>1. Init => SoInv
    <2> SUFFICES ASSUME Init PROVE SoInv
        OBVIOUS
    <2>1. PICK value : blob = [m \in Markets |->
                [price |-> Each(m, value), last |-> Each(m, None), side |-> None, size |-> 0]]
        BY DEF Init
    <2>2. feed = <<>> /\ told = <<>>
        BY DEF Init
    <2>3. BlobsTyped
        BY <2>1 DEF BlobsTyped, Each
    <2>4. \A m \in Markets : BlobSo(m, blob[m])
        BY <2>1 DEF BlobSo, Each
    <2>5. QED
        BY <1>0, <2>2, <2>3, <2>4 DEF SoInv
<1>2. TypesInv /\ SoInv /\ [Next]_vars => SoInv'
    <2> SUFFICES ASSUME TypesInv, SoInv, [Next]_vars PROVE SoInv'
        OBVIOUS
    <2>0. IsSeq(happened)
        BY DEF TypesInv
    <2>1. ASSUME UNCHANGED <<keeps, blob, told>>,
                 happened' = happened \/ \E event : happened' = Append(happened, event),
                 \/ Range(feed') = {}
                 \/ spec' = spec /\ feed' = feed
                 \/ spec' = spec /\ spec.kind # "market"
                 \/ spec' = spec /\ \E f : feed' = Append(feed, f) /\ OtherKind(f)
          PROVE  SoInv'
        <3>1. /\ \A m, b : BlobSo(m, b) => BlobSo(m, b)'
              /\ \A g : FrameSo(g) => FrameSo(g)'
              /\ \A e : SaidSo(e) => SaidSo(e)'
            BY <2>0, <2>1, StaysSo
        <3>2. spec'.kind = "market" =>
                \A f \in Range(feed') : FrameSo(f)' \/ OtherKind(f)
            <4>1. CASE \E f : feed' = Append(feed, f) /\ OtherKind(f) /\ spec' = spec
                BY <3>1, <4>1, Added DEF SoInv, TypesInv
            <4>2. CASE spec' = spec /\ feed' = feed
                BY <3>1, <4>2 DEF SoInv
            <4>3. QED
                BY <2>1, <4>1, <4>2
        <3>3. QED
            BY <2>1, <3>1, <3>2 DEF SoInv, BlobsTyped
    <2>2. CASE Subscribe
        <3>1. feed = <<>>
            BY <2>2 DEF Subscribe, TypesInv
        <3>2. QED
            BY <1>0, <2>1, <2>2, <3>1 DEF Subscribe
    <2>3. CASE Fill
        BY <2>1, <2>3 DEF Fill, Happens
    <2>4. CASE Tick
        BY <2>1, <2>4 DEF Tick, Happens
    <2>5. CASE OtherFrame
        BY <2>1, <2>5 DEF OtherFrame, Happens, OtherKind
    <2>6. CASE Drop
        BY <1>0, <2>1, <2>6 DEF Drop
    <2>7. CASE Done \/ UNCHANGED vars
        BY <2>1, <2>7 DEF Done, vars
    <2>8. QED
        BY <2>2, <2>3, <2>4, <2>5, <2>6, <2>7, PumpSo, PriceMovesSo, TradeSo DEF Next
<1>3. QED
    BY <1>1, <1>2, TypesTheorem, PTL DEF Spec

(* An event is of a trade that took place, at that price and, if the server  *)
(* does not keep trades, with that side and size; and its token is one that  *)
(* an order or a book read takes to an outcome the server has.               *)
THEOREM ToldIsSo == Spec => []WhatIsToldIsSo
<1>1. SoInv => WhatIsToldIsSo
    <2> SUFFICES ASSUME SoInv PROVE WhatIsToldIsSo
        OBVIOUS
    <2>1. \A i \in DOMAIN told : SaidSo(told[i]) /\ Tradable(told[i])
        BY DEF SoInv, Range
    <2>2. QED
        BY <2>1 DEF WhatIsToldIsSo, TradesToldTookPlace, TokensToldCanBeTraded,
            SaidSo, Tradable, TradedAs
<1>2. QED
    BY <1>1, SoTheorem, PTL
-----------------------------------------------------------------------------
(* Prices are current. *)

TokenOf(m, i) == m \o <<Upper(Labels[m][i])>>

(* A token is of one outcome, and of a market that was asked for.            *)
LEMMA TokensDiffer ==
    ASSUME NEW m \in Markets, NEW i \in DOMAIN Labels[m]
    PROVE  /\ TokenOf(m, i) = MakeToken(m, Labels[m][i]) /\ TokenOf(m, i) # NoToken
           /\ \A n \in Markets : \A j \in DOMAIN Labels[n] :
                TokenOf(m, i) = TokenOf(n, j) => m = n /\ i = j
           /\ \A ids : TokenOf(m, i) \in ids => m \in ConditionIds(ids)
<1>1. \A n \in Markets : \A j \in DOMAIN Labels[n] :
        /\ TokenOf(n, j) = MakeToken(n, Labels[n][j]) /\ TokenOf(n, j) # NoToken
        /\ LabelPart(TokenOf(n, j)) = Upper(Labels[n][j])
        /\ MarketPart(TokenOf(n, j)) = n /\ HasColon(TokenOf(n, j))
    <2>1. TAKE n \in Markets
    <2>2. TAKE j \in DOMAIN Labels[n]
    <2>3. Labels[n][j] \in Range(Labels[n])
        BY DEF Range
    <2>4. QED
        BY <2>3, TokenTakenApart DEF TokenOf
<1>2. ASSUME NEW n \in Markets, NEW j \in DOMAIN Labels[n], TokenOf(m, i) = TokenOf(n, j)
      PROVE  m = n /\ i = j
    <2>1. m = n
        BY <1>1, <1>2
    <2>2. Upper(Labels[m][i]) = Upper(Labels[m][j])
        BY <1>1, <1>2, <2>1
    <2>3. QED
        BY <2>1, <2>2, LabelsAssumption
<1>3. ASSUME NEW ids, TokenOf(m, i) \in ids PROVE m \in ConditionIds(ids)
    <2>1. SplitConditionId(TokenOf(m, i)) = m
        BY <1>1, LabelsAssumption DEF SplitConditionId
    <2>2. QED
        BY <1>3, <2>1 DEF ConditionIds
<1>4. QED
    BY <1>1, <1>2, <1>3

IsOf(f, m) == f.type = "price" /\ f.market = m

Says(f, m) ==
    \A i \in DOMAIN Labels[m] : f.outcomes[i].price = blob[m].price[i]

ToldCurrent(m) ==
    \A i \in DOMAIN Labels[m] :
        TokenOf(m, i) \in spec.filter.ids /\ blob[m].price[i] # None =>
            /\ Told("price_change", TokenOf(m, i)) # {}
            /\ told[Max(Told("price_change", TokenOf(m, i)))].price = blob[m].price[i]

(* The last frame of a market that is in flight says its present prices; if   *)
(* none is and none was lost, they have been told.                           *)
FlightCurrent(m) ==
    \A k \in DOMAIN feed : IsOf(feed[k], m) =>
        /\ Admits(source.filter, m)
        /\ Says(feed[k], m) \/ \E j \in DOMAIN feed : j > k /\ IsOf(feed[j], m)

Moved(m) == \E e \in Happened("price") : e.market = m
Landed(m) == m \notin missed.markets /\ \A k \in DOMAIN feed : ~IsOf(feed[k], m)

CurrentInv ==
    /\ \A e \in Happened("price") : e.market \in Markets
    /\ (spec.kind = "market" /\ status = "open") =>
         /\ source.filter = Only(ConditionIds(spec.filter.ids))
         /\ \A m \in Markets :
              /\ FlightCurrent(m)
              /\ (Moved(m) /\ Landed(m)) => ToldCurrent(m)

(* The events of a sequence that are of a type and a token.                  *)
Those(s, type, token) == {k \in DOMAIN s : s[k].type = type /\ s[k].token = token}

(* With events behind a sequence, what is last of a token is what it was if  *)
(* none of its events is among the new ones, and is new otherwise.           *)
OldOnesLast(s, all, type, token) ==
    /\ Those(all, type, token) = Those(s, type, token)
    /\ \A k \in Those(s, type, token) : all[k] = s[k]

NewOneLast(all, events, type, token) ==
    /\ Those(all, type, token) # {}
    /\ \E e \in Range(events) :
         /\ e.type = type /\ e.token = token
         /\ all[Max(Those(all, type, token))] = e

LEMMA MoreIsTold ==
    ASSUME NEW s, NEW events, IsSeq(s), IsSeq(events), NEW all, all = s \o events,
           NEW type, NEW token
    PROVE  /\ (\A e \in Range(events) : ~(e.type = type /\ e.token = token)) =>
                OldOnesLast(s, all, type, token)
           /\ (\E e \in Range(events) : e.type = type /\ e.token = token) =>
                NewOneLast(all, events, type, token)
<1>1. /\ Len(s) \in Nat /\ Len(events) \in Nat
      /\ DOMAIN s = 1..Len(s) /\ DOMAIN events = 1..Len(events)
      /\ DOMAIN all = 1..(Len(s) + Len(events))
      /\ \A k \in 1..Len(s) : all[k] = s[k]
      /\ \A k \in 1..Len(events) : all[Len(s) + k] = events[k]
    BY Behind
<1> DEFINE T == Those(all, type, token)
<1>2. T = {k \in 1..(Len(s) + Len(events)) :
             all[k].type = type /\ all[k].token = token}
    BY <1>1 DEF Those
<1>3. Those(s, type, token) = {k \in 1..Len(s) : s[k].type = type /\ s[k].token = token}
    BY <1>1 DEF Those
<1> HIDE DEF T
<1>4. ASSUME NEW k \in 1..(Len(s) + Len(events)), k > Len(s)
      PROVE  all[k] \in Range(events)
    <2>1. k - Len(s) \in 1..Len(events) /\ Len(s) + (k - Len(s)) = k
        BY <1>1, <1>4
    <2>2. all[k] = events[k - Len(s)]
        BY <1>1, <2>1
    <2>3. QED
        BY <1>1, <2>1, <2>2 DEF Range
<1>5. ASSUME \A e \in Range(events) : ~(e.type = type /\ e.token = token)
      PROVE  OldOnesLast(s, all, type, token)
    <2>1. \A k \in T : k \in 1..Len(s)
        BY <1>1, <1>2, <1>4, <1>5
    <2>2. 1..Len(s) \subseteq 1..(Len(s) + Len(events))
        BY <1>1
    <2>3. T = Those(s, type, token) /\ \A k \in Those(s, type, token) : all[k] = s[k]
        BY <1>1, <1>2, <1>3, <2>1, <2>2
    <2>4. QED
        BY <2>3 DEF OldOnesLast, T
<1>6. ASSUME NEW e \in Range(events), e.type = type, e.token = token
      PROVE  NewOneLast(all, events, type, token)
    <2>1. PICK k \in 1..Len(events) : e = events[k]
        BY <1>1, <1>6 DEF Range
    <2>2. /\ Len(s) + k \in 1..(Len(s) + Len(events)) /\ Len(s) + k > Len(s)
          /\ all[Len(s) + k] = e
        BY <1>1, <2>1
    <2>3. Len(s) + k \in T
        BY <1>2, <1>6, <2>2
    <2>4. T \in SUBSET (0..(Len(s) + Len(events))) /\ Len(s) + Len(events) \in Nat
        BY <1>1, <1>2
    <2>5. Max(T) \in T /\ \A x \in T : x <= Max(T)
        BY <2>3, <2>4, Greatest
    <2>b. PICK b : b = Max(T)
        OBVIOUS
    <2>6. b \in 1..(Len(s) + Len(events)) /\ Len(s) + k <= b
          /\ all[b].type = type /\ all[b].token = token
        BY <1>2, <2>3, <2>5, <2>b
    <2>7. b > Len(s)
        BY <1>1, <2>1, <2>6
    <2>8. all[b] \in Range(events)
        BY <1>4, <2>6, <2>7
    <2>9. QED
        BY <2>3, <2>6, <2>8, <2>b DEF NewOneLast, T
<1>7. QED
    BY <1>5, <1>6

(* The events of an outcome of a frame carry its token and tell its price,   *)
(* which is among them if it is asked for and there is one.                  *)
LEMMA EntryTells ==
    ASSUME NEW m \in Markets, NEW b, NEW i \in DOMAIN Labels[m], NEW wanted,
           NEW e \in EntryEvents(m, b, i, wanted)
    PROVE  e.token = TokenOf(m, i) /\ (e.type = "price_change" => e.price = b.price[i])
<1>1. PICK token : token = TokenOf(m, i) /\ token = MakeToken(m, Labels[m][i])
    BY TokensDiffer
<1>2. e.token = token /\ (e.type = "price_change" => e.price = b.price[i])
    BY <1>1 DEF EntryEvents
<1>3. QED
    BY <1>1, <1>2

LEMMA EntryIsTold ==
    ASSUME NEW m \in Markets, NEW b, NEW i \in DOMAIN Labels[m], NEW wanted,
           TokenOf(m, i) \in wanted, b.price[i] # None
    PROVE  [type |-> "price_change", token |-> TokenOf(m, i), price |-> b.price[i]]
               \in EntryEvents(m, b, i, wanted)
<1>1. PICK token : token = TokenOf(m, i) /\ token = MakeToken(m, Labels[m][i])
                   /\ token # NoToken
    BY TokensDiffer
<1>2. [type |-> "price_change", token |-> token, price |-> b.price[i]]
          \in EntryEvents(m, b, i, wanted)
    BY <1>1 DEF EntryEvents
<1>3. QED
    BY <1>1, <1>2

(* What a frame tells of a market: nothing, if it is of another, and else     *)
(* the price of every outcome that is asked for and has one.                 *)
LEMMA FrameTells ==
    ASSUME NEW f, FrameSo(f) \/ OtherKind(f), spec.kind = "market",
           Adapted(f).ok, NEW m \in Markets, NEW i \in DOMAIN Labels[m]
    PROVE  /\ ~IsOf(f, m) =>
                \A e \in Range(Adapted(f).events) : e.token # TokenOf(m, i)
           /\ (IsOf(f, m) /\ Says(f, m)) =>
                /\ (TokenOf(m, i) \in spec.filter.ids /\ blob[m].price[i] # None) =>
                     \E e \in Range(Adapted(f).events) :
                        e.type = "price_change" /\ e.token = TokenOf(m, i)
                /\ \A e \in Range(Adapted(f).events) :
                     (e.type = "price_change" /\ e.token = TokenOf(m, i)) =>
                        e.price = blob[m].price[i]
<1>1. Adapted(f) = AdaptPricesFrame(f, spec.filter.ids)
    BY DEF Adapted
<1>2. CASE OtherKind(f)
    <2>1. Adapted(f) = Made(<<>>) /\ ~IsOf(f, m)
        BY <1>1, <1>2 DEF OtherKind, AdaptPricesFrame, IsOf
    <2>2. Range(Adapted(f).events) = {}
        BY <2>1, OneOrNone DEF Made
    <2>3. QED
        BY <2>1, <2>2
<1>3. CASE FrameSo(f)
    <2>1. PICK n \in Markets : \E b, stamp : f = BlobFrame(n, b, stamp)
        BY <1>3 DEF FrameSo
    <2>2. PICK b, stamp : f = BlobFrame(n, b, stamp)
        BY <2>1
    <2>3. f.market = n /\ \A k \in DOMAIN Labels[n] : f.outcomes[k].price = b.price[k]
        BY <2>2 DEF BlobFrame
    <2>w. PICK wanted : wanted = spec.filter.ids
        OBVIOUS
    <2>4. \A e : e \in Range(Adapted(f).events) <=>
                 \E k \in DOMAIN Labels[n] : e \in EntryEvents(n, b, k, wanted)
        BY <1>1, <2>2, <2>w, PricesAdapted
    <2>5. \A e \in Range(Adapted(f).events) : \E k \in DOMAIN Labels[n] :
            e.token = TokenOf(n, k) /\ (e.type = "price_change" => e.price = b.price[k])
        <3>1. TAKE e \in Range(Adapted(f).events)
        <3>2. PICK k \in DOMAIN Labels[n] : e \in EntryEvents(n, b, k, wanted)
            BY <2>4
        <3>3. e.token = TokenOf(n, k) /\ (e.type = "price_change" => e.price = b.price[k])
            BY <3>2, EntryTells
        <3>4. QED
            BY <3>3
    <2>6. IsOf(f, m) => m = n
        BY <2>3 DEF IsOf
    <2>7. f.type = "price"
        BY <2>2 DEF BlobFrame
    <2>8. ASSUME m # n
          PROVE  \A e \in Range(Adapted(f).events) : e.token # TokenOf(m, i)
        BY <2>5, <2>8, TokensDiffer
    <2>9. ASSUME m = n, Says(f, m)
          PROVE  /\ (TokenOf(m, i) \in spec.filter.ids /\ blob[m].price[i] # None) =>
                      \E e \in Range(Adapted(f).events) :
                         e.type = "price_change" /\ e.token = TokenOf(m, i)
                 /\ \A e \in Range(Adapted(f).events) :
                      (e.type = "price_change" /\ e.token = TokenOf(m, i)) =>
                         e.price = blob[m].price[i]
        <3>1. \A k \in DOMAIN Labels[m] : b.price[k] = blob[m].price[k]
            BY <2>3, <2>9 DEF Says
        <3>2. ASSUME NEW e \in Range(Adapted(f).events), e.type = "price_change",
                     e.token = TokenOf(m, i)
              PROVE  e.price = blob[m].price[i]
            <4>1. PICK k \in DOMAIN Labels[m] :
                    e.token = TokenOf(m, k) /\ e.price = b.price[k]
                BY <2>5, <2>9, <3>2
            <4>2. TokenOf(m, i) = TokenOf(m, k)
                BY <3>2, <4>1
            <4>3. k = i
                BY <4>2, TokensDiffer
            <4>4. QED
                BY <3>1, <4>1, <4>3
        <3>3. ASSUME TokenOf(m, i) \in spec.filter.ids, blob[m].price[i] # None
              PROVE  \E e \in Range(Adapted(f).events) :
                        e.type = "price_change" /\ e.token = TokenOf(m, i)
            <4>1. [type |-> "price_change", token |-> TokenOf(m, i), price |-> b.price[i]]
                     \in EntryEvents(m, b, i, wanted)
                BY <2>w, <3>1, <3>3, EntryIsTold
            <4>2. QED
                BY <2>4, <2>9, <4>1
        <3>4. QED
            BY <3>2, <3>3
    <2>10. QED
        BY <2>6, <2>7, <2>8, <2>9, <2>3 DEF IsOf
<1>4. QED
    BY <1>2, <1>3

(* The pump tells of the market of its frame what is last, and leaves what   *)
(* it has told of the others.                                                *)
LEMMA PumpCurrent == TypesInv /\ SoInv /\ CurrentInv /\ Pump => CurrentInv'
<1> SUFFICES ASSUME TypesInv, SoInv, CurrentInv, Pump PROVE CurrentInv'
    OBVIOUS
<1>f. PICK f : f = Head(feed)
    OBVIOUS
<1>1. /\ status = "open" /\ feed # <<>> /\ feed' = Tail(feed)
      /\ told' = told \o Adapted(f).events
      /\ status' = "open" => Adapted(f).ok
      /\ UNCHANGED <<spec, source, blob, happened, missed>>
    BY <1>f DEF Pump
<1>2. IsSeq(feed) /\ IsSeq(told) /\ spec.kind \in Kinds
    BY DEF TypesInv
<1>3. /\ f \in Range(feed) /\ f = feed[1] /\ Len(feed) \in Nat \ {0}
      /\ DOMAIN feed = 1..Len(feed)
      /\ IsSeq(feed') /\ Len(feed') = Len(feed) - 1
      /\ \A k \in 1..(Len(feed) - 1) : feed'[k] = feed[k + 1]
    BY <1>f, <1>1, <1>2, Taken
<1>4. DOMAIN feed' = 1..(Len(feed) - 1)
    BY <1>3 DEF IsSeq
<1>5. Happened("price")' = Happened("price")
    BY <1>1 DEF Happened
<1>6. SUFFICES ASSUME spec.kind = "market", Adapted(f).ok, NEW m \in Markets
               PROVE  FlightCurrent(m)' /\ (Moved(m)' /\ Landed(m)' => ToldCurrent(m)')
    BY <1>1, <1>5 DEF CurrentInv
<1>7. FlightCurrent(m) /\ (Moved(m) /\ Landed(m) => ToldCurrent(m))
    BY <1>1, <1>6, Zenon DEF CurrentInv
<1>8. FlightCurrent(m)'
    <2>1. SUFFICES ASSUME NEW k \in DOMAIN feed', IsOf(feed'[k], m)
                   PROVE  /\ Admits(source.filter, m)
                          /\ \/ Says(feed'[k], m)
                             \/ \E j \in DOMAIN feed' : j > k /\ IsOf(feed'[j], m)
        BY <1>1 DEF FlightCurrent, Says
    <2>2. k \in Nat /\ k + 1 \in DOMAIN feed /\ feed'[k] = feed[k + 1]
        BY <1>3, <1>4
    <2>3. /\ Admits(source.filter, m)
          /\ \/ Says(feed[k + 1], m)
             \/ \E j \in DOMAIN feed : j > k + 1 /\ IsOf(feed[j], m)
        BY <1>7, <2>1, <2>2 DEF FlightCurrent
    <2>4. ASSUME NEW j \in DOMAIN feed, j > k + 1, IsOf(feed[j], m)
          PROVE  \E l \in DOMAIN feed' : l > k /\ IsOf(feed'[l], m)
        <3>1. j - 1 \in 1..(Len(feed) - 1) /\ j - 1 > k /\ (j - 1) + 1 = j
            BY <1>3, <2>2, <2>4
        <3>2. feed'[j - 1] = feed[j]
            BY <1>3, <3>1
        <3>3. QED
            BY <1>4, <2>4, <3>1, <3>2
    <2>5. QED
        BY <2>2, <2>3, <2>4
<1>9. ASSUME Moved(m)', Landed(m)' PROVE ToldCurrent(m)'
    <2>1. Moved(m)
        BY <1>5, <1>9 DEF Moved
    <2>2. m \notin missed.markets /\ \A k \in DOMAIN feed' : ~IsOf(feed'[k], m)
        BY <1>1, <1>9 DEF Landed
    <2>3. \A k \in DOMAIN feed : k > 1 => ~IsOf(feed[k], m)
        <3>1. SUFFICES ASSUME NEW k \in DOMAIN feed, k > 1 PROVE ~IsOf(feed[k], m)
            OBVIOUS
        <3>2. k - 1 \in 1..(Len(feed) - 1) /\ (k - 1) + 1 = k
            BY <1>3, <3>1
        <3>3. feed'[k - 1] = feed[k]
            BY <1>3, <3>2
        <3>4. QED
            BY <1>4, <2>2, <3>2, <3>3
    <2>4. SUFFICES ASSUME NEW i \in DOMAIN Labels[m], NEW token, token = TokenOf(m, i),
                          token \in spec.filter.ids, blob[m].price[i] # None
                   PROVE  /\ Those(told', "price_change", token) # {}
                          /\ told'[Max(Those(told', "price_change", token))].price
                                = blob[m].price[i]
        <3>1. spec' = spec /\ blob' = blob
            BY <1>1
        <3>2. QED
            BY <3>1 DEF ToldCurrent, TokenOf, Told, Those
    <2>5. PICK events : events = Adapted(f).events
        OBVIOUS
    <2>6. IsSeq(events) /\ told' = told \o events
        <3>1. InFlight(f)
            BY <1>3 DEF TypesInv
        <3>2. QED
            BY <1>1, <1>2, <2>5, <3>1, Events
    <2>7. FrameSo(f) \/ OtherKind(f)
        BY <1>3, <1>6 DEF SoInv
    <2>8. CASE IsOf(f, m)
        <3>1. Says(f, m)
            <4>1. 1 \in DOMAIN feed /\ IsOf(feed[1], m)
                BY <1>3, <2>8
            <4>2. Says(feed[1], m)
                BY <1>7, <2>3, <4>1 DEF FlightCurrent
            <4>3. QED
                BY <1>3, <4>2
        <3>2. /\ \E e \in Range(events) : e.type = "price_change" /\ e.token = token
              /\ \A e \in Range(events) : (e.type = "price_change" /\ e.token = token) =>
                    e.price = blob[m].price[i]
            BY <1>6, <2>4, <2>5, <2>7, <2>8, <3>1, FrameTells
        <3>3. NewOneLast(told', events, "price_change", token)
            BY <1>2, <2>6, <3>2, MoreIsTold
        <3>4. QED
            BY <3>2, <3>3 DEF NewOneLast
    <2>9. CASE ~IsOf(f, m)
        <3>1. Landed(m)
            <4>1. \A k \in DOMAIN feed : k = 1 \/ k > 1
                BY <1>3
            <4>2. QED
                BY <1>3, <2>2, <2>3, <2>9, <4>1 DEF Landed
        <3>2. PICK T : T = Those(told, "price_change", token)
            OBVIOUS
        <3>3. T # {} /\ told[Max(T)].price = blob[m].price[i]
            BY <1>7, <2>1, <2>4, <3>1, <3>2 DEF ToldCurrent, Told, Those
        <3>4. Max(T) \in T
            <4>1. Len(told) \in Nat /\ T \in SUBSET (0..Len(told))
                BY <1>2, <3>2 DEF Those, IsSeq
            <4>2. QED
                BY <3>3, <4>1, Greatest
        <3>5. \A e \in Range(events) : ~(e.type = "price_change" /\ e.token = token)
            BY <1>6, <2>4, <2>5, <2>7, <2>9, FrameTells
        <3>6. OldOnesLast(told, told', "price_change", token)
            BY <1>2, <2>6, <3>5, MoreIsTold
        <3>7. QED
            BY <3>2, <3>3, <3>4, <3>6 DEF OldOnesLast
    <2>10. QED
        BY <2>8, <2>9
<1>10. QED
    BY <1>8, <1>9
(* What is added at the end of what happened is one event more.              *)
LEMMA HappenedGrows ==
    ASSUME IsSeq(happened), NEW event, happened' = Append(happened, event), NEW kind
    PROVE  \A e \in Happened(kind)' : e \in Happened(kind) \/ (e = event /\ e.kind = kind)
<1>1. /\ Len(happened) \in Nat /\ DOMAIN happened = 1..Len(happened)
      /\ DOMAIN happened' = 1..(Len(happened) + 1)
      /\ \A k \in DOMAIN happened : happened'[k] = happened[k]
      /\ happened'[Len(happened) + 1] = event
    BY Added
<1>2. SUFFICES ASSUME NEW j \in DOMAIN happened', happened'[j].kind = kind
               PROVE  \/ happened'[j] \in Happened(kind)
                      \/ happened'[j] = event
    BY DEF Happened
<1>3. CASE j \in DOMAIN happened
    <2>1. happened[j].kind = kind /\ happened'[j] = happened[j]
        BY <1>1, <1>2, <1>3
    <2>2. happened[j] \in Happened(kind)
        BY <1>3, <2>1 DEF Happened
    <2>3. QED
        BY <2>1, <2>2
<1>4. CASE j \notin DOMAIN happened
    BY <1>1, <1>2, <1>4
<1>5. QED
    BY <1>3, <1>4

(* A market stays current when no frame of it is sent or taken, its prices    *)
(* stay, and it is not found to have moved or made up for.                   *)
Current(m) == FlightCurrent(m) /\ (Moved(m) /\ Landed(m) => ToldCurrent(m))

LEMMA StaysCurrent ==
    ASSUME NEW m, Current(m), IsSeq(feed), blob'[m] = blob[m], UNCHANGED <<spec, source, told>>,
           feed' = feed \/ \E g : feed' = Append(feed, g) /\ ~IsOf(g, m),
           Moved(m)' => Moved(m),
           m \in missed.markets => m \in missed'.markets
    PROVE  Current(m)'
<1>1. \A k \in DOMAIN feed : k \in DOMAIN feed' /\ feed'[k] = feed[k]
    BY Added
<1>2. \A k \in DOMAIN feed' : IsOf(feed'[k], m) => k \in DOMAIN feed
    <2>1. CASE feed' = feed
        BY <2>1
    <2>2. CASE \E g : feed' = Append(feed, g) /\ ~IsOf(g, m)
        <3>1. PICK g : feed' = Append(feed, g) /\ ~IsOf(g, m)
            BY <2>2
        <3>2. /\ DOMAIN feed = 1..Len(feed) /\ DOMAIN feed' = 1..(Len(feed) + 1)
              /\ Len(feed) \in Nat /\ feed'[Len(feed) + 1] = g
            BY <3>1, Added
        <3>3. ~IsOf(feed'[Len(feed) + 1], m)
            BY <3>1, <3>2
        <3>4. ASSUME NEW k \in DOMAIN feed', IsOf(feed'[k], m) PROVE k \in DOMAIN feed
            <4>1. k # Len(feed) + 1
                BY <3>3, <3>4
            <4>2. QED
                BY <3>2, <4>1
        <3>5. QED
            BY <3>4
    <2>3. QED
        BY <2>1, <2>2
<1>3. FlightCurrent(m)'
    <2>1. SUFFICES ASSUME NEW k \in DOMAIN feed', IsOf(feed'[k], m)
                   PROVE  /\ Admits(source.filter, m)
                          /\ \/ Says(feed'[k], m)
                             \/ \E j \in DOMAIN feed' : j > k /\ IsOf(feed'[j], m)
        BY DEF FlightCurrent, Says
    <2>2. k \in DOMAIN feed /\ feed'[k] = feed[k]
        BY <1>1, <1>2, <2>1
    <2>3. /\ Admits(source.filter, m)
          /\ \/ Says(feed[k], m)
             \/ \E j \in DOMAIN feed : j > k /\ IsOf(feed[j], m)
        BY <2>1, <2>2 DEF Current, FlightCurrent
    <2>4. QED
        BY <1>1, <2>2, <2>3
<1>4. Landed(m)' => Landed(m)
    BY <1>1 DEF Landed
<1>5. ToldCurrent(m) => ToldCurrent(m)'
    BY DEF ToldCurrent, TokenOf, Told
<1>6. QED
    BY <1>3, <1>4, <1>5 DEF Current

(* What a broadcast sends is the present blob of its market, to one who has   *)
(* asked for a token of it.                                                  *)
LEMMA BroadcastCurrent ==
    ASSUME TypesInv, SoInv, CurrentInv, NEW m \in Markets, NEW b, NEW event,
           Happens("market", event), Broadcast(m, b),
           event.kind = "price" => event.market = m
    PROVE  CurrentInv'
<1>1. /\ status = "open" /\ spec.kind = "market" /\ UNCHANGED <<spec, source, told>>
      /\ happened' = Append(happened, event) /\ blob' = [blob EXCEPT ![m] = b]
      /\ missed' = [missed EXCEPT !.markets = @ \ {m}]
    BY DEF Happens, Broadcast
<1>0. PICK stamp :
        feed' = IF Admits(source.filter, m) THEN Append(feed, BlobFrame(m, b, stamp))
                ELSE feed
    BY DEF Broadcast
<1>2. IsSeq(feed) /\ IsSeq(happened)
    BY DEF TypesInv
<1>3. blob'[m] = b /\ \A n \in Markets : n # m => blob'[n] = blob[n]
    BY <1>1 DEF SoInv, BlobsTyped
<1>4. \A e \in Happened("price")' :
        e \in Happened("price") \/ (e = event /\ e.kind = "price")
    BY <1>1, <1>2, HappenedGrows
<1>5. \A e \in Happened("price")' : e.market \in Markets
    BY <1>4 DEF CurrentInv
<1>6. \A n \in Markets : n # m => (n \in missed.markets => n \in missed'.markets)
    <2>1. CASE {"markets"} \subseteq DOMAIN missed
        BY <1>1, <2>1
    <2>2. QED
        BY <1>1, <2>1
<1>7. /\ source.filter = Only(ConditionIds(spec.filter.ids))
      /\ \A n \in Markets : Current(n)
    BY <1>1 DEF CurrentInv, Current
<1>8. IsOf(BlobFrame(m, b, stamp), m) /\ \A n : n # m => ~IsOf(BlobFrame(m, b, stamp), n)
    BY DEF IsOf, BlobFrame
<1>9. ASSUME NEW n \in Markets, n # m PROVE Current(n)'
    <2>1. Moved(n)' => Moved(n)
        BY <1>4, <1>9 DEF Moved
    <2>2. feed' = feed \/ \E g : feed' = Append(feed, g) /\ ~IsOf(g, n)
        BY <1>0, <1>8, <1>9
    <2>3. QED
        BY <1>1, <1>2, <1>3, <1>6, <1>7, <1>9, <2>1, <2>2, StaysCurrent
<1>10. ASSUME Admits(source.filter, m) PROVE Current(m)'
    <2>f. PICK f : f = BlobFrame(m, b, stamp)
        OBVIOUS
    <2>1. /\ DOMAIN feed' = 1..(Len(feed) + 1) /\ Len(feed) \in Nat
          /\ feed'[Len(feed) + 1] = f
        BY <1>0, <1>2, <1>10, <2>f, Added
    <2>2. IsOf(f, m) /\ \A i \in DOMAIN Labels[m] : f.outcomes[i].price = b.price[i]
        BY <1>8, <2>f DEF BlobFrame
    <2>3. FlightCurrent(m)'
        <3>1. SUFFICES ASSUME NEW k \in DOMAIN feed', IsOf(feed'[k], m)
                       PROVE  \/ \A i \in DOMAIN Labels[m] :
                                    feed'[k].outcomes[i].price = b.price[i]
                              \/ \E j \in DOMAIN feed' : j > k /\ IsOf(feed'[j], m)
            BY <1>1, <1>3, <1>10 DEF FlightCurrent, Says
        <3>2. CASE k = Len(feed) + 1
            BY <2>1, <2>2, <3>2
        <3>3. CASE k # Len(feed) + 1
            <4>1. Len(feed) + 1 > k /\ Len(feed) + 1 \in DOMAIN feed'
                BY <2>1, <3>1, <3>3
            <4>2. QED
                BY <2>1, <2>2, <4>1
        <3>4. QED
            BY <3>2, <3>3
    <2>4. ~Landed(m)'
        <3>1. Len(feed) + 1 \in DOMAIN feed' /\ IsOf(feed'[Len(feed) + 1], m)
            BY <2>1, <2>2
        <3>2. QED
            BY <3>1 DEF Landed
    <2>5. QED
        BY <2>3, <2>4, Zenon DEF Current
<1>11. ASSUME ~Admits(source.filter, m) PROVE Current(m)'
    <2>1. \A k \in DOMAIN feed : ~IsOf(feed[k], m)
        BY <1>7, <1>11 DEF Current, FlightCurrent
    <2>2. FlightCurrent(m)'
        BY <1>0, <1>1, <1>11, <2>1 DEF FlightCurrent
    <2>3. \A i \in DOMAIN Labels[m] : TokenOf(m, i) \notin spec.filter.ids
        <3>1. m \notin ConditionIds(spec.filter.ids)
            BY <1>7, <1>11 DEF Admits, Only
        <3>2. QED
            BY <3>1, TokensDiffer
    <2>4. ToldCurrent(m)'
        BY <1>1, <2>3 DEF ToldCurrent, TokenOf
    <2>5. QED
        BY <2>2, <2>4, Zenon DEF Current
<1>12. \A n \in Markets : Current(n)'
    BY <1>9, <1>10, <1>11, Zenon
<1>13. QED
    BY <1>1, <1>5, <1>7, <1>12 DEF CurrentInv, Current
(* A price moves, or a trade is made: its blob is broadcast.                 *)
LEMMA MovesCurrent ==
    TypesInv /\ SoInv /\ CurrentInv /\ (PriceMoves \/ Trade) => CurrentInv'
<1> SUFFICES ASSUME TypesInv, SoInv, CurrentInv, PriceMoves \/ Trade PROVE CurrentInv'
    OBVIOUS
<1>1. CASE PriceMoves
    <2>1. PICK m \in Markets : \E b :
            Happens("market", [kind |-> "price", market |-> m]) /\ Broadcast(m, b)
        BY <1>1 DEF PriceMoves
    <2>2. PICK b : Happens("market", [kind |-> "price", market |-> m]) /\ Broadcast(m, b)
        BY <2>1
    <2>3. QED
        BY <2>2, BroadcastCurrent
<1>2. CASE Trade
    <2>1. PICK m \in Markets : \E label, value, side, size, b :
            /\ Happens("market", [kind |-> "trade", market |-> m, label |-> label,
                                  price |-> value, side |-> side, size |-> size])
            /\ Broadcast(m, b)
        BY <1>2 DEF Trade
    <2>2. PICK event : event.kind = "trade" /\ \E b :
            Happens("market", event) /\ Broadcast(m, b)
        BY <2>1
    <2>3. PICK b : Happens("market", event) /\ Broadcast(m, b)
        BY <2>2
    <2>4. QED
        BY <2>2, <2>3, BroadcastCurrent
<1>3. QED
    BY <1>1, <1>2

(* An open stream is one of the markets asked for. *)
LEMMA SubscribeCurrent == TypesInv /\ CurrentInv /\ Subscribe => CurrentInv'
<1> SUFFICES ASSUME TypesInv, CurrentInv, Subscribe PROVE CurrentInv'
    OBVIOUS
<1>1. /\ status = "new" /\ UNCHANGED <<blob, feed, told, happened, missed>>
      /\ status' = "open" => spec' = Normalized(spec) /\ source' = Source(Normalized(spec))
    BY DEF Subscribe
<1>2. feed = <<>> /\ happened = <<>>
    BY <1>1 DEF TypesInv
<1>3. Happened("price")' = {}
    BY <1>1, <1>2 DEF Happened
<1>4. ASSUME spec'.kind = "market", status' = "open"
      PROVE  source'.filter = Only(ConditionIds(spec'.filter.ids))
    <2>1. spec' = Normalized(spec) /\ source' = Source(spec')
        BY <1>1, <1>4
    <2>2. QED
        BY <1>4, <2>1 DEF Source
<1>5. \A m \in Markets : FlightCurrent(m)' /\ ~Moved(m)'
    BY <1>1, <1>2, <1>3 DEF FlightCurrent, Moved
<1>6. QED
    BY <1>3, <1>4, <1>5, Zenon DEF CurrentInv

(* Frames of no market leave the markets as they are. *)
LEMMA OthersCurrent == TypesInv /\ CurrentInv /\ (Fill \/ Tick \/ OtherFrame) => CurrentInv'
<1> SUFFICES ASSUME TypesInv, CurrentInv, Fill \/ Tick \/ OtherFrame PROVE CurrentInv'
    OBVIOUS
<1>1. PICK event, g :
        /\ event.kind # "price" /\ happened' = Append(happened, event)
        /\ feed' = Append(feed, g) /\ (spec.kind = "market" => OtherKind(g))
        /\ UNCHANGED <<blob, missed, spec, status, source, told>>
    <2>1. CASE Fill
        BY <2>1 DEF Fill, Happens
    <2>2. CASE Tick
        BY <2>2 DEF Tick, Happens
    <2>3. CASE OtherFrame
        BY <2>3 DEF OtherFrame, Happens, OtherKind
    <2>4. QED
        BY <2>1, <2>2, <2>3
<1>2. IsSeq(feed) /\ IsSeq(happened)
    BY DEF TypesInv
<1>3. Happened("price")' \subseteq Happened("price")
    BY <1>1, <1>2, HappenedGrows
<1>4. ASSUME spec.kind = "market", status = "open", NEW m \in Markets PROVE Current(m)'
    <2>1. Current(m)
        BY <1>4, Zenon DEF CurrentInv, Current
    <2>2. Moved(m)' => Moved(m)
        BY <1>3 DEF Moved
    <2>3. ~IsOf(g, m)
        BY <1>1, <1>4 DEF OtherKind, IsOf
    <2>4. QED
        BY <1>1, <1>2, <2>1, <2>2, <2>3, StaysCurrent
<1>5. spec' = spec /\ status' = status /\ source' = source
    BY <1>1
<1>6. QED
    BY <1>3, <1>4, <1>5 DEF CurrentInv, Current

(* What a reconnection loses is remembered as lost.                          *)
LEMMA DropCurrent == TypesInv /\ CurrentInv /\ Drop => CurrentInv'
<1> SUFFICES ASSUME TypesInv, CurrentInv, Drop PROVE CurrentInv'
    OBVIOUS
<1>1. /\ feed' = <<>> /\ UNCHANGED <<spec, status, source, blob, told, happened>>
      /\ missed' = [markets |-> missed.markets
                                \cup {f.market : f \in Frames(feed, "price")},
                    fills |-> missed.fills \cup {f.id : f \in Frames(feed, "fill")}]
    BY DEF Drop
<1>2. Happened("price")' = Happened("price")
    BY <1>1 DEF Happened
<1>3. ASSUME spec.kind = "market", status = "open", NEW m \in Markets PROVE Current(m)'
    <2>1. Current(m)
        BY <1>3, Zenon DEF CurrentInv, Current
    <2>2. FlightCurrent(m)'
        BY <1>1 DEF FlightCurrent
    <2>3. Moved(m)' => Moved(m)
        BY <1>2 DEF Moved
    <2>4. Landed(m)' => Landed(m)
        <3>1. SUFFICES ASSUME Landed(m)' PROVE Landed(m)
            OBVIOUS
        <3>2. m \notin missed.markets /\ \A f \in Frames(feed, "price") : f.market # m
            BY <1>1, <3>1 DEF Landed
        <3>3. \A k \in DOMAIN feed : ~IsOf(feed[k], m)
            BY <3>2 DEF IsOf, Frames
        <3>4. QED
            BY <3>2, <3>3 DEF Landed
    <2>5. ToldCurrent(m) => ToldCurrent(m)'
        BY <1>1 DEF ToldCurrent, TokenOf, Told
    <2>6. QED
        BY <2>1, <2>2, <2>3, <2>4, <2>5, Zenon DEF Current
<1>4. spec' = spec /\ status' = status /\ source' = source
    BY <1>1
<1>5. QED
    BY <1>2, <1>3, <1>4 DEF CurrentInv, Current

(* What is in flight and what has been told is current, in every state.      *)
THEOREM CurrentTheorem == Spec => []CurrentInv
<1>1. Init => CurrentInv
    <2> SUFFICES ASSUME Init PROVE CurrentInv
        OBVIOUS
    <2>1. status = "new" /\ happened = <<>>
        BY DEF Init
    <2>2. Happened("price") = {}
        BY <2>1 DEF Happened
    <2>3. QED
        BY <2>1, <2>2 DEF CurrentInv
<1>2. TypesInv /\ SoInv /\ CurrentInv /\ [Next]_vars => CurrentInv'
    <2> SUFFICES ASSUME TypesInv, SoInv, CurrentInv, [Next]_vars PROVE CurrentInv'
        OBVIOUS
    <2>1. CASE Done \/ UNCHANGED vars
        <3>1. UNCHANGED <<spec, status, source, blob, feed, told, happened, missed>>
            BY <2>1 DEF Done, vars
        <3>2. Happened("price")' = Happened("price")
            BY <3>1 DEF Happened
        <3>3. \A m \in Markets : Moved(m)' => Moved(m)
            BY <3>2 DEF Moved
        <3>4. ASSUME spec.kind = "market", status = "open", NEW m \in Markets
              PROVE  Current(m)'
            <4>1. Current(m)
                BY <3>4, Zenon DEF CurrentInv, Current
            <4>2. IsSeq(feed)
                BY DEF TypesInv
            <4>3. QED
                BY <3>1, <3>3, <4>1, <4>2, StaysCurrent
        <3>5. spec' = spec /\ status' = status /\ source' = source
            BY <3>1
        <3>6. QED
            BY <3>2, <3>4, <3>5 DEF CurrentInv, Current
    <2>2. QED
        BY <2>1, SubscribeCurrent, PumpCurrent, MovesCurrent, OthersCurrent,
           DropCurrent DEF Next
<1>3. QED
    BY <1>1, <1>2, TypesTheorem, SoTheorem, PTL DEF Spec

(* Whatever the bot asked for by its token is told at its present price once *)
(* the feed has nothing left in flight, unless the latest frame of its market *)
(* was lost: whatever moves, trades and reconnections came in between (the    *)
(* condition ids asked for, the adapter of price frames, the pump).          *)
THEOREM PricesCurrent == Spec => []PricesAreCurrent
<1>1. CurrentInv => PricesAreCurrent
    <2> SUFFICES ASSUME CurrentInv, status = "open", spec.kind = "market", feed = <<>>,
                        NEW e \in Happened("price"), NEW i \in DOMAIN Labels[e.market],
                        e.market \notin missed.markets,
                        e.market \o <<Upper(Labels[e.market][i])>> \in spec.filter.ids,
                        blob[e.market].price[i] # None
                 PROVE  LET token == e.market \o <<Upper(Labels[e.market][i])>>
                        IN  /\ Told("price_change", token) # {}
                            /\ told[Max(Told("price_change", token))].price
                                  = blob[e.market].price[i]
        BY DEF PricesAreCurrent
    <2>1. PICK m : m = e.market
        OBVIOUS
    <2>2. m \in Markets /\ Moved(m)
        BY <2>1 DEF CurrentInv, Moved
    <2>3. Landed(m)
        BY <2>1 DEF Landed
    <2>4. ToldCurrent(m)
        BY <2>2, <2>3, Zenon DEF CurrentInv
    <2>5. QED
        BY <2>1, <2>4 DEF ToldCurrent, TokenOf
<1>2. QED
    BY <1>1, CurrentTheorem, PTL
-----------------------------------------------------------------------------
(* Feeds are told whole: a topic. *)

(* A label is of the topic of its exchange. *)
LEMMA LabelsOfTopics ==
    ASSUME NEW batch \in Batches, NEW i \in DOMAIN batch, spec.topic \in Topics
    PROVE  TopicOf(batch[i].source) = spec.topic <=> batch[i].exchange = spec.topic
<1> DEFINE u == batch[i]
<1>1. /\ u.exchange = "prices.crypto.binance" <=>
           u.source \in {"binance", "polymarket_rtds", "relay_binance"}
      /\ u.exchange = "prices.crypto.chainlink" <=>
           u.source \in {"chainlink", "chainlink_rtds"}
    BY BatchesAssumption
<1> HIDE DEF u
<1>2. spec.topic = "prices.crypto.binance" \/ spec.topic = "prices.crypto.chainlink"
    BY DEF Topics
<1>3. TopicOf(u.source) = spec.topic <=> u.exchange = spec.topic
    BY <1>1, <1>2 DEF TopicOf, None
<1>4. QED
    BY <1>3 DEF u

(* An update is told if and only if it is asked for, and an odd time tells   *)
(* nothing.                                                                  *)
UpdateEvents(u) ==
    IF AskedFor(u)
    THEN <<[type |-> "update", topic |-> spec.topic, symbol |-> u.symbol, price |-> u.price]>>
    ELSE <<>>

LEMMA UpdateIsTold ==
    ASSUME NEW batch \in Batches, NEW i \in DOMAIN batch, spec.topic \in Topics
    PROVE  /\ CryptoEventFor(batch[i], spec).ok =>
                CryptoEventFor(batch[i], spec).events = UpdateEvents(batch[i])
           /\ IsSeq(UpdateEvents(batch[i]))
<1>1. PICK u : u = batch[i]
    OBVIOUS
<1>2. TopicOf(u.source) = spec.topic <=> u.exchange = spec.topic
    BY <1>1, LabelsOfTopics
<1>3. CASE AskedFor(u)
    <2>1. PICK e : e = [type |-> "update", topic |-> spec.topic, symbol |-> u.symbol,
                        price |-> u.price]
        OBVIOUS
    <2>2. UpdateEvents(u) = <<e>>
        BY <1>3, <2>1 DEF UpdateEvents
    <2>3. \/ CryptoEventFor(u, spec) = Made(<<e>>)
          \/ CryptoEventFor(u, spec) = Unmade
        BY <1>2, <1>3, <2>1 DEF CryptoEventFor, AskedFor
    <2>4. QED
        BY <1>1, <2>2, <2>3, OneOrNone DEF Made, Unmade
<1>4. CASE ~AskedFor(u)
    <2>1. UpdateEvents(u) = <<>>
        BY <1>4 DEF UpdateEvents
    <2>2. CryptoEventFor(u, spec) = Made(<<>>)
        BY <1>2, <1>4 DEF CryptoEventFor, AskedFor
    <2>3. QED
        BY <1>1, <2>1, <2>2, OneOrNone DEF Made
<1>5. QED
    BY <1>3, <1>4

(* So does a frame: all of it, or nothing.                                   *)
LEMMA SpotIsTold ==
    ASSUME NEW f, SpotFrame(f) \/ OtherKind(f), spec.kind = "crypto",
           spec.topic \in Topics
    PROVE  /\ IsSeq(UpdatesAskedFor(f))
           /\ Adapted(f).ok => Adapted(f).events = UpdatesAskedFor(f)
           /\ ~Adapted(f).ok => Adapted(f).events = <<>>
<1>1. Adapted(f) = AdaptSpotFrame(f, spec)
    BY DEF Adapted
<1>2. CASE OtherKind(f)
    <2>1. Adapted(f) = Made(<<>>) /\ UpdatesAskedFor(f) = <<>>
        BY <1>1, <1>2 DEF OtherKind, AdaptSpotFrame, UpdatesAskedFor
    <2>2. QED
        BY <2>1, OneOrNone DEF Made
<1>3. CASE SpotFrame(f)
    <2>0. PICK batch \in Batches : \E type : f = [type |-> type, updates |-> batch]
                                     /\ type \in {"crypto_price", "crypto_price_batch"}
        BY <1>3 DEF SpotFrame
    <2>1. /\ f.type \in {"crypto_price", "crypto_price_batch"} /\ f.updates = batch
        BY <2>0
    <2> DEFINE each == [i \in DOMAIN batch |-> CryptoEventFor(batch[i], spec)]
               seqs == [i \in DOMAIN each |-> each[i].events]
               asked == [i \in DOMAIN batch |-> UpdateEvents(batch[i])]
    <2>2. UpdatesAskedFor(f) = FlattenSeq(asked)
        BY <2>1 DEF UpdatesAskedFor, UpdateEvents
    <2>3. IsSeq(batch)
        BY BatchesAssumption DEF IsSeq
    <2>4. IsSeq(FlattenSeq(asked))
        <3>1. \A i \in DOMAIN asked : IsSeq(asked[i])
            BY <2>1, UpdateIsTold
        <3>2. asked = [i \in DOMAIN batch |-> asked[i]]
            OBVIOUS
        <3> HIDE DEF asked
        <3>3. IsSeq(asked)
            BY <2>3, <3>2, Mapped
        <3>4. QED
            BY <3>1, <3>3, Flattened
    <2>5. CASE \E i \in DOMAIN each : ~each[i].ok
        <3>1. Adapted(f) = Unmade
            BY <1>1, <2>1, <2>5 DEF AdaptSpotFrame
        <3>2. QED
            BY <2>2, <2>4, <3>1 DEF Unmade
    <2>6. CASE ~\E i \in DOMAIN each : ~each[i].ok
        <3>1. Adapted(f) = Made(FlattenSeq(seqs))
            BY <1>1, <2>1, <2>6 DEF AdaptSpotFrame
        <3>2. \A i \in DOMAIN batch : each[i].events = UpdateEvents(batch[i])
            BY <2>6, UpdateIsTold
        <3>3. seqs = asked
            BY <3>2
        <3> HIDE DEF seqs, asked
        <3>4. Adapted(f).ok /\ Adapted(f).events = FlattenSeq(asked)
            BY <3>1, <3>3 DEF Made
        <3>5. QED
            BY <2>2, <2>4, <3>4
    <2>7. QED
        BY <2>5, <2>6
<1>4. QED
    BY <1>2, <1>3

(* The frames taken are of the topic's feed, and what was told is what was   *)
(* asked for of them.                                                        *)
Whole == SubSeq(taken, 1, Len(taken) - (IF status = "ended" THEN 1 ELSE 0))
AskedOf(frames) == [i \in DOMAIN frames |-> UpdatesAskedFor(frames[i])]

TopicInv ==
    /\ status = "new" => taken = <<>>
    /\ (spec.kind = "crypto" /\ status \in {"open", "ended"}) =>
         /\ spec.topic \in Topics
         /\ \A g \in Range(taken) : SpotFrame(g) \/ OtherKind(g)
         /\ told = FlattenSeq(AskedOf(Whole))

(* What was told stays what was asked for while the pump rests.              *)
LEMMA TopicStays ==
    ASSUME TopicInv, UNCHANGED <<spec, status, told, taken>>
    PROVE  TopicInv'
<1>1. \A g : UpdatesAskedFor(g)' = UpdatesAskedFor(g)
    BY DEF UpdatesAskedFor, AskedFor
<1>2. Whole' = Whole
    BY DEF Whole
<1>3. \A frames : AskedOf(frames)' = AskedOf(frames)
    BY <1>1 DEF AskedOf
<1>4. AskedOf(Whole)' = AskedOf(Whole)
    BY <1>1, <1>2 DEF AskedOf
<1>5. QED
    BY <1>4 DEF TopicInv

(* The pump tells all that is asked for of a frame, or ends and tells none.  *)
LEMMA PumpTopic == TypesInv /\ TopicInv /\ Pump => TopicInv'
<1> SUFFICES ASSUME TypesInv, TopicInv, Pump PROVE TopicInv'
    OBVIOUS
<1>f. PICK f : f = Head(feed)
    OBVIOUS
<1>1. /\ status = "open" /\ feed # <<>>
      /\ told' = told \o Adapted(f).events /\ taken' = Append(taken, f)
      /\ status' = (IF Adapted(f).ok THEN "open" ELSE "ended")
      /\ spec' = spec
    BY <1>f DEF Pump
<1>2. IsSeq(feed) /\ IsSeq(told) /\ IsSeq(taken)
    BY DEF TypesInv
<1>3. f \in Range(feed)
    BY <1>f, <1>1, <1>2, Taken
<1>4. SUFFICES ASSUME spec.kind = "crypto"
               PROVE  /\ \A g \in Range(taken') : SpotFrame(g) \/ OtherKind(g)
                      /\ told' = FlattenSeq(AskedOf(Whole)')
    BY <1>1 DEF TopicInv
<1>5. SpotFrame(f) \/ OtherKind(f)
    BY <1>3, <1>4 DEF TypesInv, InFlight
<1>6. /\ spec.topic \in Topics /\ told = FlattenSeq(AskedOf(Whole))
      /\ \A g \in Range(taken) : SpotFrame(g) \/ OtherKind(g)
    BY <1>1, <1>4 DEF TopicInv
<1>7. /\ Range(taken') = Range(taken) \cup {f} /\ IsSeq(taken')
      /\ Len(taken) \in Nat /\ Len(taken') = Len(taken) + 1
      /\ DOMAIN taken = 1..Len(taken) /\ DOMAIN taken' = 1..(Len(taken) + 1)
      /\ \A k \in DOMAIN taken : taken'[k] = taken[k]
      /\ taken'[Len(taken) + 1] = f
    BY <1>1, <1>2, Added
<1>8. Whole = taken
    <2>1. Whole = SubSeq(taken, 1, Len(taken) - 0)
        BY <1>1 DEF Whole
    <2>2. Len(taken) - 0 = Len(taken)
        BY <1>7
    <2>3. taken \in Seq(Range(taken))
        BY <1>2 DEF IsSeq
    <2>4. SubSeq(taken, 1, Len(taken)) = taken
        BY <2>3
    <2>5. QED
        BY <2>1, <2>2, <2>4
<1>9. \A frames : AskedOf(frames)' = AskedOf(frames)
    <2>1. \A g : UpdatesAskedFor(g)' = UpdatesAskedFor(g)
        BY <1>1 DEF UpdatesAskedFor, AskedFor
    <2>2. QED
        BY <2>1 DEF AskedOf
<1>10. /\ IsSeq(UpdatesAskedFor(f))
       /\ Adapted(f).ok => Adapted(f).events = UpdatesAskedFor(f)
       /\ ~Adapted(f).ok => Adapted(f).events = <<>>
    BY <1>4, <1>5, <1>6, SpotIsTold
<1>11. ASSUME Adapted(f).ok PROVE told' = FlattenSeq(AskedOf(Whole)')
    <2>1. Whole' = taken'
        <3>1. Whole' = SubSeq(taken', 1, Len(taken') - 0)
            BY <1>1, <1>11 DEF Whole
        <3>2. Len(taken') - 0 = Len(taken')
            BY <1>7
        <3>3. taken' \in Seq(Range(taken'))
            BY <1>7 DEF IsSeq
        <3>4. SubSeq(taken', 1, Len(taken')) = taken'
            BY <3>3
        <3>5. QED
            BY <3>1, <3>2, <3>4
    <2>2. PICK t, t2 : t = taken /\ t2 = taken'
        OBVIOUS
    <2>3. AskedOf(Whole)' = AskedOf(t2)
        BY <1>1, <2>1, <2>2 DEF AskedOf, UpdatesAskedFor, AskedFor
    <2>4. AskedOf(t2) = Append(AskedOf(t), UpdatesAskedFor(f))
        <3>1. AskedOf(t) = [i \in 1..Len(t) |-> UpdatesAskedFor(t[i])]
            BY <1>7, <2>2 DEF AskedOf
        <3>2. AskedOf(t2) = [i \in 1..(Len(t) + 1) |-> UpdatesAskedFor(t2[i])]
            BY <1>7, <2>2 DEF AskedOf
        <3>3. IsSeq(AskedOf(t)) /\ Len(AskedOf(t)) = Len(t)
            <4>1. AskedOf(t) = [i \in DOMAIN t |-> AskedOf(t)[i]]
                BY DEF AskedOf
            <4>2. IsSeq(AskedOf(t)) /\ DOMAIN AskedOf(t) = DOMAIN t
                BY <1>2, <2>2, <4>1, Mapped
            <4>3. QED
                BY <1>7, <2>2, <4>2 DEF IsSeq
        <3>4. PICK a : a = Append(AskedOf(t), UpdatesAskedFor(f))
            OBVIOUS
        <3>5. /\ IsSeq(a) /\ Len(a) = Len(t) + 1 /\ a[Len(t) + 1] = UpdatesAskedFor(f)
              /\ \A i \in 1..Len(t) : a[i] = AskedOf(t)[i]
            BY <3>1, <3>3, <3>4, Added
        <3>6. \A i \in 1..(Len(t) + 1) : a[i] = UpdatesAskedFor(t2[i])
            <4>1. TAKE i \in 1..(Len(t) + 1)
            <4>2. CASE i = Len(t) + 1
                BY <1>7, <2>2, <3>5, <4>2
            <4>3. CASE i # Len(t) + 1
                <5>1. i \in 1..Len(t)
                    BY <1>7, <2>2, <4>3
                <5>2. t2[i] = t[i]
                    BY <1>7, <2>2, <5>1
                <5>3. QED
                    BY <3>1, <3>5, <5>1, <5>2
            <4>4. QED
                BY <4>2, <4>3
        <3>7. a = [i \in 1..(Len(t) + 1) |-> a[i]]
            BY <3>5, SeqIsFunction
        <3>8. QED
            BY <3>2, <3>4, <3>6, <3>7
    <2>5. FlattenSeq(AskedOf(t2)) = FlattenSeq(AskedOf(t)) \o UpdatesAskedFor(f)
        <3>1. \A i \in DOMAIN t : IsSeq(UpdatesAskedFor(t[i]))
            <4>1. \A i \in DOMAIN t : t[i] \in Range(t)
                BY DEF Range
            <4>2. QED
                BY <1>4, <1>6, <2>2, <4>1, SpotIsTold
        <3>2. \A i \in DOMAIN AskedOf(t) : IsSeq(AskedOf(t)[i])
            BY <3>1 DEF AskedOf
        <3>3. AskedOf(t) = [i \in DOMAIN t |-> AskedOf(t)[i]]
            BY DEF AskedOf
        <3>4. IsSeq(AskedOf(t))
            BY <1>2, <2>2, <3>3, Mapped
        <3>5. QED
            BY <1>10, <2>4, <3>2, <3>4, FlattenedMore
    <2>6. QED
        BY <1>1, <1>6, <1>8, <1>10, <1>11, <2>2, <2>3, <2>5
<1>12. ASSUME ~Adapted(f).ok PROVE told' = FlattenSeq(AskedOf(Whole)')
    <2>1. Whole' = taken
        <3>1. Whole' = SubSeq(taken', 1, Len(taken') - 1)
            BY <1>1, <1>12 DEF Whole
        <3>2. Len(taken') - 1 = Len(taken)
            BY <1>7
        <3>3. taken \in Seq(Range(taken')) /\ f \in Range(taken')
            BY <1>2, <1>7 DEF IsSeq
        <3>4. SubSeq(Append(taken, f), 1, Len(taken)) = taken
            BY <3>3
        <3>5. QED
            BY <1>1, <3>1, <3>2, <3>4
    <2>2. told' = told
        <3>1. told \o <<>> = told
            BY <1>2 DEF IsSeq
        <3>2. QED
            BY <1>1, <1>10, <1>12, <3>1
    <2>3. AskedOf(Whole)' = AskedOf(taken)
        BY <1>1, <2>1 DEF AskedOf, UpdatesAskedFor, AskedFor
    <2>4. QED
        BY <1>6, <1>8, <2>2, <2>3
<1>13. QED
    BY <1>5, <1>6, <1>7, <1>11, <1>12

(* A topic is told whole, in every state. *)
THEOREM TopicTheorem == Spec => []TopicInv
<1>1. Init => TopicInv
    BY DEF Init, TopicInv
<1>2. TypesInv /\ TopicInv /\ [Next]_vars => TopicInv'
    <2> SUFFICES ASSUME TypesInv, TopicInv, [Next]_vars PROVE TopicInv'
        OBVIOUS
    <2>1. CASE Subscribe
        <3>1. /\ status = "new" /\ status' \in {"open", "refused"}
              /\ status' = "open" =>
                   /\ ValidMarketSpec(spec) \/ ValidCryptoSpec(spec) \/ ValidUserSpec(spec)
                   /\ spec' = Normalized(spec)
              /\ UNCHANGED <<told, taken>>
            BY <2>1 DEF Subscribe
        <3>2. taken = <<>> /\ told = <<>>
            BY <3>1 DEF TopicInv, TypesInv
        <3>3. ASSUME spec'.kind = "crypto", status' = "open" PROVE spec'.topic \in Topics
            <4>1. spec.kind = "crypto" /\ spec' = spec
                <5>1. CASE spec.kind = "user" /\ spec.filter = Only({})
                    <6>1. spec \in Specs
                        BY <3>1 DEF TypesInv
                    <6>2. spec'.kind = "user"
                        BY <3>1, <3>3, <5>1, <6>1, SpecsAssumption DEF Normalized
                    <6>3. QED
                        BY <3>3, <6>2
                <5>2. CASE ~(spec.kind = "user" /\ spec.filter = Only({}))
                    BY <3>1, <3>3, <5>2 DEF Normalized
                <5>3. QED
                    BY <5>1, <5>2
            <4>2. QED
                BY <3>1, <3>3, <4>1 DEF ValidMarketSpec, ValidCryptoSpec, ValidUserSpec
        <3>4. AskedOf(Whole)' = <<>>
            <4>1. status' = "open" \/ status' = "refused"
                BY <3>1
            <4>2. Whole' = SubSeq(<<>>, 1, 0)
                BY <3>1, <3>2 DEF Whole
            <4>3. Whole' = <<>>
                BY <4>2
            <4>4. QED
                BY <4>3 DEF AskedOf
        <3>5. FlattenSeq(<<>>) = <<>>
            BY DEF FlattenSeq
        <3>6. Range(taken') = {}
            BY <3>1, <3>2, OneOrNone
        <3>7. QED
            BY <3>1, <3>2, <3>3, <3>4, <3>5, <3>6 DEF TopicInv
    <2>2. CASE Pump
        BY <2>2, PumpTopic
    <2>3. CASE PriceMoves \/ Trade \/ Fill \/ Tick \/ OtherFrame \/ Drop \/ Done
               \/ UNCHANGED vars
        <3>1. UNCHANGED <<spec, status, told, taken>>
            BY <2>3 DEF PriceMoves, Trade, Fill, Tick, OtherFrame, Drop, Done, vars, Happens
        <3>2. QED
            BY <3>1, TopicStays
    <2>4. QED
        BY <2>1, <2>2, <2>3 DEF Next
<1>3. QED
    BY <1>1, <1>2, TypesTheorem, PTL DEF Spec

(* A crypto topic tells the updates of its own exchange and of no other.      *)
LEMMA TopicsTold == TopicInv => TopicsTellTheirExchange
BY DEF TopicInv, TopicsTellTheirExchange, AskedOf, Whole
-----------------------------------------------------------------------------
(* Feeds are told whole: the fills of an account. *)

(* A fill that is asked for, and the frame that was sent for one.            *)
AskedFill(e) == Admits(spec.filter, e.market) /\ e.label # ""
SentFor(g, e) == e.id = g.id /\ e.market = g.market /\ e.label = g.outcome
IsFill(g) == g.type = "fill"

(* A fill is told by two events, one behind the other.                       *)
ToldTwice(seq, id) ==
    \E k \in DOMAIN seq :
        /\ k + 1 \in DOMAIN seq
        /\ {i \in DOMAIN seq : seq[i].id = id} = {k, k + 1}
        /\ seq[k].type = "trade" /\ seq[k + 1].type = "order"

(* Fills are numbered as they happen; what is in flight is of later fills    *)
(* than what is told.                                                        *)
Numbered ==
    \A j \in DOMAIN happened : happened[j].kind = "fill" => happened[j].id = j

FeedOfFills ==
    /\ \A k \in DOMAIN feed : IsFill(feed[k]) => \E e \in Happened("fill") : SentFor(feed[k], e)
    /\ \A k, l \in DOMAIN feed :
         k < l /\ IsFill(feed[k]) /\ IsFill(feed[l]) => feed[k].id < feed[l].id
    /\ \A i \in DOMAIN told : \A k \in DOMAIN feed :
         IsFill(feed[k]) => told[i].id < feed[k].id

ToldOfFills ==
    /\ \A i \in DOMAIN told : \E e \in Happened("fill") :
         e.id = told[i].id /\ AskedFill(e) /\ ToldTwice(told, e.id)
    /\ \A i, j \in DOMAIN told : i < j => told[i].id <= told[j].id

(* A fill that is asked for and not lost is in flight or told.               *)
NoneForgotten ==
    \A e \in Happened("fill") :
        AskedFill(e) /\ e.id \notin missed.fills =>
            \/ \E k \in DOMAIN feed : IsFill(feed[k]) /\ feed[k].id = e.id
            \/ ToldTwice(told, e.id)

FillInv ==
    spec.kind = "user" =>
        Numbered /\ FeedOfFills /\ ToldOfFills /\ (status = "open" => NoneForgotten)

(* The number of a fill is where it is in what happened. *)
LEMMA FillNumbers ==
    ASSUME IsSeq(happened), Numbered
    PROVE  /\ Len(happened) \in Nat
           /\ \A e \in Happened("fill") : e.id \in 1..Len(happened)
           /\ \A e, d \in Happened("fill") : e.id = d.id => e = d
<1>1. DOMAIN happened = 1..Len(happened) /\ Len(happened) \in Nat
    BY DEF IsSeq
<1>2. \A e \in Happened("fill") :
        e.id \in 1..Len(happened) /\ e = happened[e.id]
    BY <1>1 DEF Happened, Numbered
<1>3. QED
    BY <1>1, <1>2

(* Events told behind others leave what was told of other fills.             *)
LEMMA TwiceStays ==
    ASSUME NEW s, NEW t, IsSeq(s), IsSeq(t), NEW id, ToldTwice(s, id),
           \A i \in DOMAIN t : t[i].id # id
    PROVE  ToldTwice(s \o t, id)
<1> DEFINE all == s \o t
<1>1. /\ Len(s) \in Nat /\ Len(t) \in Nat /\ DOMAIN s = 1..Len(s)
      /\ DOMAIN t = 1..Len(t) /\ DOMAIN all = 1..(Len(s) + Len(t))
      /\ \A k \in DOMAIN s : all[k] = s[k]
      /\ \A k \in DOMAIN t : all[Len(s) + k] = t[k]
    BY Behind
<1> HIDE DEF all
<1>2. PICK k \in DOMAIN s : /\ k + 1 \in DOMAIN s
                            /\ {i \in DOMAIN s : s[i].id = id} = {k, k + 1}
                            /\ s[k].type = "trade" /\ s[k + 1].type = "order"
    BY DEF ToldTwice
<1>3. \A i \in DOMAIN all : all[i].id = id => i \in DOMAIN s
    <2>1. SUFFICES ASSUME NEW i \in DOMAIN all, i \notin DOMAIN s PROVE all[i].id # id
        OBVIOUS
    <2>2. i - Len(s) \in DOMAIN t /\ Len(s) + (i - Len(s)) = i
        BY <1>1, <2>1
    <2>3. all[i] = t[i - Len(s)]
        BY <1>1, <2>2
    <2>4. QED
        BY <2>2, <2>3
<1>4. \A i \in DOMAIN s : i \in DOMAIN all /\ all[i] = s[i]
    BY <1>1
<1>5. {i \in DOMAIN all : all[i].id = id} = {i \in DOMAIN s : s[i].id = id}
    BY <1>3, <1>4
<1>6. ToldTwice(all, id)
    BY <1>2, <1>4, <1>5 DEF ToldTwice
<1>7. QED
    BY <1>6 DEF all

(* Two put behind a sequence are its last two. *)
LEMMA TwoBehind ==
    ASSUME NEW s, IsSeq(s), NEW a, NEW b
    PROVE  /\ Len(s) \in Nat /\ DOMAIN s = 1..Len(s)
           /\ IsSeq(<<a, b>>) /\ Range(<<a, b>>) = {a, b}
           /\ DOMAIN (s \o <<a, b>>) = 1..(Len(s) + 2)
           /\ \A k \in DOMAIN s : (s \o <<a, b>>)[k] = s[k]
           /\ (s \o <<a, b>>)[Len(s) + 1] = a /\ (s \o <<a, b>>)[Len(s) + 2] = b
<1>t. PICK t : t = <<a, b>>
    OBVIOUS
<1>1. IsSeq(t) /\ Range(t) = {a, b} /\ DOMAIN t = 1..2 /\ t[1] = a /\ t[2] = b /\ Len(t) = 2
    <2>1. DOMAIN t = {1, 2} /\ t[1] = a /\ t[2] = b /\ Len(t) = 2
        BY <1>t
    <2>2. Range(t) = {a, b}
        BY <2>1 DEF Range
    <2>3. QED
        BY <1>t, <2>1, <2>2 DEF IsSeq
<1>2. /\ Len(s) \in Nat /\ DOMAIN s = 1..Len(s)
      /\ DOMAIN (s \o t) = 1..(Len(s) + Len(t))
      /\ \A k \in DOMAIN s : (s \o t)[k] = s[k]
      /\ \A k \in DOMAIN t : (s \o t)[Len(s) + k] = t[k]
    <2>1. IsSeq(t)
        BY <1>1
    <2>2. QED
        BY <2>1, Behind
<1>3. QED
    BY <1>1, <1>2, <1>t

(* A new fill is told by its two events.                                     *)
LEMMA TwiceTold ==
    ASSUME NEW s, IsSeq(s), NEW a, NEW b, NEW id, a.id = id, b.id = id,
           a.type = "trade", b.type = "order",
           \A i \in DOMAIN s : s[i].id # id
    PROVE  ToldTwice(s \o <<a, b>>, id)
<1>a. PICK all : all = s \o <<a, b>>
    OBVIOUS
<1>2. /\ Len(s) \in Nat /\ DOMAIN s = 1..Len(s)
      /\ DOMAIN all = 1..(Len(s) + 2)
      /\ \A k \in DOMAIN s : all[k] = s[k]
    BY <1>a, TwoBehind
<1>3. all[Len(s) + 1] = a /\ all[Len(s) + 2] = b
    BY <1>a, TwoBehind
<1>4. \A i \in DOMAIN all : i \in DOMAIN s \/ i = Len(s) + 1 \/ i = Len(s) + 2
    BY <1>2
<1>5. Len(s) + 1 \in DOMAIN all /\ Len(s) + 2 \in DOMAIN all
    BY <1>2
<1>6. {i \in DOMAIN all : all[i].id = id} = {Len(s) + 1, Len(s) + 2}
    BY <1>2, <1>3, <1>4, <1>5
<1>7. (Len(s) + 1) + 1 = Len(s) + 2
    BY <1>2
<1>8. ToldTwice(all, id)
    BY <1>3, <1>5, <1>6, <1>7 DEF ToldTwice
<1>9. QED
    BY <1>8, <1>a

(* A fill in the markets asked for is told by its two events, if its frame   *)
(* has its outcome, and can be made.                                         *)
AskedFrame(f) == IsFill(f) /\ Admits(spec.filter, f.market) /\ f.outcome # ""
InTwo(events, id) ==
    \E a, b : /\ events = <<a, b>> /\ a.id = id /\ b.id = id
             /\ a.type = "trade" /\ b.type = "order"

LEMMA FillIsTold ==
    ASSUME NEW f, FillFrame(f) \/ OtherKind(f), spec.kind = "user"
    PROVE  \/ ~AskedFrame(f) /\ Adapted(f).events = <<>>
           \/ AskedFrame(f) /\ Adapted(f) = Unmade
           \/ AskedFrame(f) /\ InTwo(Adapted(f).events, f.id)
<1>1. Adapted(f) = AdaptExecutionFrame(f, spec.filter)
    BY DEF Adapted
<1>2. CASE OtherKind(f)
    <2>1. Adapted(f) = Made(<<>>) /\ ~AskedFrame(f)
        BY <1>1, <1>2 DEF OtherKind, AdaptExecutionFrame, IsFill, AskedFrame
    <2>2. QED
        BY <2>1 DEF Made
<1>3. CASE FillFrame(f)
    <2>1. f.type = "fill" /\ (f.outcome # "" => MakeToken(f.market, f.outcome) # NoToken)
        <3>1. PICK m \in Markets : m = f.market
            BY <1>3 DEF FillFrame
        <3>2. f.outcome # "" => f.outcome \in Range(Labels[m])
            BY <1>3, <3>1 DEF FillFrame
        <3>3. f.type = "fill"
            BY <1>3 DEF FillFrame
        <3>4. QED
            BY <3>1, <3>2, <3>3, TokenTakenApart
    <2>2. f.outcome = "" => MakeToken(f.market, f.outcome) = NoToken
        BY DEF MakeToken
    <2>3. CASE ~AskedFrame(f)
        <3>1. Adapted(f) = Made(<<>>)
            BY <1>1, <2>1, <2>2, <2>3 DEF AdaptExecutionFrame, AskedFrame, IsFill
        <3>2. QED
            BY <2>3, <3>1 DEF Made
    <2>4. CASE AskedFrame(f)
        <3>1. PICK a : a = [type |-> "trade", id |-> f.id,
                            token |-> MakeToken(f.market, f.outcome)]
            OBVIOUS
        <3>2. PICK b : b = [type |-> "order", id |-> f.id,
                            token |-> MakeToken(f.market, f.outcome)]
            OBVIOUS
        <3>3. Adapted(f) = Made(<<a, b>>) \/ Adapted(f) = Unmade
            BY <1>1, <2>1, <2>4, <3>1, <3>2 DEF AdaptExecutionFrame, AskedFrame
        <3>4. /\ a.id = f.id /\ b.id = f.id /\ a.type = "trade" /\ b.type = "order"
            BY <3>1, <3>2
        <3>5. CASE Adapted(f) = Made(<<a, b>>)
            <4>1. Adapted(f).events = <<a, b>>
                BY <3>5 DEF Made
            <4>2. InTwo(Adapted(f).events, f.id)
                BY <3>4, <4>1 DEF InTwo
            <4>3. QED
                BY <2>4, <4>2
        <3>6. QED
            BY <2>4, <3>3, <3>5
    <2>5. QED
        BY <2>3, <2>4
<1>4. QED
    BY <1>2, <1>3

(* What is left in flight behind the frame that is taken.                    *)
LEMMA BehindTheTaken ==
    ASSUME IsSeq(feed), FeedOfFills, feed # <<>>, feed' = Tail(feed), NEW f, f = feed[1]
    PROVE  /\ \A k \in DOMAIN feed' : IsFill(feed'[k]) =>
                /\ \E e \in Happened("fill") : SentFor(feed'[k], e)
                /\ \A i \in DOMAIN told : told[i].id < feed'[k].id
                /\ IsFill(f) => f.id < feed'[k].id
           /\ \A k, l \in DOMAIN feed' :
                k < l /\ IsFill(feed'[k]) /\ IsFill(feed'[l]) => feed'[k].id < feed'[l].id
           /\ \A k \in DOMAIN feed :
                feed[k] = f \/ \E l \in DOMAIN feed' : feed'[l] = feed[k]
           /\ IsFill(f) => /\ \E e \in Happened("fill") : SentFor(f, e)
                           /\ \A i \in DOMAIN told : told[i].id < f.id
<1>1. /\ DOMAIN feed = 1..Len(feed) /\ Len(feed) \in Nat \ {0}
      /\ IsSeq(feed') /\ Len(feed') = Len(feed) - 1
      /\ \A k \in 1..(Len(feed) - 1) : feed'[k] = feed[k + 1]
    BY Taken
<1>2. DOMAIN feed' = 1..(Len(feed) - 1) /\ 1 \in DOMAIN feed
    BY <1>1 DEF IsSeq
<1>3. \A k \in DOMAIN feed' :
        k \in Nat /\ k + 1 \in DOMAIN feed /\ 1 < k + 1 /\ feed'[k] = feed[k + 1]
    BY <1>1, <1>2
<1>4. \A k \in DOMAIN feed' : IsFill(feed'[k]) =>
        /\ \E e \in Happened("fill") : SentFor(feed'[k], e)
        /\ \A i \in DOMAIN told : told[i].id < feed'[k].id
        /\ IsFill(f) => f.id < feed'[k].id
    BY <1>2, <1>3 DEF FeedOfFills
<1>5. \A k, l \in DOMAIN feed' :
        k < l /\ IsFill(feed'[k]) /\ IsFill(feed'[l]) => feed'[k].id < feed'[l].id
    <2>1. SUFFICES ASSUME NEW k \in DOMAIN feed', NEW l \in DOMAIN feed', k < l,
                          IsFill(feed'[k]), IsFill(feed'[l])
                   PROVE  feed'[k].id < feed'[l].id
        OBVIOUS
    <2>2. /\ k + 1 \in DOMAIN feed /\ l + 1 \in DOMAIN feed /\ k + 1 < l + 1
          /\ feed'[k] = feed[k + 1] /\ feed'[l] = feed[l + 1]
        BY <1>3, <2>1
    <2>3. QED
        BY <2>1, <2>2 DEF FeedOfFills
<1>6. \A k \in DOMAIN feed :
        feed[k] = f \/ \E l \in DOMAIN feed' : feed'[l] = feed[k]
    <2>1. SUFFICES ASSUME NEW k \in DOMAIN feed, k # 1
                   PROVE  \E l \in DOMAIN feed' : feed'[l] = feed[k]
        OBVIOUS
    <2>2. k - 1 \in DOMAIN feed' /\ (k - 1) + 1 = k
        BY <1>1, <1>2, <2>1
    <2>3. feed'[k - 1] = feed[k]
        BY <1>3, <2>2
    <2>4. QED
        BY <2>2, <2>3
<1>7. IsFill(f) => /\ \E e \in Happened("fill") : SentFor(f, e)
                   /\ \A i \in DOMAIN told : told[i].id < f.id
    BY <1>2 DEF FeedOfFills
<1>8. QED
    BY <1>4, <1>5, <1>6, <1>7

(* The pump tells a fill that is asked for, by its two events, or ends; and  *)
(* no other.                                                                 *)
LEMMA PumpFills == TypesInv /\ FillInv /\ Pump => FillInv'
<1> SUFFICES ASSUME TypesInv, FillInv, Pump PROVE FillInv'
    OBVIOUS
<1>f. PICK f : f = feed[1]
    OBVIOUS
<1>1. /\ status = "open" /\ feed # <<>> /\ IsSeq(feed) /\ IsSeq(told) /\ IsSeq(happened)
      /\ feed' = Tail(feed) /\ UNCHANGED <<spec, happened, missed>>
    BY DEF Pump, TypesInv
<1>2. Head(feed) = f /\ f \in Range(feed)
    BY <1>1, <1>f, Taken
<1>3. /\ told' = told \o Adapted(f).events
      /\ status' = (IF Adapted(f).ok THEN "open" ELSE "ended")
    BY <1>2 DEF Pump
<1>4. SUFFICES ASSUME spec.kind = "user"
               PROVE  Numbered' /\ FeedOfFills' /\ ToldOfFills'
                      /\ (status' = "open" => NoneForgotten')
    BY <1>1 DEF FillInv
<1>5. Numbered /\ FeedOfFills /\ ToldOfFills /\ NoneForgotten
    BY <1>1, <1>4 DEF FillInv
<1>6. Numbered'
    BY <1>1, <1>5 DEF Numbered
<1>7. PICK H : H = Happened("fill")
    OBVIOUS
<1>8. Happened("fill")' = H
    BY <1>1, <1>7 DEF Happened
<1>9. /\ \A e \in H : e.id \in Nat
      /\ \A e, d \in H : e.id = d.id => e = d
    BY <1>1, <1>5, <1>7, FillNumbers
<1>10. FillFrame(f) \/ OtherKind(f)
    BY <1>2, <1>4 DEF TypesInv, InFlight
<1>11. /\ \A k \in DOMAIN feed' : IsFill(feed'[k]) =>
            /\ \E e \in H : SentFor(feed'[k], e)
            /\ \A i \in DOMAIN told : told[i].id < feed'[k].id
            /\ IsFill(f) => f.id < feed'[k].id
       /\ \A k, l \in DOMAIN feed' :
            k < l /\ IsFill(feed'[k]) /\ IsFill(feed'[l]) => feed'[k].id < feed'[l].id
    BY <1>1, <1>5, <1>7, <1>f, BehindTheTaken
<1>12. \A k \in DOMAIN feed :
         feed[k] = f \/ \E l \in DOMAIN feed' : feed'[l] = feed[k]
    BY <1>1, <1>5, <1>f, BehindTheTaken
<1>13. IsFill(f) => /\ \E e \in H : SentFor(f, e)
                    /\ \A i \in DOMAIN told : told[i].id < f.id
    BY <1>1, <1>5, <1>7, <1>f, BehindTheTaken
<1>14. \A i \in DOMAIN told : \E e \in H :
         e.id = told[i].id /\ AskedFill(e) /\ ToldTwice(told, e.id)
    BY <1>5, <1>7 DEF ToldOfFills
<1>15. \A i, j \in DOMAIN told : i < j => told[i].id <= told[j].id
    BY <1>5 DEF ToldOfFills
<1>16. \A e \in H : AskedFill(e) /\ e.id \notin missed.fills =>
         \/ \E k \in DOMAIN feed : IsFill(feed[k]) /\ feed[k].id = e.id
         \/ ToldTwice(told, e.id)
    BY <1>5, <1>7 DEF NoneForgotten
<1>17. CASE (~AskedFrame(f) /\ Adapted(f).events = <<>>) \/ Adapted(f) = Unmade
    <2>1. told' = told
        <3>1. Adapted(f).events = <<>>
            BY <1>17 DEF Unmade
        <3>2. told \o <<>> = told
            BY <1>1 DEF IsSeq
        <3>3. QED
            BY <1>3, <3>1, <3>2
    <2>2. FeedOfFills'
        BY <1>8, <1>11, <2>1 DEF FeedOfFills
    <2>3. ToldOfFills'
        BY <1>1, <1>8, <1>14, <1>15, <2>1 DEF ToldOfFills, AskedFill
    <2>4. ASSUME status' = "open", NEW e \in H, AskedFill(e), e.id \notin missed.fills,
                 ~ToldTwice(told, e.id)
          PROVE  \E k \in DOMAIN feed' : IsFill(feed'[k]) /\ feed'[k].id = e.id
        <3>1. ~AskedFrame(f)
            BY <1>3, <1>17, <2>4 DEF Unmade
        <3>2. PICK k \in DOMAIN feed : IsFill(feed[k]) /\ feed[k].id = e.id
            BY <1>16, <2>4
        <3>3. feed[k] # f
            <4>1. SUFFICES ASSUME feed[k] = f PROVE FALSE
                OBVIOUS
            <4>2. IsFill(f) /\ f.id = e.id
                BY <3>2, <4>1
            <4>3. PICK d \in H : SentFor(f, d)
                BY <1>13, <4>2
            <4>4. d.id = f.id
                BY <4>3 DEF SentFor
            <4>5. SentFor(f, e)
                BY <1>9, <4>2, <4>3, <4>4
            <4>6. QED
                BY <2>4, <3>1, <4>2, <4>5 DEF AskedFrame, AskedFill, SentFor
        <3>4. QED
            BY <1>12, <3>2, <3>3
    <2>5. status' = "open" => NoneForgotten'
        BY <1>1, <1>8, <2>1, <2>4 DEF NoneForgotten, AskedFill
    <2>6. QED
        BY <1>6, <2>2, <2>3, <2>5
<1>18. CASE AskedFrame(f) /\ InTwo(Adapted(f).events, f.id)
    <2>1. PICK a, b : /\ Adapted(f).events = <<a, b>> /\ a.id = f.id /\ b.id = f.id
                      /\ a.type = "trade" /\ b.type = "order"
        BY <1>18 DEF InTwo
    <2>2. told' = told \o <<a, b>>
        BY <1>3, <2>1
    <2>3. PICK d \in H : SentFor(f, d)
        BY <1>13, <1>18 DEF AskedFrame
    <2>4. d.id = f.id /\ f.id \in Nat /\ AskedFill(d)
        BY <1>9, <1>18, <2>3 DEF SentFor, AskedFrame, AskedFill
    <2>5. \A i \in DOMAIN told : told[i].id < f.id /\ told[i].id # f.id /\ told[i].id \in Nat
        <3>1. ASSUME NEW i \in DOMAIN told PROVE told[i].id < f.id /\ told[i].id \in Nat
            <4>1. told[i].id < f.id
                BY <1>13, <1>18 DEF AskedFrame
            <4>2. PICK e \in H : e.id = told[i].id
                BY <1>14
            <4>3. QED
                BY <1>9, <4>1, <4>2
        <3>2. ASSUME NEW m \in Nat, m < f.id PROVE m # f.id
            BY <2>4, <3>2
        <3>3. QED
            BY <3>1, <3>2
    <2>6. ToldTwice(told', f.id)
        BY <1>1, <2>1, <2>2, <2>5, TwiceTold
    <2>7. \A id : ToldTwice(told, id) /\ id # f.id => ToldTwice(told', id)
        <3>1. SUFFICES ASSUME NEW id, ToldTwice(told, id), id # f.id
                       PROVE  ToldTwice(told', id)
            OBVIOUS
        <3>2. PICK t : t = <<a, b>>
            OBVIOUS
        <3>3. IsSeq(t) /\ DOMAIN t = 1..2 /\ t[1] = a /\ t[2] = b
            BY <3>2, <1>1, TwoBehind
        <3>4. \A i \in DOMAIN t : t[i].id # id
            BY <2>1, <3>1, <3>3
        <3>5. QED
            BY <1>1, <2>2, <3>1, <3>2, <3>3, <3>4, TwiceStays
    <2>8. /\ Len(told) \in Nat /\ DOMAIN told = 1..Len(told)
          /\ DOMAIN told' = 1..(Len(told) + 2)
          /\ \A k \in DOMAIN told : told'[k] = told[k]
          /\ told'[Len(told) + 1] = a /\ told'[Len(told) + 2] = b
        BY <1>1, <2>2, TwoBehind
    <2>9. \A i \in DOMAIN told' : i \in DOMAIN told \/ i \in {Len(told) + 1, Len(told) + 2}
        BY <2>8
    <2>10. \A i \in DOMAIN told' :
             \/ i \in DOMAIN told /\ told'[i].id = told[i].id
             \/ i > Len(told) /\ told'[i].id = f.id
        BY <2>1, <2>8, <2>9
    <2>11. FeedOfFills'
        <3>1. \A i \in DOMAIN told' : \A k \in DOMAIN feed' :
                IsFill(feed'[k]) => told'[i].id < feed'[k].id
            BY <1>11, <1>18, <2>10 DEF AskedFrame
        <3>2. QED
            BY <1>8, <1>11, <3>1 DEF FeedOfFills
    <2>12. \A i \in DOMAIN told' : \E e \in H :
             e.id = told'[i].id /\ AskedFill(e) /\ ToldTwice(told', e.id)
        <3>1. SUFFICES ASSUME NEW i \in DOMAIN told'
                       PROVE  \E e \in H : e.id = told'[i].id /\ AskedFill(e)
                                            /\ ToldTwice(told', e.id)
            OBVIOUS
        <3>2. CASE i \in DOMAIN told /\ told'[i].id = told[i].id
            <4>1. PICK e \in H : e.id = told[i].id /\ AskedFill(e) /\ ToldTwice(told, e.id)
                BY <1>14, <3>2
            <4>2. ToldTwice(told', e.id)
                BY <2>5, <2>7, <3>2, <4>1
            <4>3. QED
                BY <3>2, <4>1, <4>2
        <3>3. CASE told'[i].id = f.id
            BY <2>4, <2>6, <3>3
        <3>4. QED
            BY <2>10, <3>2, <3>3
    <2>13. \A i, j \in DOMAIN told' : i < j => told'[i].id <= told'[j].id
        <3>1. SUFFICES ASSUME NEW i \in DOMAIN told', NEW j \in DOMAIN told', i < j
                       PROVE  told'[i].id <= told'[j].id
            OBVIOUS
        <3>2. CASE j \in DOMAIN told /\ told'[j].id = told[j].id
            <4>1. i \in DOMAIN told
                BY <2>8, <3>1, <3>2
            <4>2. told'[i].id = told[i].id
                BY <2>8, <4>1
            <4>3. QED
                BY <1>15, <3>1, <3>2, <4>1, <4>2
        <3>3. CASE told'[j].id = f.id
            BY <2>4, <2>5, <2>10, <3>3
        <3>4. QED
            BY <2>10, <3>2, <3>3
    <2>14. ToldOfFills'
        BY <1>1, <1>8, <2>12, <2>13 DEF ToldOfFills, AskedFill
    <2>15. ASSUME NEW e \in H, AskedFill(e), e.id \notin missed.fills, ~ToldTwice(told', e.id)
           PROVE  \E k \in DOMAIN feed' : IsFill(feed'[k]) /\ feed'[k].id = e.id
        <3>1. ~ToldTwice(told, e.id) /\ e.id # f.id
            BY <2>6, <2>7, <2>15
        <3>2. PICK k \in DOMAIN feed : IsFill(feed[k]) /\ feed[k].id = e.id
            BY <1>16, <2>15, <3>1
        <3>3. feed[k] # f
            BY <3>1, <3>2
        <3>4. QED
            BY <1>12, <3>2, <3>3
    <2>16. NoneForgotten'
        BY <1>1, <1>8, <2>15 DEF NoneForgotten, AskedFill
    <2>17. QED
        BY <1>6, <2>11, <2>14, <2>16
<1>19. QED
    BY <1>4, <1>10, <1>17, <1>18, FillIsTold

(* What happens adds a fill behind the others, or none.                      *)
LEMMA NumbersGrow ==
    ASSUME IsSeq(happened), Numbered, NEW event, happened' = Append(happened, event),
           event.kind = "fill" => event.id = Len(happened) + 1
    PROVE  /\ Numbered'
           /\ Happened("fill")' = Happened("fill") \cup
                                   (IF event.kind = "fill" THEN {event} ELSE {})
<1>1. /\ Len(happened) \in Nat /\ DOMAIN happened = 1..Len(happened)
      /\ DOMAIN happened' = 1..(Len(happened) + 1)
      /\ \A k \in DOMAIN happened : happened'[k] = happened[k]
      /\ happened'[Len(happened) + 1] = event
    BY Added
<1>2. \A j \in DOMAIN happened' : j \in DOMAIN happened \/ j = Len(happened) + 1
    BY <1>1
<1>3. Numbered'
    BY <1>1, <1>2 DEF Numbered
<1>4. ASSUME NEW e \in Happened("fill")'
      PROVE  e \in Happened("fill") \/ (e = event /\ event.kind = "fill")
    BY <1>4, HappenedGrows
<1>5. Happened("fill") \subseteq Happened("fill")'
    <2>1. \A j \in DOMAIN happened : j \in DOMAIN happened' /\ happened'[j] = happened[j]
        BY <1>1
    <2>2. QED
        BY <2>1 DEF Happened
<1>6. event.kind = "fill" => event \in Happened("fill")'
    <2>1. Len(happened) + 1 \in DOMAIN happened'
        BY <1>1
    <2>2. QED
        BY <1>1, <2>1 DEF Happened
<1>7. QED
    BY <1>3, <1>4, <1>5, <1>6

(* A fill is sent behind what is in flight: it is a later one, and it is     *)
(* neither lost nor told yet.  Any other frame is of no fill.                *)
LEMMA SentFills ==
    ASSUME TypesInv, FillInv, spec.kind = "user", status = "open", NEW event, NEW g,
           happened' = Append(happened, event), feed' = Append(feed, g),
           UNCHANGED <<spec, status, told, missed>>,
           event.kind = "fill" => event.id = Len(happened) + 1,
           IsFill(g) <=> event.kind = "fill", IsFill(g) => SentFor(g, event)
    PROVE  FillInv'
<1>1. /\ Numbered /\ FeedOfFills /\ ToldOfFills /\ NoneForgotten
      /\ IsSeq(happened) /\ IsSeq(feed) /\ IsSeq(told)
    BY DEF FillInv, TypesInv
<1>2. Numbered'
    BY <1>1, NumbersGrow
<1>3. PICK H : H = Happened("fill")
    OBVIOUS
<1>4. Happened("fill")' = H \cup (IF IsFill(g) THEN {event} ELSE {})
    BY <1>1, <1>3, NumbersGrow
<1>5. Len(happened) \in Nat /\ \A e \in H : e.id \in 1..Len(happened)
    BY <1>1, <1>3, FillNumbers
<1>6. /\ DOMAIN feed = 1..Len(feed) /\ Len(feed) \in Nat
      /\ DOMAIN feed' = 1..(Len(feed) + 1)
      /\ \A k \in DOMAIN feed : feed'[k] = feed[k]
      /\ feed'[Len(feed) + 1] = g
    BY <1>1, Added
<1>7. /\ \A k \in DOMAIN feed' : k \in DOMAIN feed \/ k = Len(feed) + 1
      /\ \A k \in DOMAIN feed : k \in DOMAIN feed'
      /\ Len(feed) + 1 \in DOMAIN feed'
    BY <1>6
<1>8. IsFill(g) => g.id = Len(happened) + 1
    BY DEF SentFor
<1>9. \A k \in DOMAIN feed : IsFill(feed[k]) =>
        /\ \E e \in H : SentFor(feed[k], e)
        /\ \A i \in DOMAIN told : told[i].id < feed[k].id
    BY <1>1, <1>3 DEF FeedOfFills
<1>10. \A k, l \in DOMAIN feed :
         k < l /\ IsFill(feed[k]) /\ IsFill(feed[l]) => feed[k].id < feed[l].id
    BY <1>1 DEF FeedOfFills
<1>11. \A i \in DOMAIN told : \E e \in H :
         e.id = told[i].id /\ AskedFill(e) /\ ToldTwice(told, e.id)
    BY <1>1, <1>3 DEF ToldOfFills
<1>12. \A k \in DOMAIN feed' : IsFill(feed'[k]) => \E e \in Happened("fill")' : SentFor(feed'[k], e)
    BY <1>4, <1>6, <1>7, <1>9
<1>13. \A k \in DOMAIN feed : IsFill(feed[k]) => feed[k].id \in 1..Len(happened)
    BY <1>5, <1>9 DEF SentFor
<1>14. ASSUME NEW k \in DOMAIN feed', NEW l \in DOMAIN feed', k < l,
              IsFill(feed'[k]), IsFill(feed'[l])
       PROVE  feed'[k].id < feed'[l].id
    <2>1. k \in DOMAIN feed /\ feed'[k] = feed[k]
        BY <1>6, <1>14
    <2>2. CASE l \in DOMAIN feed
        BY <1>6, <1>10, <1>14, <2>1, <2>2
    <2>3. CASE l = Len(feed) + 1
        <3>1. feed'[l] = g /\ feed[k].id \in 1..Len(happened) /\ IsFill(g)
            BY <1>6, <1>13, <1>14, <2>1, <2>3
        <3>2. feed[k].id < Len(happened) + 1
            BY <1>5, <3>1
        <3>3. QED
            BY <1>8, <2>1, <3>1, <3>2
    <2>4. QED
        BY <1>7, <2>2, <2>3
<1>15. ASSUME NEW i \in DOMAIN told, NEW k \in DOMAIN feed', IsFill(feed'[k])
       PROVE  told[i].id < feed'[k].id
    <2>1. CASE k \in DOMAIN feed
        BY <1>6, <1>9, <1>15, <2>1
    <2>2. CASE k = Len(feed) + 1
        <3>1. feed'[k] = g /\ IsFill(g)
            BY <1>6, <1>15, <2>2
        <3>2. told[i].id \in 1..Len(happened)
            BY <1>5, <1>11
        <3>3. told[i].id < Len(happened) + 1
            BY <1>5, <3>2
        <3>4. QED
            BY <1>8, <3>1, <3>3
    <2>3. QED
        BY <1>7, <2>1, <2>2
<1>16. FeedOfFills'
    BY <1>12, <1>14, <1>15 DEF FeedOfFills
<1>18. ToldOfFills'
    BY <1>1, <1>4, <1>11 DEF ToldOfFills, AskedFill
<1>19. ASSUME NEW e \in Happened("fill")', AskedFill(e), e.id \notin missed.fills,
              ~ToldTwice(told, e.id)
       PROVE  \E k \in DOMAIN feed' : IsFill(feed'[k]) /\ feed'[k].id = e.id
    <2>1. CASE e \in H
        <3>1. PICK k \in DOMAIN feed : IsFill(feed[k]) /\ feed[k].id = e.id
            BY <1>1, <1>3, <1>19, <2>1 DEF NoneForgotten
        <3>2. QED
            BY <1>6, <1>7, <3>1
    <2>2. CASE e = event /\ IsFill(g)
        <3>1. g.id = e.id
            BY <2>2 DEF SentFor
        <3>2. QED
            BY <1>6, <1>7, <2>2, <3>1
    <2>3. QED
        BY <1>4, <1>19, <2>1, <2>2
<1>20. NoneForgotten'
    BY <1>19 DEF NoneForgotten, AskedFill
<1>21. QED
    BY <1>2, <1>16, <1>18, <1>20 DEF FillInv

(* A fill happens, or another frame is sent. *)
LEMMA ServerFills == TypesInv /\ FillInv /\ (Fill \/ OtherFrame) => FillInv'
<1> SUFFICES ASSUME TypesInv, FillInv, Fill \/ OtherFrame PROVE FillInv'
    OBVIOUS
<1>1. UNCHANGED <<spec, status, told, missed>> /\ status = "open"
    BY DEF Fill, OtherFrame, Happens
<1>2. SUFFICES ASSUME spec.kind = "user" PROVE FillInv'
    BY <1>1 DEF FillInv
<1>3. CASE Fill
    <2>1. PICK m \in Markets, form \in FillForms : \E l \in Range(Labels[m]) \cup {""} :
            LET id == Len(happened) + 1
            IN  /\ happened' = Append(happened, [kind |-> "fill", id |-> id, market |-> m,
                                                label |-> l])
                /\ feed' = Append(feed, [type |-> "fill", id |-> id, market |-> m,
                                         outcome |-> l, side |-> form.side,
                                         price |-> form.price, stamp |-> form.stamp])
        BY <1>3 DEF Fill, Happens
    <2>2. PICK l : LET id == Len(happened) + 1
            IN  /\ happened' = Append(happened, [kind |-> "fill", id |-> id, market |-> m,
                                                label |-> l])
                /\ feed' = Append(feed, [type |-> "fill", id |-> id, market |-> m,
                                         outcome |-> l, side |-> form.side,
                                         price |-> form.price, stamp |-> form.stamp])
        BY <2>1
    <2>3. PICK event, g :
            /\ event = [kind |-> "fill", id |-> Len(happened) + 1, market |-> m, label |-> l]
            /\ g = [type |-> "fill", id |-> Len(happened) + 1, market |-> m,
                    outcome |-> l, side |-> form.side, price |-> form.price,
                    stamp |-> form.stamp]
        OBVIOUS
    <2>4. /\ event.kind = "fill" /\ event.id = Len(happened) + 1
          /\ IsFill(g) /\ SentFor(g, event)
        BY <2>3 DEF IsFill, SentFor
    <2>5. happened' = Append(happened, event) /\ feed' = Append(feed, g)
        BY <2>2, <2>3
    <2>6. QED
        BY <1>1, <1>2, <2>4, <2>5, SentFills
<1>4. CASE OtherFrame
    <2>1. PICK event, g : event = [kind |-> "other"] /\ g = [type |-> "other"]
        OBVIOUS
    <2>2. happened' = Append(happened, event) /\ feed' = Append(feed, g)
        BY <1>4, <2>1 DEF OtherFrame, Happens
    <2>3. event.kind # "fill" /\ ~IsFill(g)
        BY <2>1 DEF IsFill
    <2>4. QED
        BY <1>1, <1>2, <2>2, <2>3, SentFills
<1>5. QED
    BY <1>3, <1>4

(* What a reconnection loses is remembered as lost.                          *)
LEMMA DropFills == FillInv /\ Drop => FillInv'
<1> SUFFICES ASSUME FillInv, Drop PROVE FillInv'
    OBVIOUS
<1>1. /\ feed' = <<>> /\ status = "open" /\ UNCHANGED <<spec, status, told, happened>>
      /\ missed'.fills = missed.fills \cup {f.id : f \in Frames(feed, "fill")}
    BY DEF Drop
<1>2. SUFFICES ASSUME spec.kind = "user"
               PROVE  Numbered' /\ FeedOfFills' /\ ToldOfFills' /\ NoneForgotten'
    BY <1>1 DEF FillInv
<1>3. Numbered /\ FeedOfFills /\ ToldOfFills /\ NoneForgotten
    BY <1>1, <1>2 DEF FillInv
<1>4. Happened("fill")' = Happened("fill")
    BY <1>1 DEF Happened
<1>5. Numbered' /\ ToldOfFills'
    BY <1>1, <1>3, <1>4 DEF Numbered, ToldOfFills, AskedFill
<1>6. FeedOfFills'
    BY <1>1 DEF FeedOfFills
<1>7. \A k \in DOMAIN feed : IsFill(feed[k]) => feed[k].id \in missed'.fills
    BY <1>1 DEF IsFill, Frames
<1>8. NoneForgotten'
    <2>1. SUFFICES ASSUME NEW e \in Happened("fill"), AskedFill(e), e.id \notin missed'.fills
                   PROVE  ToldTwice(told, e.id)
        BY <1>1, <1>4 DEF NoneForgotten, AskedFill
    <2>2. e.id \notin missed.fills
        BY <1>1, <2>1
    <2>3. \/ \E k \in DOMAIN feed : IsFill(feed[k]) /\ feed[k].id = e.id
          \/ ToldTwice(told, e.id)
        BY <1>3, <2>1, <2>2 DEF NoneForgotten
    <2>4. QED
        BY <1>7, <2>1, <2>3
<1>9. QED
    BY <1>5, <1>6, <1>8

(* The fills of an account are told, in every state. *)
THEOREM FillTheorem == Spec => []FillInv
<1>0. ASSUME happened = <<>>, told = <<>>, feed = <<>>
      PROVE  Numbered /\ FeedOfFills /\ ToldOfFills /\ NoneForgotten
    <2>1. Happened("fill") = {}
        BY <1>0 DEF Happened
    <2>2. QED
        BY <1>0, <2>1 DEF Numbered, FeedOfFills, ToldOfFills, NoneForgotten
<1>1. Init => FillInv
    BY <1>0 DEF Init, FillInv
<1>2. TypesInv /\ FillInv /\ [Next]_vars => FillInv'
    <2> SUFFICES ASSUME TypesInv, FillInv, [Next]_vars PROVE FillInv'
        OBVIOUS
    <2>1. CASE Subscribe
        <3>1. happened' = <<>> /\ told' = <<>> /\ feed' = <<>>
            BY <2>1 DEF Subscribe, TypesInv
        <3>2. Happened("fill")' = {}
            BY <3>1 DEF Happened
        <3>3. Numbered' /\ FeedOfFills' /\ ToldOfFills' /\ NoneForgotten'
            BY <3>1, <3>2 DEF Numbered, FeedOfFills, ToldOfFills, NoneForgotten
        <3>4. QED
            BY <3>3 DEF FillInv
    <2>2. CASE PriceMoves \/ Trade \/ Tick
        <3>1. spec.kind # "user" /\ spec' = spec
            BY <2>2 DEF PriceMoves, Trade, Tick, Happens
        <3>2. QED
            BY <3>1 DEF FillInv
    <2>3. CASE Done \/ UNCHANGED vars
        <3>1. UNCHANGED <<spec, status, feed, told, happened, missed>>
            BY <2>3 DEF Done, vars
        <3>2. Happened("fill")' = Happened("fill")
            BY <3>1 DEF Happened
        <3>3. /\ Numbered => Numbered'
              /\ FeedOfFills => FeedOfFills'
              /\ ToldOfFills => ToldOfFills'
              /\ NoneForgotten => NoneForgotten'
            BY <3>1, <3>2 DEF Numbered, FeedOfFills, ToldOfFills, NoneForgotten, AskedFill
        <3>4. QED
            BY <3>1, <3>3 DEF FillInv
    <2>4. QED
        BY <2>1, <2>2, <2>3, PumpFills, ServerFills, DropFills DEF Next
<1>3. QED
    BY <1>1, <1>2, TypesTheorem, PTL DEF Spec

(* A number and the next are two. *)
LEMMA PairOfNumbers ==
    ASSUME NEW k \in Nat
    PROVE  Cardinality({k, k + 1}) = 2
<1>1. IsFiniteSet({k}) /\ Cardinality({k}) = 1
    BY FS_Singleton
<1>2. k + 1 \notin {k} /\ {k} \cup {k + 1} = {k, k + 1}
    OBVIOUS
<1>3. Cardinality({k} \cup {k + 1}) = Cardinality({k}) + 1
    BY <1>1, <1>2, FS_AddElement
<1>4. QED
    BY <1>1, <1>2, <1>3

(* Every fill of the account in the markets asked for is told, as one trade  *)
(* and one update of its order, in the order of the fills; none twice, none  *)
(* of another market, and none whose outcome the server left out.            *)
LEMMA FillsTold == TypesInv /\ FillInv => FillsAreTold
<1> SUFFICES ASSUME TypesInv, FillInv, spec.kind = "user" PROVE FillsAreTold
    BY DEF FillsAreTold
<1>1. ToldOfFills /\ Numbered /\ (status = "open" => NoneForgotten) /\ IsSeq(happened)
      /\ IsSeq(told)
    BY DEF FillInv, TypesInv
<1>2. \A i, j \in DOMAIN told : i < j => told[i].id <= told[j].id
    BY <1>1 DEF ToldOfFills
<1>3. ASSUME status = "open", feed = <<>>, NEW f \in Happened("fill")
      PROVE  LET of == {i \in DOMAIN told : told[i].id = f.id}
                 meant == Admits(spec.filter, f.market) /\ f.label # ""
             IN  /\ of # {} => meant /\ Cardinality(of) = 2
                 /\ meant /\ f.id \notin missed.fills =>
                      {told[i].type : i \in of} = {"trade", "order"}
    <2> DEFINE of == {i \in DOMAIN told : told[i].id = f.id}
    <2>1. ASSUME NEW i \in of PROVE AskedFill(f) /\ ToldTwice(told, f.id)
        <3>1. PICK e \in Happened("fill") :
                e.id = told[i].id /\ AskedFill(e) /\ ToldTwice(told, e.id)
            BY <1>1, <2>1 DEF ToldOfFills
        <3>2. e = f
            BY <1>1, <2>1, <3>1, FillNumbers
        <3>3. QED
            BY <3>1, <3>2
    <2>2. ASSUME ToldTwice(told, f.id)
          PROVE  Cardinality(of) = 2 /\ {told[i].type : i \in of} = {"trade", "order"}
        <3>1. PICK k \in DOMAIN told : of = {k, k + 1} /\ told[k].type = "trade"
                                      /\ told[k + 1].type = "order"
            BY <2>2 DEF ToldTwice
        <3>2. k \in Nat
            BY <1>1 DEF IsSeq
        <3> HIDE DEF of
        <3>3. {told[i].type : i \in of} = {"trade", "order"}
            BY <3>1
        <3>4. Cardinality(of) = 2
            BY <3>1, <3>2, PairOfNumbers
        <3>5. QED
            BY <3>3, <3>4
    <2>3. of # {} => AskedFill(f) /\ Cardinality(of) = 2
        BY <2>1, <2>2
    <2>4. AskedFill(f) /\ f.id \notin missed.fills =>
             {told[i].type : i \in of} = {"trade", "order"}
        <3>1. SUFFICES ASSUME AskedFill(f), f.id \notin missed.fills PROVE ToldTwice(told, f.id)
            BY <2>2
        <3>2. DOMAIN feed = {}
            BY <1>3
        <3>3. QED
            BY <1>1, <1>3, <3>1, <3>2 DEF NoneForgotten
    <2>5. QED
        BY <2>3, <2>4 DEF AskedFill
<1>4. QED
    BY <1>2, <1>3 DEF FillsAreTold

(* The feed of an account and of an exchange is told whole, in order, and    *)
(* nothing of another is: whatever fills, ticks and reconnections came in    *)
(* between (the adapters of executions and spot prices, the pump).           *)
THEOREM FeedsHold == Spec => []FeedsAreToldWhole
<1>1. TypesInv /\ FillInv /\ TopicInv => FeedsAreToldWhole
    BY FillsTold, TopicsTold DEF FeedsAreToldWhole
<1>2. QED
    BY <1>1, TypesTheorem, FillTheorem, TopicTheorem, PTL
-----------------------------------------------------------------------------
(* How a subscription ends. *)

(* A blob can be told unless something of it that was asked for cannot be: a  *)
(* price, a side, or a time out of range.                                    *)
LEMMA PricesFail ==
    ASSUME NEW f, PriceFrame(f) \/ OtherKind(f), spec.kind = "market"
    PROVE  Adapted(f).ok <=> ~CannotBeTold(f)
<1>1. Adapted(f) = AdaptPricesFrame(f, spec.filter.ids) /\ NoTimes = {"huge"}
    BY DEF Adapted, NoTimes
<1>2. CASE OtherKind(f)
    <2>1. Adapted(f) = Made(<<>>)
        BY <1>1, <1>2 DEF OtherKind, AdaptPricesFrame
    <2>2. QED
        BY <1>2, <2>1 DEF OtherKind, CannotBeTold, Made
<1>3. CASE PriceFrame(f)
    <2>1. PICK m \in Markets : \E b, stamp : f = BlobFrame(m, b, stamp)
        BY <1>3 DEF PriceFrame
    <2>2. PICK b, stamp : f = BlobFrame(m, b, stamp)
        BY <2>1
    <2>w. PICK wanted : wanted = spec.filter.ids
        OBVIOUS
    <2>3. /\ f.type = "price" /\ f.market = m /\ f.side = b.side /\ f.stamp = stamp
          /\ DOMAIN f.outcomes = DOMAIN Labels[m]
          /\ \A i \in DOMAIN Labels[m] :
               f.outcomes[i] = EntryOf(m, b, i) /\ f.outcomes[i].label = Labels[m][i]
        BY <2>2 DEF BlobFrame, EntryOf
    <2>4. EpochMs(Emitted(f.stamp)) <=> f.stamp \notin {"huge"}
        BY DEF EpochMs, Emitted, None
    <2> DEFINE o(i) == f.outcomes[i]
               fails(i) ==
                 \/ o(i).price # None /\ (~Readable(o(i).price) \/ f.stamp \in {"huge"})
                 \/ /\ o(i).last # None /\ f.side # None
                    /\ \/ ~Readable(o(i).last) \/ ~ReadableSide(f.side)
                       \/ f.stamp \in {"huge"}
    <2>5. \A i \in DOMAIN Labels[m] : EntryCanBeMade(o(i), f) <=> ~fails(i)
        BY <2>4 DEF EntryCanBeMade
    <2>6. \A i \in DOMAIN Labels[m] :
            /\ m \o <<Upper(o(i).label)>> = TokenOf(m, i)
            /\ TokenOf(m, i) = MakeToken(m, Labels[m][i])
            /\ MakeToken(m, Labels[m][i]) # NoToken
        <3>1. TAKE i \in DOMAIN Labels[m]
        <3>2. m \o <<Upper(o(i).label)>> = TokenOf(m, i)
            BY <2>3 DEF TokenOf
        <3>3. TokenOf(m, i) = MakeToken(m, Labels[m][i]) /\ TokenOf(m, i) # NoToken
            BY TokensDiffer
        <3>4. QED
            BY <3>2, <3>3
    <2>7. CannotBeTold(f) <=>
            \E i \in DOMAIN f.outcomes :
                f.market \o <<Upper(o(i).label)>> \in spec.filter.ids /\ fails(i)
        BY <1>1, <2>3 DEF CannotBeTold
    <2>8. Adapted(f).ok <=>
            \A i \in DOMAIN Labels[m] :
                /\ MakeToken(m, Labels[m][i]) # NoToken
                /\ MakeToken(m, Labels[m][i]) \in wanted
                => EntryCanBeMade(EntryOf(m, b, i), f)
        BY <1>1, <2>2, <2>w, PricesAdapted
    <2>9. \A i \in DOMAIN Labels[m] : EntryOf(m, b, i) = o(i)
        BY <2>3
    <2> HIDE DEF fails, o
    <2>10. Adapted(f).ok <=>
             \A i \in DOMAIN Labels[m] : TokenOf(m, i) \in wanted => ~fails(i)
        BY <2>5, <2>6, <2>8, <2>9
    <2>11. CannotBeTold(f) <=>
             \E i \in DOMAIN Labels[m] : TokenOf(m, i) \in wanted /\ fails(i)
        BY <2>3, <2>6, <2>7, <2>w
    <2>12. QED
        BY <2>10, <2>11
<1>4. QED
    BY <1>2, <1>3

(* So can a fill: a missing side, price or time is no hindrance.             *)
LEMMA FillFails ==
    ASSUME NEW f, FillFrame(f) \/ OtherKind(f), spec.kind = "user"
    PROVE  Adapted(f).ok <=> ~CannotBeTold(f)
<1>1. Adapted(f) = AdaptExecutionFrame(f, spec.filter) /\ NoTimes = {"float", "huge"}
    BY DEF Adapted, NoTimes
<1>2. CASE OtherKind(f)
    <2>1. Adapted(f) = Made(<<>>)
        BY <1>1, <1>2 DEF OtherKind, AdaptExecutionFrame
    <2>2. QED
        BY <1>2, <2>1 DEF OtherKind, CannotBeTold, Made
<1>3. CASE FillFrame(f)
    <2>1. PICK m \in Markets : m = f.market
        BY <1>3 DEF FillFrame
    <2>2. f.type = "fill" /\ f.outcome \in Range(Labels[m]) \cup {""}
        BY <1>3, <2>1 DEF FillFrame
    <2>3. MakeToken(f.market, f.outcome) = NoToken <=> f.outcome = ""
        <3>1. f.outcome = "" => MakeToken(f.market, f.outcome) = NoToken
            BY DEF MakeToken
        <3>2. f.outcome # "" => MakeToken(f.market, f.outcome) # NoToken
            BY <2>1, <2>2, TokenTakenApart
        <3>3. QED
            BY <3>1, <3>2
    <2>4. EpochSecondsOrMs(FilledAt(f.stamp)) <=> f.stamp \notin {"float", "huge"}
        BY DEF EpochSecondsOrMs, FilledAt, None
    <2>5. CannotBeTold(f) <=>
            /\ f.outcome # "" /\ Admits(spec.filter, f.market)
            /\ ~FillCanBeMade(f)
        BY <1>1, <2>2, <2>4 DEF CannotBeTold, FillCanBeMade
    <2>6. CASE f.outcome = "" \/ ~Admits(spec.filter, f.market)
        <3>1. Adapted(f) = Made(<<>>)
            BY <1>1, <2>3, <2>6 DEF AdaptExecutionFrame
        <3>2. Adapted(f).ok = TRUE
            BY <3>1 DEF Made
        <3>3. ~CannotBeTold(f)
            BY <2>5, <2>6, Zenon
        <3>4. QED
            BY <3>2, <3>3
    <2>7. CASE f.outcome # "" /\ Admits(spec.filter, f.market)
        <3>1. CASE FillCanBeMade(f)
            <4>1. Adapted(f).ok = TRUE
                <5>1. \E events : Adapted(f) = Made(events)
                    BY <1>1, <2>2, <2>3, <2>7, <3>1 DEF AdaptExecutionFrame
                <5>2. QED
                    BY <5>1 DEF Made
            <4>2. ~CannotBeTold(f)
                BY <2>5, <3>1, Zenon
            <4>3. QED
                BY <4>1, <4>2
        <3>2. CASE ~FillCanBeMade(f)
            <4>1. Adapted(f) = Unmade
                BY <1>1, <2>2, <2>3, <2>7, <3>2 DEF AdaptExecutionFrame
            <4>2. Adapted(f).ok = FALSE
                BY <4>1 DEF Unmade
            <4>3. CannotBeTold(f)
                BY <2>5, <2>7, <3>2, Zenon
            <4>4. QED
                BY <4>2, <4>3
        <3>3. QED
            BY <3>1, <3>2
    <2>8. QED
        BY <2>6, <2>7
<1>4. QED
    BY <1>2, <1>3

(* So can an update, and a batch of which every update can be.               *)
LEMMA SpotFails ==
    ASSUME NEW f, SpotFrame(f) \/ OtherKind(f), spec.kind = "crypto",
           spec.topic \in Topics
    PROVE  Adapted(f).ok <=> ~CannotBeTold(f)
<1>1. /\ Adapted(f) = AdaptSpotFrame(f, spec)
      /\ NoTimes = {"float", "huge", "bad", "bool", "object"}
    BY DEF Adapted, NoTimes
<1>2. CASE OtherKind(f)
    <2>1. Adapted(f) = Made(<<>>)
        BY <1>1, <1>2 DEF OtherKind, AdaptSpotFrame
    <2>2. QED
        BY <1>2, <2>1 DEF OtherKind, CannotBeTold, Made
<1>3. CASE SpotFrame(f)
    <2>0. PICK batch \in Batches : \E type : f = [type |-> type, updates |-> batch]
                                     /\ type \in {"crypto_price", "crypto_price_batch"}
        BY <1>3 DEF SpotFrame
    <2>1. f.type \in {"crypto_price", "crypto_price_batch"} /\ f.updates = batch
        BY <2>0
    <2> DEFINE fails(u) == AskedFor(u) /\ (~Readable(u.price) \/ u.stamp \in NoTimes)
    <2>2. \A i \in DOMAIN batch : CryptoEventFor(batch[i], spec).ok <=> ~fails(batch[i])
        <3>1. TAKE i \in DOMAIN batch
        <3>2. PICK u : u = batch[i]
            OBVIOUS
        <3>3. EpochMsOrIso(u.stamp) <=> u.stamp \notin NoTimes
            <4>1. u.stamp \in {None, "datetime", "int", "digits", "iso", "float",
                               "huge", "bad", "bool", "object"}
                BY <3>2, BatchesAssumption
            <4>2. QED
                BY <1>1, <4>1 DEF EpochMsOrIso, None
        <3>4. TopicOf(u.source) = spec.topic <=> u.exchange = spec.topic
            BY <3>2, LabelsOfTopics
        <3>5. CASE AskedFor(u)
            <4>1. CryptoEventFor(u, spec).ok <=> EpochMsOrIso(u.stamp) /\ Readable(u.price)
                BY <3>4, <3>5 DEF AskedFor, CryptoEventFor, Made, Unmade
            <4>2. QED
                BY <3>2, <3>3, <3>5, <4>1
        <3>6. CASE ~AskedFor(u)
            <4>1. CryptoEventFor(u, spec) = Made(<<>>)
                BY <3>4, <3>6 DEF AskedFor, CryptoEventFor
            <4>2. QED
                BY <3>2, <3>6, <4>1 DEF Made
        <3>7. QED
            BY <3>5, <3>6
    <2>3. CannotBeTold(f) <=> \E i \in DOMAIN batch : fails(batch[i])
        BY <2>1 DEF CannotBeTold
    <2> DEFINE each == [i \in DOMAIN batch |-> CryptoEventFor(batch[i], spec)]
    <2>4. Adapted(f).ok <=> ~\E i \in DOMAIN each : ~each[i].ok
        <3>1. CASE \E i \in DOMAIN each : ~each[i].ok
            <4>1. Adapted(f) = Unmade
                BY <1>1, <2>1, <3>1 DEF AdaptSpotFrame
            <4>2. QED
                BY <3>1, <4>1 DEF Unmade
        <3>2. CASE ~\E i \in DOMAIN each : ~each[i].ok
            <4>1. Adapted(f) = Made(FlattenSeq([i \in DOMAIN each |-> each[i].events]))
                BY <1>1, <2>1, <3>2 DEF AdaptSpotFrame
            <4>2. QED
                BY <3>2, <4>1 DEF Made
        <3>3. QED
            BY <3>1, <3>2
    <2>5. QED
        BY <2>2, <2>3, <2>4
<1>4. QED
    BY <1>2, <1>3

(* The frame that cannot be told is the last one taken, and has ended the     *)
(* subscription.                                                             *)
EndsInv ==
    \A i \in DOMAIN taken :
        CannotBeTold(taken[i]) <=> status = "ended" /\ i = Len(taken)

LEMMA EndsStays ==
    ASSUME EndsInv, UNCHANGED <<spec, status, taken>>
    PROVE  EndsInv'
<1>1. NoTimes' = NoTimes
    BY DEF NoTimes
<1>2. \A g : CannotBeTold(g)' = CannotBeTold(g)
    BY <1>1 DEF CannotBeTold, AskedFor
<1>3. QED
    BY <1>2 DEF EndsInv

LEMMA PumpEnds == TypesInv /\ TopicInv /\ EndsInv /\ Pump => EndsInv'
<1> SUFFICES ASSUME TypesInv, TopicInv, EndsInv, Pump PROVE EndsInv'
    OBVIOUS
<1>f. PICK f : f = Head(feed)
    OBVIOUS
<1>1. /\ status = "open" /\ feed # <<>> /\ taken' = Append(taken, f)
      /\ status' = (IF Adapted(f).ok THEN "open" ELSE "ended")
    BY <1>f DEF Pump
<1>2. spec' = spec
    BY DEF Pump
<1>3. IsSeq(feed) /\ IsSeq(taken) /\ spec.kind \in Kinds
    BY DEF TypesInv
<1>4. InFlight(f)
    <2>1. f \in Range(feed)
        BY <1>f, <1>1, <1>3, Taken
    <2>2. QED
        BY <2>1 DEF TypesInv
<1>5. Adapted(f).ok <=> ~CannotBeTold(f)
    <2>1. CASE spec.kind = "market"
        BY <1>4, <2>1, PricesFail DEF InFlight
    <2>2. CASE spec.kind = "user"
        BY <1>4, <2>2, FillFails DEF InFlight
    <2>3. CASE spec.kind = "crypto"
        <3>1. spec.topic \in Topics
            BY <1>1, <2>3 DEF TopicInv
        <3>2. QED
            BY <1>4, <2>3, <3>1, SpotFails DEF InFlight
    <2>4. QED
        BY <1>3, <2>1, <2>2, <2>3 DEF Kinds
<1>6. /\ Len(taken) \in Nat /\ Len(taken') = Len(taken) + 1
      /\ DOMAIN taken = 1..Len(taken) /\ DOMAIN taken' = 1..(Len(taken) + 1)
      /\ \A k \in DOMAIN taken : taken'[k] = taken[k]
      /\ taken'[Len(taken) + 1] = f
    BY <1>1, <1>3, Added
<1>7. \A g : CannotBeTold(g)' <=> CannotBeTold(g)
    BY <1>2 DEF CannotBeTold, AskedFor, NoTimes
<1>8. \A i \in DOMAIN taken : ~CannotBeTold(taken[i])
    BY <1>1 DEF EndsInv
<1>9. QED
    BY <1>1, <1>5, <1>6, <1>7, <1>8 DEF EndsInv

(* Whatever frames come, whatever is in them and whatever is lost, a          *)
(* subscription ends at the first frame in which something it asked for      *)
(* cannot be told, and at no other (the validators of the events, the pump). *)
THEOREM EndsHold == Spec => []EndsAtWhatItAskedFor
<1>1. Init => EndsInv
    BY DEF Init, EndsInv
<1>2. TypesInv /\ TopicInv /\ EndsInv /\ [Next]_vars => EndsInv'
    <2> SUFFICES ASSUME TypesInv, TopicInv, EndsInv, [Next]_vars PROVE EndsInv'
        OBVIOUS
    <2>1. CASE Subscribe
        <3>1. taken' = <<>>
            BY <2>1 DEF Subscribe, TypesInv
        <3>2. QED
            BY <3>1 DEF EndsInv
    <2>2. CASE Pump
        BY <2>2, PumpEnds
    <2>3. CASE PriceMoves \/ Trade \/ Fill \/ Tick \/ OtherFrame \/ Drop \/ Done
               \/ UNCHANGED vars
        <3>1. UNCHANGED <<spec, status, taken>>
            BY <2>3 DEF PriceMoves, Trade, Fill, Tick, OtherFrame, Drop, Done, vars, Happens
        <3>2. QED
            BY <3>1, EndsStays
    <2>4. QED
        BY <2>1, <2>2, <2>3 DEF Next
<1>3. EndsInv => EndsAtWhatItAskedFor
    BY DEF EndsInv, EndsAtWhatItAskedFor
<1>4. QED
    BY <1>1, <1>2, <1>3, TypesTheorem, TopicTheorem, PTL DEF Spec
===============================================================================
