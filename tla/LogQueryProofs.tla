--------------------------- MODULE LogQueryProofs ---------------------------
(***************************************************************************)
(* What LogQuery answers, for every log, every query and every value of    *)
(* the constants: the places of the matching entries, and the page.        *)
(***************************************************************************)
EXTENDS LogQuery, FiniteSetTheorems, SequenceTheorems, TLAPS

-----------------------------------------------------------------------------
(* Places in a finite set that a relation orders. *)

StrictOrder(R, S) ==
  /\ \A i \in S : <<i, i>> \notin R
  /\ \A i, j, k \in S : <<i, j>> \in R /\ <<j, k>> \in R => <<i, k>> \in R
  /\ \A i, j \in S : i # j => <<i, j>> \in R \/ <<j, i>> \in R

Before(R, S, i) == {j \in S : <<j, i>> \in R}
PlaceIn(R, S, i) == Cardinality(Before(R, S, i))

LEMMA PlaceBounds ==
  ASSUME NEW S, IsFiniteSet(S), NEW R, StrictOrder(R, S), NEW i \in S
  PROVE  PlaceIn(R, S, i) \in 0..(Cardinality(S) - 1)
<1>1. Before(R, S, i) \in SUBSET (S \ {i})
  BY DEF Before, StrictOrder
<1>2. IsFiniteSet(S \ {i}) /\ Cardinality(S \ {i}) = Cardinality(S) - 1
  BY FS_RemoveElement
<1>3. /\ Cardinality(Before(R, S, i)) <= Cardinality(S \ {i})
      /\ IsFiniteSet(Before(R, S, i))
  BY <1>1, <1>2, FS_Subset
<1>4. Cardinality(Before(R, S, i)) \in Nat /\ Cardinality(S) \in Nat
  BY <1>3, FS_CardinalityType
<1> QED
  BY <1>2, <1>3, <1>4 DEF PlaceIn

LEMMA PlaceGrows ==
  ASSUME NEW S, IsFiniteSet(S), NEW R, StrictOrder(R, S),
         NEW i \in S, NEW j \in S, <<i, j>> \in R
  PROVE  PlaceIn(R, S, i) < PlaceIn(R, S, j)
<1>1. Before(R, S, i) \in SUBSET Before(R, S, j)
  BY DEF Before, StrictOrder
<1>2. i \in Before(R, S, j) /\ i \notin Before(R, S, i)
  BY DEF Before, StrictOrder
<1>3. IsFiniteSet(Before(R, S, j))
  BY FS_Subset DEF Before
<1>4. /\ IsFiniteSet(Before(R, S, i))
      /\ Cardinality(Before(R, S, i)) <= Cardinality(Before(R, S, j))
      /\ Cardinality(Before(R, S, i)) # Cardinality(Before(R, S, j))
  BY <1>1, <1>2, <1>3, FS_Subset
<1>5. Cardinality(Before(R, S, i)) \in Nat /\ Cardinality(Before(R, S, j)) \in Nat
  BY <1>3, <1>4, FS_CardinalityType
<1> QED
  BY <1>4, <1>5 DEF PlaceIn

LEMMA PlacesDiffer ==
  ASSUME NEW S, IsFiniteSet(S), NEW R, StrictOrder(R, S),
         NEW i \in S, NEW j \in S, PlaceIn(R, S, i) = PlaceIn(R, S, j)
  PROVE  i = j
<1> SUFFICES ASSUME i # j PROVE FALSE
  OBVIOUS
<1>1. PlaceIn(R, S, i) \in Int /\ PlaceIn(R, S, j) \in Int
  BY PlaceBounds
<1>2. <<i, j>> \in R \/ <<j, i>> \in R
  BY DEF StrictOrder
<1>3. PlaceIn(R, S, i) < PlaceIn(R, S, j) \/ PlaceIn(R, S, j) < PlaceIn(R, S, i)
  BY <1>2, PlaceGrows
<1> QED
  BY <1>1, <1>3

(* Every place is taken. *)
LEMMA EveryPlaceIsTaken ==
  ASSUME NEW S, IsFiniteSet(S), NEW R, StrictOrder(R, S),
         NEW n \in 0..(Cardinality(S) - 1)
  PROVE  \E i \in S : PlaceIn(R, S, i) = n
<1> DEFINE T == 0..(Cardinality(S) - 1)
<1> DEFINE f == [i \in S |-> PlaceIn(R, S, i)]
<1>1. f \in [S -> T]
  BY PlaceBounds
<1>2. \A i, j \in S : f[i] = f[j] => i = j
  BY PlacesDiffer
<1>3. Cardinality(S) \in Nat
  BY FS_CardinalityType
<1>4. IsFiniteSet(T) /\ Cardinality(T) = Cardinality(S)
  BY <1>3, FS_Interval
<1> HIDE DEF T
<1>5. f \in Injection(S, T)
  BY <1>1, <1>2 DEF Injection, IsInjective
<1>6. f \in Surjection(S, T)
  BY <1>4, <1>5, FS_Injection
<1>7. n \in T
  BY DEF T
<1> QED
  BY <1>6, <1>7 DEF Surjection

-----------------------------------------------------------------------------
(* The order in which entries are answered. *)

(* A set of positions in a log whose times are numbers. *)
Positioned(log, S) ==
  /\ IsFiniteSet(S)
  /\ S \subseteq Int
  /\ \A i \in S : log[i].time \in Int

OrderOn(log, order, S) ==
  {e \in S \X S : Precedes(log, order, e[1], e[2])}

(* How many others are answered before the entry. *)
Place(log, order, S, i) == Cardinality({j \in S : Precedes(log, order, j, i)})

LEMMA PrecedesIsStrict ==
  ASSUME NEW log, NEW order, NEW S, Positioned(log, S)
  PROVE  /\ StrictOrder(OrderOn(log, order, S), S)
         /\ \A i \in S : Place(log, order, S, i) = PlaceIn(OrderOn(log, order, S), S, i)
<1> DEFINE R == OrderOn(log, order, S)
<1>1. \A i, j \in S : <<i, j>> \in R <=> Precedes(log, order, i, j)
  BY DEF OrderOn
<1>2. \A i \in S : i \in Int /\ log[i].time \in Int
  BY DEF Positioned
<1>3. ASSUME NEW i \in S PROVE <<i, i>> \notin R
  <2>1. ~Precedes(log, order, i, i)
    BY <1>2 DEF Precedes
  <2> QED
    BY <1>1, <2>1
<1>4. ASSUME NEW i \in S, NEW j \in S, NEW k \in S, <<i, j>> \in R, <<j, k>> \in R
      PROVE  <<i, k>> \in R
  <2>1. Precedes(log, order, i, j) /\ Precedes(log, order, j, k)
    BY <1>1, <1>4
  <2>2. Precedes(log, order, i, k)
    BY <1>2, <2>1 DEF Precedes
  <2> QED
    BY <1>1, <2>2
<1>5. ASSUME NEW i \in S, NEW j \in S, i # j
      PROVE  <<i, j>> \in R \/ <<j, i>> \in R
  <2>1. Precedes(log, order, i, j) \/ Precedes(log, order, j, i)
    BY <1>2, <1>5 DEF Precedes
  <2> QED
    BY <1>1, <2>1
<1>6. ASSUME NEW i \in S
      PROVE  Place(log, order, S, i) = PlaceIn(R, S, i)
  <2>1. {j \in S : Precedes(log, order, j, i)} = Before(R, S, i)
    BY <1>1 DEF Before
  <2> QED
    BY <2>1 DEF Place, PlaceIn
<1> HIDE DEF R
<1>7. StrictOrder(R, S)
  BY <1>3, <1>4, <1>5 DEF StrictOrder
<1> QED
  BY <1>6, <1>7 DEF R

LEMMA UpTo ==
  ASSUME NEW m \in Nat
  PROVE  IsFiniteSet(1..m) /\ Cardinality(1..m) = m
<1>1. 1 \in Int /\ m \in Int
  OBVIOUS
<1>2. IsFiniteSet(1..m) /\ Cardinality(1..m) = IF 1 > m THEN 0 ELSE m - 1 + 1
  BY <1>1, FS_Interval, Zenon
<1> QED
  BY <1>2

Taken(log, order, S, n) == \E i \in S : Place(log, order, S, i) = n

LEMMA PlaceTaken ==
  ASSUME NEW log, NEW order, NEW S, Positioned(log, S), NEW n \in 0..(Cardinality(S) - 1)
  PROVE  Taken(log, order, S, n)
<1> DEFINE R == OrderOn(log, order, S)
<1>1. StrictOrder(R, S) /\ IsFiniteSet(S)
  BY PrecedesIsStrict DEF Positioned
<1>2. \A i \in S : Place(log, order, S, i) = PlaceIn(R, S, i)
  BY PrecedesIsStrict
<1> HIDE DEF R
<1>3. \E i \in S : PlaceIn(R, S, i) = n
  BY <1>1, EveryPlaceIsTaken
<1> QED
  BY <1>2, <1>3 DEF Taken

LEMMA Places ==
  ASSUME NEW log, NEW order, NEW S, Positioned(log, S)
  PROVE  /\ \A i \in S : Place(log, order, S, i) \in 0..(Cardinality(S) - 1)
         /\ \A i, j \in S : Place(log, order, S, i) = Place(log, order, S, j) => i = j
         /\ \A i, j \in S : Precedes(log, order, i, j) =>
              Place(log, order, S, i) < Place(log, order, S, j)
<1> DEFINE R == OrderOn(log, order, S)
<1>1. StrictOrder(R, S) /\ IsFiniteSet(S)
  BY PrecedesIsStrict DEF Positioned
<1>2. \A i \in S : Place(log, order, S, i) = PlaceIn(R, S, i)
  BY PrecedesIsStrict
<1>3. \A i, j \in S : Precedes(log, order, i, j) => <<i, j>> \in R
  BY DEF OrderOn
<1> HIDE DEF R
<1>4. \A i \in S : PlaceIn(R, S, i) \in 0..(Cardinality(S) - 1)
  BY <1>1, PlaceBounds, Zenon
<1>5. \A i, j \in S : PlaceIn(R, S, i) = PlaceIn(R, S, j) => i = j
  BY <1>1, PlacesDiffer, Zenon
<1>6. \A i, j \in S : <<i, j>> \in R => PlaceIn(R, S, i) < PlaceIn(R, S, j)
  BY <1>1, PlaceGrows, Zenon
<1> QED
  BY <1>2, <1>3, <1>4, <1>5, <1>6, Zenon

(* The n-th entry that is answered is the one with n - 1 before it. *)
LEMMA InOrderIs ==
  ASSUME NEW log, NEW order, NEW S, Positioned(log, S)
  PROVE  /\ InOrder(log, order, S) \in Seq(S)
         /\ Len(InOrder(log, order, S)) = Cardinality(S)
         /\ \A n \in 1..Cardinality(S) :
              /\ InOrder(log, order, S)[n] \in S
              /\ Place(log, order, S, InOrder(log, order, S)[n]) = n - 1
<1> DEFINE answer == InOrder(log, order, S)
<1>0. Cardinality(S) \in Nat
  BY FS_CardinalityType DEF Positioned
<1>1. answer = [n \in 1..Cardinality(S) |-> CHOOSE i \in S : Place(log, order, S, i) = n - 1]
  BY DEF InOrder, Place
<1>5. ASSUME NEW k \in 0..(Cardinality(S) - 1)
      PROVE  Taken(log, order, S, k)
  BY PlaceTaken
<1>2. ASSUME NEW n \in 1..Cardinality(S)
      PROVE  answer[n] \in S /\ Place(log, order, S, answer[n]) = n - 1
  <2>1. n - 1 \in 0..(Cardinality(S) - 1)
    BY <1>0
  <2>2. \E i \in S : Place(log, order, S, i) = n - 1
    BY <1>5, <2>1 DEF Taken
  <2>3. answer[n] = CHOOSE i \in S : Place(log, order, S, i) = n - 1
    BY <1>1
  <2> HIDE DEF answer
  <2> QED
    BY <2>2, <2>3
<1>3. answer \in [1..Cardinality(S) -> S]
  BY <1>1, <1>2
<1>4. answer \in Seq(S) /\ Len(answer) = Cardinality(S)
  BY <1>0, <1>3
<1> QED
  BY <1>2, <1>4

-----------------------------------------------------------------------------
(* Pages. *)

LEMMA LeastOfBounds ==
  ASSUME NEW a \in Nat, NEW b \in Nat
  PROVE  /\ LeastOf(a, b) \in Nat /\ LeastOf(a, b) <= a /\ LeastOf(a, b) <= b
         /\ LeastOf(a, b) = a \/ LeastOf(a, b) = b
BY DEF LeastOf

(* The entries from one place to another. *)
Between(log, order, S, from, to) ==
  {i \in S : from <= Place(log, order, S, i) /\ Place(log, order, S, i) < to}

Elements(seq) == {seq[n] : n \in DOMAIN seq}
Part(log, order, S, from, to) == SubSeq(InOrder(log, order, S), from + 1, to)

(* A part of the answer holds the entries of its places, each once. *)
LEMMA PartOfAnswer ==
  ASSUME NEW log, NEW order, NEW S, Positioned(log, S),
         NEW from \in Nat, NEW to \in Nat, from <= to, to <= Cardinality(S)
  PROVE  /\ Part(log, order, S, from, to) \in Seq(S)
         /\ Len(Part(log, order, S, from, to)) = to - from
         /\ Elements(Part(log, order, S, from, to)) = Between(log, order, S, from, to)
         /\ Cardinality(Between(log, order, S, from, to)) = to - from
         /\ \A n \in 1..(to - from) :
              /\ Part(log, order, S, from, to)[n] \in S
              /\ Place(log, order, S, Part(log, order, S, from, to)[n]) = from + n - 1
<1> DEFINE answer == InOrder(log, order, S)
<1> DEFINE part == SubSeq(answer, from + 1, to)
<1> DEFINE B == Between(log, order, S, from, to)
<1> DEFINE m == to - from
<1>0. Cardinality(S) \in Nat /\ m \in Nat
  BY FS_CardinalityType DEF Positioned
<1>1. /\ answer \in Seq(S) /\ Len(answer) = Cardinality(S)
      /\ \A n \in 1..Cardinality(S) :
           answer[n] \in S /\ Place(log, order, S, answer[n]) = n - 1
  BY InOrderIs
<1> HIDE DEF answer
<1>2. /\ part \in Seq(S) /\ Len(part) = m
      /\ \A n \in 1..m : part[n] = answer[from + n]
  <2>1. \A i \in (from + 1)..to : answer[i] \in S
    BY <1>0, <1>1
  <2>2. /\ part \in Seq(S)
        /\ Len(part) = IF from + 1 <= to THEN to - (from + 1) + 1 ELSE 0
        /\ \A i \in 1..(to - (from + 1) + 1) : part[i] = answer[(from + 1) + i - 1]
    BY <2>1, SubSeqProperties
  <2> HIDE DEF part
  <2>3. Len(part) = m
    BY <2>2
  <2>4. to - (from + 1) + 1 = m
    OBVIOUS
  <2>5. \A i \in 1..m : (from + 1) + i - 1 = from + i
    OBVIOUS
  <2> QED
    BY <2>2, <2>3, <2>4, <2>5
<1> HIDE DEF part
<1>3. ASSUME NEW n \in 1..m
      PROVE  part[n] \in S /\ Place(log, order, S, part[n]) = from + n - 1
  <2>1. from + n \in 1..Cardinality(S)
    BY <1>0
  <2>2. part[n] = answer[from + n]
    BY <1>2
  <2> DEFINE k == from + n
  <2> HIDE DEF k
  <2>3. answer[k] \in S /\ Place(log, order, S, answer[k]) = k - 1
    BY <1>1, <2>1 DEF k
  <2> QED
    BY <2>2, <2>3 DEF k
<1>4. \A n \in 1..m : part[n] \in B
  BY <1>0, <1>3 DEF Between
<1>5. ASSUME NEW i \in B PROVE \E n \in 1..m : part[n] = i
  <2> DEFINE p == Place(log, order, S, i)
  <2>1. i \in S /\ from <= p /\ p < to
    BY DEF Between
  <2>2. p \in Nat
    BY <2>1, Places, <1>0
  <2> HIDE DEF p
  <2>3. p - from + 1 \in 1..m /\ from + (p - from + 1) - 1 = p
    BY <2>1, <2>2
  <2>4. Place(log, order, S, part[p - from + 1]) = p /\ part[p - from + 1] \in S
    BY <1>3, <2>3
  <2>5. part[p - from + 1] = i
    <3> DEFINE j == part[p - from + 1]
    <3>1. j \in S /\ Place(log, order, S, j) = Place(log, order, S, i)
      BY <2>4 DEF p
    <3> HIDE DEF j
    <3>2. j = i
      BY <2>1, <3>1, Places
    <3> QED
      BY <3>2 DEF j
  <2> QED
    BY <2>3, <2>5
<1>6. DOMAIN part = 1..m
  BY <1>2
<1>7. Elements(part) = B
  BY <1>4, <1>5, <1>6 DEF Elements
<1>8. Cardinality(B) = m
  <2> DEFINE f == [n \in 1..m |-> part[n]]
  <2>1. f \in [1..m -> B]
    BY <1>4
  <2>2. ASSUME NEW a \in 1..m, NEW b \in 1..m, f[a] = f[b] PROVE a = b
    <3>1. from + a - 1 = from + b - 1
      BY <1>3, <2>2
    <3> QED
      BY <3>1
  <2>3. \A i \in B : \E n \in 1..m : f[n] = i
    BY <1>5
  <2> HIDE DEF B
  <2>4. f \in Bijection(1..m, B)
    BY <2>1, <2>2, <2>3 DEF Bijection, Injection, IsInjective, Surjection
  <2>5. ExistsBijection(1..m, B)
    BY <2>4 DEF ExistsBijection
  <2>6. IsFiniteSet(1..m) /\ Cardinality(1..m) = m
    BY <1>0, UpTo
  <2> QED
    BY <2>5, <2>6, FS_Bijection
<1> QED
  BY <1>2, <1>3, <1>7, <1>8 DEF Part, part, answer

(* A query whose limit and offset are numbers, as validation leaves them. *)
Queries(query) ==
  /\ DOMAIN query = DOMAIN DefaultLogQuery
  /\ query.limit \in Nat /\ query.offset \in Nat

PageLimit(query) == LeastOf(query.limit, MaxLimit)

(* The entries that the page of a query holds. *)
OnPage(log, query, now) ==
  Between(log, query.order, Matching(log, query, now), query.offset,
          query.offset + PageLimit(query))

LEMMA ClippedKeeps ==
  ASSUME NEW query, DOMAIN query = DOMAIN DefaultLogQuery
  PROVE  LET q == Clipped(query) IN
         /\ q.limit = PageLimit(query) /\ q.offset = query.offset /\ q.order = query.order
         /\ q.source = query.source /\ q.level = query.level /\ q.keywords = query.keywords
         /\ q.start = query.start /\ q.end = query.end
<1>1. DOMAIN DefaultLogQuery =
        {"source", "level", "keywords", "start", "end", "limit", "offset", "order"}
  BY DEF DefaultLogQuery
<1> QED
  BY <1>1 DEF Clipped, PageLimit

LEMMA ClippedMatches ==
  ASSUME NEW log, NEW now, NEW query, DOMAIN query = DOMAIN DefaultLogQuery
  PROVE  Matching(log, Clipped(query), now) = Matching(log, query, now)
BY ClippedKeeps DEF Matching, Matches, TimeRange

(* The parts of the answer that a page begins and ends with. *)
PageFrom(query, total) == LeastOf(query.offset, total)
PageTo(query, total) == LeastOf(PageFrom(query, total) + PageLimit(query), total)

(* The page is a part of all matching entries in order. *)
LEMMA QueryIsPart ==
  ASSUME NEW log, NEW now, NEW query, Queries(query),
         Positioned(log, Matching(log, query, now))
  PROVE  LET found == Matching(log, query, now)
             total == Cardinality(found)
             from == PageFrom(query, total)
             to == PageTo(query, total) IN
         /\ total \in Nat /\ PageLimit(query) \in Nat
         /\ from \in Nat /\ from <= total /\ from <= query.offset
         /\ from = total \/ from = query.offset
         /\ to \in Nat /\ from <= to /\ to <= total /\ to <= from + PageLimit(query)
         /\ to = total \/ to = from + PageLimit(query)
         /\ Query(log, query, now).total = total
         /\ Query(log, query, now).items = Part(log, query.order, found, from, to)
<1> DEFINE q == Clipped(query)
<1> DEFINE found == Matching(log, query, now)
<1> DEFINE total == Cardinality(found)
<1> DEFINE from == LeastOf(query.offset, total)
<1> DEFINE n == PageLimit(query)
<1> DEFINE to == LeastOf(from + n, total)
<1> DEFINE items == SubSeq(InOrder(log, query.order, found), from + 1, to)
<1>1. total \in Nat
  BY FS_CardinalityType DEF Positioned
<1>2. /\ from \in Nat /\ from <= total /\ from <= query.offset
      /\ from = total \/ from = query.offset
  BY <1>1, LeastOfBounds DEF Queries
<1>3. n \in Nat
  BY LeastOfBounds, LimitAssumption DEF Queries, PageLimit
<1>4. /\ to \in Nat /\ to <= total /\ to <= from + n
      /\ to = total \/ to = from + n
  <2>1. from + n \in Nat
    BY <1>2, <1>3
  <2> QED
    BY <1>1, <2>1, LeastOfBounds
<1>5. from <= to
  BY <1>1, <1>2, <1>3, <1>4
<1>6. Query(log, query, now).total = total /\ Query(log, query, now).items = items
  <2>1. /\ q.limit = n /\ q.offset = query.offset /\ q.order = query.order
        /\ Matching(log, q, now) = found
    BY ClippedKeeps, ClippedMatches DEF Queries
  <2>2. PageBegin(q, total) = from /\ PageEnd(q, total) = to
    BY <2>1 DEF PageBegin, PageEnd
  <2> HIDE DEF q, found
  <2>3. Query(log, query, now) =
          [total |-> total,
           limit |-> LeastOf(IF q.limit = 0 THEN DefaultLimit ELSE q.limit, total),
           items |-> SubSeq(InOrder(log, q.order, found), PageBegin(q, total) + 1, PageEnd(q, total))]
    BY <2>1 DEF Query, q
  <2> DEFINE limit == LeastOf(IF q.limit = 0 THEN DefaultLimit ELSE q.limit, total)
  <2> DEFINE part == SubSeq(InOrder(log, q.order, found), PageBegin(q, total) + 1, PageEnd(q, total))
  <2>5. Query(log, query, now) = [total |-> total, limit |-> limit, items |-> part]
    BY <2>3
  <2> HIDE DEF limit, part, total
  <2>6. Query(log, query, now).total = total /\ Query(log, query, now).items = part
    BY <2>5
  <2>4. /\ Query(log, query, now).total = total
        /\ Query(log, query, now).items =
             SubSeq(InOrder(log, q.order, found), PageBegin(q, total) + 1, PageEnd(q, total))
    BY <2>6 DEF part
  <2> HIDE DEF from, to
  <2> QED
    BY <2>1, <2>2, <2>4, Zenon
<1>7. from = PageFrom(query, total) /\ to = PageTo(query, total)
      /\ items = Part(log, query.order, found, from, to)
  BY DEF PageFrom, PageTo, Part
<1> HIDE DEF items, from, to, n, total, found
<1> QED
  BY <1>1, <1>2, <1>3, <1>4, <1>5, <1>6, <1>7 DEF total, found, n

(* The answer: the number of matching entries, and those whose places the   *)
(* page stands for, each once (memory_log_store.go:121-181).                *)
THEOREM QueryAnswers ==
  ASSUME NEW log, NEW now, NEW query, Queries(query),
         Positioned(log, Matching(log, query, now))
  PROVE  LET answer == Query(log, query, now)
             found == Matching(log, query, now) IN
         /\ answer.total = Cardinality(found)
         /\ answer.items \in Seq(found)
         /\ Elements(answer.items) = OnPage(log, query, now)
         /\ Len(answer.items) = Cardinality(OnPage(log, query, now))
         /\ Len(answer.items) = LeastOf(LeastOf(query.offset, Cardinality(found)) + PageLimit(query),
                                        Cardinality(found))
                                - LeastOf(query.offset, Cardinality(found))
<1> DEFINE found == Matching(log, query, now)
<1> DEFINE total == Cardinality(found)
<1> DEFINE from == PageFrom(query, total)
<1> DEFINE n == PageLimit(query)
<1> DEFINE to == PageTo(query, total)
<1> DEFINE items == Part(log, query.order, found, from, to)
<1>1. total \in Nat /\ n \in Nat
  BY QueryIsPart
<1>2. /\ from \in Nat /\ from <= total /\ from <= query.offset
      /\ from = total \/ from = query.offset
  BY QueryIsPart
<1>4. /\ to \in Nat /\ from <= to /\ to <= total /\ to <= from + n
      /\ to = total \/ to = from + n
  BY QueryIsPart
<1>6. Query(log, query, now).total = total /\ Query(log, query, now).items = items
  BY QueryIsPart
<1>7. Between(log, query.order, found, from, to) = OnPage(log, query, now)
  <2>1. ASSUME NEW i \in found
        PROVE  LET p == Place(log, query.order, found, i) IN
               (from <= p /\ p < to) <=> (query.offset <= p /\ p < query.offset + n)
    <3> DEFINE p == Place(log, query.order, found, i)
    <3>1. p \in 0..(total - 1)
      BY Places
    <3>2. query.offset \in Nat
      BY DEF Queries
    <3> HIDE DEF p, total, from, n, to
    <3> QED
      BY <1>1, <1>2, <1>4, <3>1, <3>2 DEF p
  <2> HIDE DEF found, from, to, n
  <2>2. OnPage(log, query, now) =
          Between(log, query.order, found, query.offset, query.offset + n)
    BY DEF OnPage, found, n
  <2> QED
    BY <2>1, <2>2 DEF Between
<1> HIDE DEF from, to, n
<1>8. /\ items \in Seq(found) /\ Len(items) = to - from
      /\ Elements(items) = Between(log, query.order, found, from, to)
      /\ Cardinality(Between(log, query.order, found, from, to)) = to - from
  <2>1. Positioned(log, found) /\ to <= Cardinality(found)
    BY <1>4
  <2> HIDE DEF found, from, to
  <2> QED
    BY <1>2, <1>4, <2>1, PartOfAnswer
<1> HIDE DEF items
<1> QED
  BY <1>6, <1>7, <1>8 DEF from, to, n, PageFrom, PageTo

(* A page is in the order that was asked for: an entry precedes every later *)
(* one of the page (memory_log_store.go:157-163; of entries of one time,    *)
(* the one that is stored first, as long as sort.Slice is stable).          *)
THEOREM PagesAreInOrder ==
  ASSUME NEW log, NEW now, NEW query, Queries(query),
         Positioned(log, Matching(log, query, now))
  PROVE  LET items == Query(log, query, now).items IN
         \A a, b \in DOMAIN items : a < b => Precedes(log, query.order, items[a], items[b])
<1> DEFINE found == Matching(log, query, now)
<1> DEFINE from == PageFrom(query, Cardinality(found))
<1> DEFINE to == PageTo(query, Cardinality(found))
<1> DEFINE items == Part(log, query.order, found, from, to)
<1>1. Query(log, query, now).items = items
  BY QueryIsPart
<1>2. from \in Nat /\ to \in Nat /\ from <= to /\ to <= Cardinality(found)
  BY QueryIsPart
<1> HIDE DEF found, from, to
<1>3. Positioned(log, found)
  BY DEF found
<1>4. /\ items \in Seq(found) /\ Len(items) = to - from
      /\ \A n \in 1..(to - from) :
           items[n] \in found /\ Place(log, query.order, found, items[n]) = from + n - 1
  BY <1>2, <1>3, PartOfAnswer
<1> HIDE DEF items
<1>5. ASSUME NEW a \in DOMAIN items, NEW b \in DOMAIN items, a < b
      PROVE  Precedes(log, query.order, items[a], items[b])
  <2> DEFINE i == items[a]
  <2> DEFINE j == items[b]
  <2>1. /\ a \in 1..(to - from) /\ b \in 1..(to - from)
        /\ i \in found /\ Place(log, query.order, found, i) = from + a - 1
        /\ j \in found /\ Place(log, query.order, found, j) = from + b - 1
    BY <1>4
  <2>2. Place(log, query.order, found, i) < Place(log, query.order, found, j)
    BY <1>2, <1>5, <2>1
  <2> HIDE DEF i, j
  <2>3. i # j /\ ~Precedes(log, query.order, j, i)
    <3>1. Precedes(log, query.order, j, i) =>
            Place(log, query.order, found, j) < Place(log, query.order, found, i)
      BY <1>3, <2>1, Places
    <3> QED
      BY <1>2, <2>1, <2>2, <3>1
  <2>4. i \in Int /\ j \in Int /\ log[i].time \in Int /\ log[j].time \in Int
    BY <1>3, <2>1 DEF Positioned
  <2>5. Precedes(log, query.order, i, j)
    BY <2>3, <2>4 DEF Precedes
  <2> QED
    BY <2>5 DEF i, j
<1> QED
  BY <1>1, <1>5
=============================================================================
