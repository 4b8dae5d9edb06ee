-------------------------- MODULE LogReadersProofs --------------------------
(***************************************************************************)
(* Proofs about LogReaders, for every value of its constants: what a       *)
(* client that turns pages of a changing log misses and sees twice.        *)
(***************************************************************************)
EXTENDS LogReaders, LogQueryProofs

-----------------------------------------------------------------------------
(* One entry more. *)

Entry == [id : Ids, time : Nat, source : STRING, level : STRING, words : SUBSET STRING]

(* big is small with the entry e after the first p. *)
Inserted(small, p, e, big) ==
  /\ small \in Seq(Entry) /\ big \in Seq(Entry) /\ p \in 0..Len(small)
  /\ Len(big) = Len(small) + 1
  /\ big[p + 1] = e
  /\ \A i \in 1..p : big[i] = small[i]
  /\ \A i \in (p + 1)..Len(small) : big[i + 1] = small[i]

(* Where an entry is afterwards. *)
Shift(p, i) == IF i <= p THEN i ELSE i + 1

LEMMA PutInInserts ==
  ASSUME NEW l \in Seq(Entry), NEW p \in 0..Len(l), NEW e \in Entry
  PROVE  Inserted(l, p, e, SubSeq(l, 1, p) \o <<e>> \o SubSeq(l, p + 1, Len(l)))
<1> DEFINE a == SubSeq(l, 1, p)
<1> DEFINE b == SubSeq(l, p + 1, Len(l))
<1> DEFINE ae == a \o <<e>>
<1> DEFINE big == ae \o b
<1>0. Len(l) \in Nat /\ p \in Nat /\ p <= Len(l) /\ \A i \in 1..Len(l) : l[i] \in Entry
  BY LenProperties, ElementOfSeq
<1>1. a \in Seq(Entry) /\ Len(a) = p /\ \A i \in 1..p : a[i] = l[i]
  <2>1. \A i \in 1..p : l[i] \in Entry
    BY <1>0
  <2>2. /\ a \in Seq(Entry) /\ Len(a) = IF 1 <= p THEN p - 1 + 1 ELSE 0
        /\ \A i \in 1..(p - 1 + 1) : a[i] = l[1 + i - 1]
    BY <1>0, <2>1, SubSeqProperties
  <2> HIDE DEF a
  <2> QED
    BY <1>0, <2>2
<1>2. /\ b \in Seq(Entry) /\ Len(b) = Len(l) - p
      /\ \A i \in 1..(Len(l) - p) : b[i] = l[p + i]
  <2>1. \A i \in (p + 1)..Len(l) : l[i] \in Entry
    BY <1>0
  <2>2. /\ b \in Seq(Entry)
        /\ Len(b) = IF p + 1 <= Len(l) THEN Len(l) - (p + 1) + 1 ELSE 0
        /\ \A i \in 1..(Len(l) - (p + 1) + 1) : b[i] = l[(p + 1) + i - 1]
    BY <1>0, <2>1, SubSeqProperties
  <2> HIDE DEF b
  <2>3. Len(b) = Len(l) - p /\ Len(l) - (p + 1) + 1 = Len(l) - p
    BY <1>0, <2>2
  <2>4. \A i \in 1..(Len(l) - p) : (p + 1) + i - 1 = p + i
    BY <1>0
  <2> QED
    BY <2>2, <2>3, <2>4
<1>3. <<e>> \in Seq(Entry) /\ Len(<<e>>) = 1 /\ <<e>>[1] = e
  OBVIOUS
<1> HIDE DEF a, b
<1>4. /\ ae \in Seq(Entry) /\ Len(ae) = p + 1 /\ ae[p + 1] = e
      /\ \A i \in 1..p : ae[i] = l[i]
  <2>1. /\ ae \in Seq(Entry) /\ Len(ae) = Len(a) + Len(<<e>>)
        /\ \A i \in 1..(Len(a) + Len(<<e>>)) :
             ae[i] = IF i <= Len(a) THEN a[i] ELSE <<e>>[i - Len(a)]
    BY <1>1, <1>3, ConcatProperties
  <2> HIDE DEF ae
  <2>2. Len(ae) = p + 1 /\ \A i \in 1..(p + 1) : ae[i] = IF i <= p THEN a[i] ELSE <<e>>[i - p]
    BY <1>1, <1>3, <2>1
  <2>3. ae[p + 1] = <<e>>[1]
    <3>1. p + 1 \in 1..(p + 1) /\ ~(p + 1 <= p) /\ (p + 1) - p = 1
      BY <1>0
    <3> QED
      BY <2>2, <3>1
  <2>4. \A i \in 1..p : ae[i] = a[i]
    BY <1>0, <2>2
  <2> QED
    BY <1>1, <1>3, <2>1, <2>2, <2>3, <2>4
<1> HIDE DEF ae
<1>5. /\ big \in Seq(Entry) /\ Len(big) = Len(l) + 1
      /\ \A i \in 1..(Len(l) + 1) : big[i] = IF i <= p + 1 THEN ae[i] ELSE b[i - (p + 1)]
  <2>1. /\ big \in Seq(Entry) /\ Len(big) = Len(ae) + Len(b)
        /\ \A i \in 1..(Len(ae) + Len(b)) :
             big[i] = IF i <= Len(ae) THEN ae[i] ELSE b[i - Len(ae)]
    BY <1>2, <1>4, ConcatProperties
  <2> HIDE DEF big
  <2>2. Len(ae) = p + 1 /\ Len(ae) + Len(b) = Len(l) + 1
    BY <1>0, <1>2, <1>4
  <2> QED
    BY <2>1, <2>2
<1> HIDE DEF big
<1>6. big[p + 1] = e
  BY <1>0, <1>4, <1>5
<1>7. \A i \in 1..p : big[i] = l[i]
  BY <1>0, <1>4, <1>5
<1>8. ASSUME NEW i \in (p + 1)..Len(l) PROVE big[i + 1] = l[i]
  <2>1. i + 1 \in 1..(Len(l) + 1) /\ ~(i + 1 <= p + 1) /\ (i + 1) - (p + 1) = i - p
        /\ i - p \in 1..(Len(l) - p) /\ p + (i - p) = i
    BY <1>0
  <2> QED
    BY <1>2, <1>5, <2>1
<1>9. Inserted(l, p, e, big)
  BY <1>5, <1>6, <1>7, <1>8 DEF Inserted
<1> QED
  BY <1>9 DEF big, ae, a, b

LEMMA TakingOutInserts ==
  ASSUME NEW l \in Seq(Entry), NEW d \in 1..Len(l)
  PROVE  Inserted(SubSeq(l, 1, d - 1) \o SubSeq(l, d + 1, Len(l)), d - 1, l[d], l)
<1> DEFINE a == SubSeq(l, 1, d - 1)
<1> DEFINE b == SubSeq(l, d + 1, Len(l))
<1> DEFINE small == a \o b
<1>0. /\ Len(l) \in Nat /\ d \in Nat /\ 1 <= d /\ d <= Len(l)
      /\ \A i \in 1..Len(l) : l[i] \in Entry
  BY LenProperties, ElementOfSeq
<1>1. a \in Seq(Entry) /\ Len(a) = d - 1 /\ \A i \in 1..(d - 1) : a[i] = l[i]
  <2>1. \A i \in 1..(d - 1) : l[i] \in Entry
    BY <1>0
  <2>2. /\ a \in Seq(Entry) /\ Len(a) = IF 1 <= d - 1 THEN (d - 1) - 1 + 1 ELSE 0
        /\ \A i \in 1..((d - 1) - 1 + 1) : a[i] = l[1 + i - 1]
    BY <1>0, <2>1, SubSeqProperties
  <2> HIDE DEF a
  <2> QED
    BY <1>0, <2>2
<1>2. /\ b \in Seq(Entry) /\ Len(b) = Len(l) - d
      /\ \A i \in 1..(Len(l) - d) : b[i] = l[d + i]
  <2>1. \A i \in (d + 1)..Len(l) : l[i] \in Entry
    BY <1>0
  <2>2. /\ b \in Seq(Entry)
        /\ Len(b) = IF d + 1 <= Len(l) THEN Len(l) - (d + 1) + 1 ELSE 0
        /\ \A i \in 1..(Len(l) - (d + 1) + 1) : b[i] = l[(d + 1) + i - 1]
    BY <1>0, <2>1, SubSeqProperties
  <2> HIDE DEF b
  <2>3. Len(b) = Len(l) - d /\ Len(l) - (d + 1) + 1 = Len(l) - d
    BY <1>0, <2>2
  <2>4. \A i \in 1..(Len(l) - d) : (d + 1) + i - 1 = d + i
    BY <1>0
  <2> QED
    BY <2>2, <2>3, <2>4
<1> HIDE DEF a, b
<1>3. /\ small \in Seq(Entry) /\ Len(small) = Len(l) - 1
      /\ \A i \in 1..(Len(l) - 1) : small[i] = IF i <= d - 1 THEN a[i] ELSE b[i - (d - 1)]
  <2>1. /\ small \in Seq(Entry) /\ Len(small) = Len(a) + Len(b)
        /\ \A i \in 1..(Len(a) + Len(b)) :
             small[i] = IF i <= Len(a) THEN a[i] ELSE b[i - Len(a)]
    BY <1>1, <1>2, ConcatProperties
  <2> HIDE DEF small
  <2>2. Len(a) = d - 1 /\ Len(a) + Len(b) = Len(l) - 1
    BY <1>0, <1>1, <1>2
  <2> QED
    BY <2>1, <2>2
<1> HIDE DEF small
<1>4. \A i \in 1..(d - 1) : l[i] = small[i]
  BY <1>0, <1>1, <1>3
<1>5. ASSUME NEW i \in ((d - 1) + 1)..Len(small) PROVE l[i + 1] = small[i]
  <2>1. i \in 1..(Len(l) - 1) /\ ~(i <= d - 1) /\ i - (d - 1) \in 1..(Len(l) - d)
        /\ d + (i - (d - 1)) = i + 1
    BY <1>0, <1>3
  <2> QED
    BY <1>2, <1>3, <2>1
<1>6. d - 1 \in 0..Len(small) /\ Len(l) = Len(small) + 1 /\ (d - 1) + 1 = d
  BY <1>0, <1>3
<1>7. Inserted(small, d - 1, l[d], l)
  BY <1>3, <1>4, <1>5, <1>6 DEF Inserted
<1> QED
  BY <1>7 DEF small, a, b

-----------------------------------------------------------------------------
(* What one entry more does to the places of the others. *)

WantsIn(l) == {i \in DOMAIN l : Wanted(l[i])}
PlaceOf(l, order, i) == Place(l, order, WantsIn(l), i)

LEMMA Wants ==
  ASSUME NEW l \in Seq(Entry)
  PROVE  /\ Positioned(l, WantsIn(l))
         /\ \A i \in WantsIn(l) : i \in 1..Len(l) /\ l[i] \in Entry /\ Wanted(l[i])
<1>1. DOMAIN l = 1..Len(l) /\ Len(l) \in Nat /\ \A i \in 1..Len(l) : l[i] \in Entry
  BY LenProperties, ElementOfSeq
<1>2. IsFiniteSet(1..Len(l))
  BY <1>1, UpTo
<1>3. IsFiniteSet(WantsIn(l))
  BY <1>1, <1>2, FS_Subset DEF WantsIn
<1>4. \A i \in WantsIn(l) : i \in 1..Len(l) /\ l[i] \in Entry /\ Wanted(l[i])
  BY <1>1 DEF WantsIn
<1>5. \A e \in Entry : e.time \in Int
  BY DEF Entry
<1>6. \A i \in WantsIn(l) : i \in Int /\ l[i].time \in Int
  BY <1>1, <1>4, <1>5
<1> QED
  BY <1>3, <1>4, <1>6 DEF Positioned

LEMMA Shifts ==
  ASSUME NEW small, NEW p, NEW e, NEW big, Inserted(small, p, e, big)
  PROVE  /\ \A i \in 1..Len(small) :
              /\ Shift(p, i) \in 1..Len(big) /\ Shift(p, i) # p + 1
              /\ big[Shift(p, i)] = small[i]
         /\ \A i, j \in 1..Len(small) : i < j <=> Shift(p, i) < Shift(p, j)
         /\ \A k \in 1..Len(big) : k # p + 1 =>
              \E i \in 1..Len(small) : Shift(p, i) = k
<1>1. /\ Len(small) \in Nat /\ p \in 0..Len(small) /\ Len(big) = Len(small) + 1
      /\ \A i \in 1..p : big[i] = small[i]
      /\ \A i \in (p + 1)..Len(small) : big[i + 1] = small[i]
  BY LenProperties DEF Inserted
<1>2. ASSUME NEW i \in 1..Len(small)
      PROVE  /\ Shift(p, i) \in 1..Len(big) /\ Shift(p, i) # p + 1
             /\ big[Shift(p, i)] = small[i]
  <2>1. CASE i <= p
    BY <1>1, <2>1 DEF Shift
  <2>2. CASE ~(i <= p)
    BY <1>1, <2>2 DEF Shift
  <2> QED
    BY <2>1, <2>2
<1>3. \A i, j \in 1..Len(small) : i < j <=> Shift(p, i) < Shift(p, j)
  BY <1>1 DEF Shift
<1>4. ASSUME NEW k \in 1..Len(big), k # p + 1
      PROVE  \E i \in 1..Len(small) : Shift(p, i) = k
  <2>1. CASE k <= p
    <3>1. k \in 1..Len(small) /\ Shift(p, k) = k
      BY <1>1, <2>1 DEF Shift
    <3> QED
      BY <3>1
  <2>2. CASE ~(k <= p)
    <3>1. k - 1 \in 1..Len(small) /\ Shift(p, k - 1) = k
      BY <1>1, <1>4, <2>2 DEF Shift
    <3> QED
      BY <3>1
  <2> QED
    BY <2>1, <2>2
<1> QED
  BY <1>2, <1>3, <1>4

(* The others keep their order, and a place moves by one at most, and only  *)
(* when the client asked for the new entry.                                 *)
LEMMA ShiftedPlaces ==
  ASSUME NEW small, NEW p, NEW e, NEW big, Inserted(small, p, e, big), NEW order,
         NEW i \in WantsIn(small)
  PROVE  /\ Shift(p, i) \in WantsIn(big)
         /\ PlaceOf(big, order, Shift(p, i)) \in
              {PlaceOf(small, order, i), PlaceOf(small, order, i) + 1}
         /\ ~Wanted(e) => PlaceOf(big, order, Shift(p, i)) = PlaceOf(small, order, i)
<1> DEFINE k == Shift(p, i)
<1> DEFINE S == {j \in WantsIn(small) : Precedes(small, order, j, i)}
<1> DEFINE B == {j \in WantsIn(big) : Precedes(big, order, j, k)}
<1>0. small \in Seq(Entry) /\ big \in Seq(Entry) /\ DOMAIN small = 1..Len(small)
      /\ DOMAIN big = 1..Len(big) /\ big[p + 1] = e /\ p + 1 \in 1..Len(big)
      /\ Len(small) \in Nat
  BY LenProperties DEF Inserted
<1>1. \A j \in 1..Len(small) : Shift(p, j) \in 1..Len(big) /\ Shift(p, j) # p + 1
                               /\ big[Shift(p, j)] = small[j]
  BY Shifts
<1>2. \A j \in 1..Len(small) : j < i <=> Shift(p, j) < k
  <2>1. i \in 1..Len(small)
    BY <1>0 DEF WantsIn
  <2> QED
    BY <2>1, Shifts
<1>3. \A m \in 1..Len(big) : m # p + 1 => \E j \in 1..Len(small) : Shift(p, j) = m
  BY Shifts
<1>4. \A j \in WantsIn(small) : Shift(p, j) \in WantsIn(big)
  BY <1>0, <1>1 DEF WantsIn
<1>5. ASSUME NEW j \in 1..Len(small)
      PROVE  Precedes(small, order, j, i) <=> Precedes(big, order, Shift(p, j), k)
  <2>1. big[Shift(p, j)] = small[j] /\ big[k] = small[i]
    BY <1>0, <1>1 DEF WantsIn
  <2> HIDE DEF k
  <2> QED
    BY <1>2, <2>1 DEF Precedes
<1>6. \A j \in S : Shift(p, j) \in B \ {p + 1}
  BY <1>0, <1>1, <1>4, <1>5 DEF WantsIn
<1>7. ASSUME NEW m \in B \ {p + 1} PROVE \E j \in S : Shift(p, j) = m
  <2>1. m \in 1..Len(big) /\ m # p + 1 /\ Wanted(big[m]) /\ Precedes(big, order, m, k)
    BY <1>0 DEF WantsIn
  <2>2. PICK j \in 1..Len(small) : Shift(p, j) = m
    BY <1>3, <2>1
  <2>3. big[m] = small[j] /\ Precedes(small, order, j, i)
    BY <1>1, <1>5, <2>1, <2>2
  <2>4. j \in S
    BY <1>0, <2>1, <2>3 DEF WantsIn
  <2> QED
    BY <2>2, <2>4
<1>8. \A j, m \in S : Shift(p, j) = Shift(p, m) => j = m
  <2>1. \A j \in S : j \in 1..Len(small)
    BY <1>0 DEF WantsIn
  <2>2. \A j, m \in 1..Len(small) : Shift(p, j) = Shift(p, m) => j = m
    BY <1>0 DEF Shift, Inserted
  <2> QED
    BY <2>1, <2>2
<1>9. IsFiniteSet(S) /\ IsFiniteSet(B)
  BY <1>0, Wants, FS_Subset DEF Positioned
<1>10. IsFiniteSet(B \ {p + 1}) /\ Cardinality(B \ {p + 1}) = Cardinality(S)
  <2> DEFINE f == [j \in S |-> Shift(p, j)]
  <2> HIDE DEF S, B
  <2>1. f \in Bijection(S, B \ {p + 1})
    BY <1>6, <1>7, <1>8 DEF Bijection, Injection, IsInjective, Surjection
  <2>2. ExistsBijection(S, B \ {p + 1})
    BY <2>1 DEF ExistsBijection
  <2> QED
    BY <1>9, <2>2, FS_Bijection
<1>11. Cardinality(S) \in Nat /\ Cardinality(B) \in Nat
  BY <1>9, FS_CardinalityType
<1>12. Cardinality(B) = IF p + 1 \in B THEN Cardinality(S) + 1 ELSE Cardinality(S)
  <2>1. Cardinality(B \ {p + 1}) = IF p + 1 \in B THEN Cardinality(B) - 1 ELSE Cardinality(B)
    BY <1>9, FS_RemoveElement
  <2> HIDE DEF S, B
  <2> QED
    BY <1>10, <1>11, <2>1
<1>13. ~Wanted(e) => p + 1 \notin B
  BY <1>0 DEF WantsIn
<1>14. PlaceOf(small, order, i) = Cardinality(S) /\ PlaceOf(big, order, k) = Cardinality(B)
  BY DEF PlaceOf, Place
<1> HIDE DEF S, B
<1> QED
  BY <1>4, <1>12, <1>13, <1>14

-----------------------------------------------------------------------------
(* What the paging client r has missed, and what it will see again, if the  *)
(* log stays as it is.                                                      *)

Passed(l, r) == {i \in WantsIn(l) : PlaceOf(l, r.order, i) < r.offset}
Ahead(l, r) == {i \in WantsIn(l) : PlaceOf(l, r.order, i) >= r.offset}
MissedIn(l, r) == {l[i].id : i \in {j \in Passed(l, r) : l[j].id \in r.since \ r.seen}}
AgainIn(l, r) == {l[i].id : i \in {j \in Ahead(l, r) : l[j].id \in r.seen}}

LEMMA PlacesAreNumbers ==
  ASSUME NEW l \in Seq(Entry), NEW order, NEW i \in WantsIn(l)
  PROVE  PlaceOf(l, order, i) \in Nat
<1>1. Positioned(l, WantsIn(l))
  BY Wants
<1>2. Place(l, order, WantsIn(l), i) \in 0..(Cardinality(WantsIn(l)) - 1)
  BY <1>1, Places
<1> QED
  BY <1>2 DEF PlaceOf

LEMMA PlacesAreDifferent ==
  ASSUME NEW l \in Seq(Entry), NEW order, NEW i \in WantsIn(l), NEW j \in WantsIn(l),
         PlaceOf(l, order, i) = PlaceOf(l, order, j)
  PROVE  i = j
<1>1. Positioned(l, WantsIn(l))
  BY Wants
<1> QED
  BY <1>1, Places DEF PlaceOf

(* All entries at one place are one entry. *)
OneAt(l, order, n) ==
  \E x : \A i \in WantsIn(l) : PlaceOf(l, order, i) = n => l[i].id = x

LEMMA OneAtAPlace ==
  ASSUME NEW l \in Seq(Entry), NEW order, NEW n
  PROVE  OneAt(l, order, n)
<1>1. CASE \E i \in WantsIn(l) : PlaceOf(l, order, i) = n
  <2>1. PICK i \in WantsIn(l) : PlaceOf(l, order, i) = n
    BY <1>1
  <2>2. \A j \in WantsIn(l) : PlaceOf(l, order, j) = n => l[j].id = l[i].id
    BY <2>1, PlacesAreDifferent
  <2> QED
    BY <2>2 DEF OneAt
<1>2. CASE ~\E i \in WantsIn(l) : PlaceOf(l, order, i) = n
  BY <1>2 DEF OneAt
<1> QED
  BY <1>1, <1>2

LEMMA FiniteLoss ==
  ASSUME NEW l \in Seq(Entry), NEW r, NEW X \in SUBSET WantsIn(l)
  PROVE  IsFiniteSet({l[i].id : i \in X})
<1>1. IsFiniteSet(WantsIn(l))
  BY Wants DEF Positioned
<1>2. IsFiniteSet(X)
  BY <1>1, FS_Subset
<1> DEFINE f == [i \in X |-> l[i].id]
<1> DEFINE T == {l[i].id : i \in X}
<1>3. f \in Surjection(X, T)
  BY DEF Surjection
<1> HIDE DEF f, T
<1>4. IsFiniteSet(T)
  BY <1>2, <1>3, FS_Surjection
<1> QED
  BY <1>4 DEF T

LEMMA LossesAreFinite ==
  ASSUME NEW l \in Seq(Entry), NEW r
  PROVE  IsFiniteSet(MissedIn(l, r)) /\ IsFiniteSet(AgainIn(l, r))
BY FiniteLoss DEF MissedIn, AgainIn, Passed, Ahead

(* An arrival: nothing more is missed, one entry at most is pushed back     *)
(* among those to come.                                                     *)
LEMMA ArrivalPushesOneBack ==
  ASSUME NEW small, NEW p, NEW e, NEW big, Inserted(small, p, e, big),
         NEW r, r.offset \in Int, e.id \notin r.since \cup r.seen
  PROVE  /\ MissedIn(big, r) \subseteq MissedIn(small, r)
         /\ \E x : AgainIn(big, r) \subseteq AgainIn(small, r) \cup {x}
         /\ ~Wanted(e) => AgainIn(big, r) \subseteq AgainIn(small, r)
<1>0. small \in Seq(Entry) /\ big \in Seq(Entry) /\ big[p + 1] = e
  BY DEF Inserted
<1>1. ASSUME NEW k \in WantsIn(big), big[k].id \in r.since \cup r.seen
      PROVE  \E i \in WantsIn(small) : k = Shift(p, i) /\ big[k].id = small[i].id
  <2>1. k # p + 1 /\ k \in 1..Len(big)
    BY <1>0, <1>1, LenProperties DEF WantsIn
  <2>2. PICK i \in 1..Len(small) : Shift(p, i) = k
    BY <2>1, Shifts
  <2>3. big[k] = small[i]
    BY <2>2, Shifts
  <2>4. i \in WantsIn(small)
    BY <1>0, <2>2, <2>3, LenProperties DEF WantsIn
  <2> QED
    BY <2>2, <2>3, <2>4
<1>2. ASSUME NEW i \in WantsIn(small)
      PROVE  /\ PlaceOf(big, r.order, Shift(p, i)) \in
                  {PlaceOf(small, r.order, i), PlaceOf(small, r.order, i) + 1}
             /\ ~Wanted(e) => PlaceOf(big, r.order, Shift(p, i)) = PlaceOf(small, r.order, i)
             /\ PlaceOf(small, r.order, i) \in Nat
  BY <1>0, ShiftedPlaces, PlacesAreNumbers
<1>3. ASSUME NEW k \in Passed(big, r), big[k].id \in r.since \ r.seen
      PROVE  big[k].id \in MissedIn(small, r)
  <2>1. PICK i \in WantsIn(small) : k = Shift(p, i) /\ big[k].id = small[i].id
    BY <1>1, <1>3 DEF Passed
  <2>2. PlaceOf(big, r.order, k) < r.offset
    BY DEF Passed
  <2>3. PlaceOf(small, r.order, i) < r.offset
    BY <1>2, <2>1, <2>2
  <2> QED
    BY <1>3, <2>1, <2>3 DEF MissedIn, Passed
<1>4. PICK x : \A i \in WantsIn(small) : PlaceOf(small, r.order, i) = r.offset - 1 => small[i].id = x
  <2>1. OneAt(small, r.order, r.offset - 1)
    BY <1>0, OneAtAPlace
  <2> QED
    BY <2>1 DEF OneAt
<1>5. ASSUME NEW k \in Ahead(big, r), big[k].id \in r.seen
      PROVE  /\ big[k].id \in AgainIn(small, r) \cup {x}
             /\ ~Wanted(e) => big[k].id \in AgainIn(small, r)
  <2>1. PICK i \in WantsIn(small) : k = Shift(p, i) /\ big[k].id = small[i].id
    BY <1>1, <1>5 DEF Ahead
  <2>2. PlaceOf(big, r.order, k) >= r.offset
    BY DEF Ahead
  <2>3. /\ PlaceOf(small, r.order, i) >= r.offset \/ PlaceOf(small, r.order, i) = r.offset - 1
        /\ ~Wanted(e) => PlaceOf(small, r.order, i) >= r.offset
    BY <1>2, <2>1, <2>2
  <2>4. PlaceOf(small, r.order, i) >= r.offset => big[k].id \in AgainIn(small, r)
    BY <1>5, <2>1 DEF AgainIn, Ahead
  <2> QED
    BY <1>4, <2>1, <2>3, <2>4
<1>6. MissedIn(big, r) \subseteq MissedIn(small, r)
  BY <1>3 DEF MissedIn
<1>7. AgainIn(big, r) \subseteq AgainIn(small, r) \cup {x}
  BY <1>5 DEF AgainIn
<1>8. ~Wanted(e) => AgainIn(big, r) \subseteq AgainIn(small, r)
  BY <1>5 DEF AgainIn
<1> QED
  BY <1>6, <1>7, <1>8

(* A disappearance: one entry at most is pulled forward among those that    *)
(* have been passed, and nothing more will be seen again.                   *)
LEMMA LossPullsOneForward ==
  ASSUME NEW small, NEW p, NEW e, NEW big, Inserted(small, p, e, big),
         NEW r, r.offset \in Int
  PROVE  /\ AgainIn(small, r) \subseteq AgainIn(big, r)
         /\ \E x : MissedIn(small, r) \subseteq MissedIn(big, r) \cup {x}
         /\ ~Wanted(e) => MissedIn(small, r) \subseteq MissedIn(big, r)
<1>0. small \in Seq(Entry) /\ big \in Seq(Entry)
  BY DEF Inserted
<1>1. ASSUME NEW i \in WantsIn(small)
      PROVE  /\ Shift(p, i) \in WantsIn(big) /\ big[Shift(p, i)].id = small[i].id
             /\ PlaceOf(big, r.order, Shift(p, i)) \in
                  {PlaceOf(small, r.order, i), PlaceOf(small, r.order, i) + 1}
             /\ ~Wanted(e) => PlaceOf(big, r.order, Shift(p, i)) = PlaceOf(small, r.order, i)
             /\ PlaceOf(small, r.order, i) \in Nat
  <2>1. i \in 1..Len(small)
    BY <1>0, Wants
  <2>2. big[Shift(p, i)] = small[i]
    BY <2>1, Shifts
  <2> QED
    BY <1>0, <2>2, ShiftedPlaces, PlacesAreNumbers
<1>2. ASSUME NEW i \in Ahead(small, r), small[i].id \in r.seen
      PROVE  small[i].id \in AgainIn(big, r)
  <2>1. i \in WantsIn(small) /\ PlaceOf(small, r.order, i) >= r.offset
    BY DEF Ahead
  <2>2. PlaceOf(big, r.order, Shift(p, i)) >= r.offset
    BY <1>1, <2>1
  <2>3. Shift(p, i) \in Ahead(big, r) /\ big[Shift(p, i)].id = small[i].id
    BY <1>1, <2>1, <2>2 DEF Ahead
  <2> QED
    BY <1>2, <2>3 DEF AgainIn
<1>3. PICK x : \A k \in WantsIn(big) : PlaceOf(big, r.order, k) = r.offset => big[k].id = x
  <2>1. OneAt(big, r.order, r.offset)
    BY <1>0, OneAtAPlace
  <2> QED
    BY <2>1 DEF OneAt
<1>4. ASSUME NEW i \in Passed(small, r), small[i].id \in r.since \ r.seen
      PROVE  /\ small[i].id \in MissedIn(big, r) \cup {x}
             /\ ~Wanted(e) => small[i].id \in MissedIn(big, r)
  <2> DEFINE k == Shift(p, i)
  <2>1. i \in WantsIn(small) /\ PlaceOf(small, r.order, i) < r.offset
    BY DEF Passed
  <2>2. k \in WantsIn(big) /\ big[k].id = small[i].id
    BY <1>1, <2>1
  <2>3. /\ PlaceOf(big, r.order, k) < r.offset \/ PlaceOf(big, r.order, k) = r.offset
        /\ ~Wanted(e) => PlaceOf(big, r.order, k) < r.offset
    BY <1>1, <2>1
  <2> HIDE DEF k
  <2>4. PlaceOf(big, r.order, k) < r.offset => small[i].id \in MissedIn(big, r)
    <3> SUFFICES ASSUME PlaceOf(big, r.order, k) < r.offset PROVE small[i].id \in MissedIn(big, r)
      OBVIOUS
    <3>1. k \in Passed(big, r)
      BY <2>2 DEF Passed
    <3> QED
      BY <1>4, <2>2, <3>1 DEF MissedIn
  <2> QED
    BY <1>3, <2>2, <2>3, <2>4
<1>5. AgainIn(small, r) \subseteq AgainIn(big, r)
  BY <1>2 DEF AgainIn
<1>6. MissedIn(small, r) \subseteq MissedIn(big, r) \cup {x}
  BY <1>4 DEF MissedIn
<1>7. ~Wanted(e) => MissedIn(small, r) \subseteq MissedIn(big, r)
  BY <1>4 DEF MissedIn
<1> QED
  BY <1>5, <1>6, <1>7

-----------------------------------------------------------------------------
(* The invariants. *)

Reader ==
  [stage : {"idle", "paging", "done"}, order : Orders \cup {Ascending}, offset : Nat,
   seen : SUBSET Ids, shown : Nat, since : SUBSET Ids, gone : Nat, come : Nat]

(* The log is in the order of time and holds an identifier once. *)
InTimeOrder(l) ==
  \A i, j \in DOMAIN l : i < j => l[i].time <= l[j].time /\ l[i].id # l[j].id

TypeInv ==
  /\ now \in 0..MaxTime
  /\ log \in Seq(Entry) /\ \A i \in DOMAIN log : log[i].time <= now
  /\ InTimeOrder(log)
  /\ pager \in Reader

(* What the client knows of is of the source that it asks for. *)
KnowsWanted(r) ==
  \A i \in DOMAIN log : log[i].id \in r.since \cup r.seen => Wanted(log[i])

(* While it turns pages: entries that it has passed and not seen are paid   *)
(* for by disappearances; those it has seen twice, or is about to, by       *)
(* arrivals.                                                                *)
PaidFor(r) ==
  /\ Cardinality(MissedIn(log, r)) <= r.gone
  /\ r.shown - Cardinality(r.seen) + Cardinality(AgainIn(log, r)) <= r.come

AllPaidFor(r) ==
  /\ Cardinality((r.since \cap Listed) \ r.seen) <= r.gone
  /\ r.shown - Cardinality(r.seen) <= r.come

PagingInv ==
  /\ IsFiniteSet(pager.seen)
  /\ KnowsWanted(pager)
  /\ pager.stage = "paging" => PaidFor(pager)
  /\ pager.stage = "done" => AllPaidFor(pager)

-----------------------------------------------------------------------------
(* One page. *)

PageQuery(order, offset) ==
  ParseLogQuery([source |-> Filter, limit |-> PageSize, offset |-> offset, order |-> order])

(* What it asks for: the entries of the source, from beginning to end. *)
AsksForPage(q, order, offset) ==
  /\ q.source = Filter /\ q.limit = PageSize /\ q.offset = offset /\ q.order = order
  /\ q.level = "" /\ q.keywords = {} /\ q.start = NotGiven /\ q.end = NotGiven
  /\ Queries(q) /\ PageLimit(q) = PageSize

LEMMA PageQueryIs ==
  ASSUME NEW order, NEW offset \in Nat
  PROVE  AsksForPage(PageQuery(order, offset), order, offset)
<1> DEFINE params == [source |-> Filter, limit |-> PageSize, offset |-> offset, order |-> order]
<1> DEFINE q == PageQuery(order, offset)
<1>1. /\ DOMAIN params = {"source", "limit", "offset", "order"}
      /\ params["source"] = Filter /\ params["limit"] = PageSize
      /\ params["offset"] = offset /\ params["order"] = order
  OBVIOUS
<1>2. /\ DOMAIN DefaultLogQuery =
           {"source", "level", "keywords", "start", "end", "limit", "offset", "order"}
      /\ DefaultLogQuery["level"] = "" /\ DefaultLogQuery["keywords"] = {}
      /\ DefaultLogQuery["start"] = NotGiven /\ DefaultLogQuery["end"] = NotGiven
  BY DEF DefaultLogQuery
<1> HIDE DEF params
<1>3. q = [f \in DOMAIN DefaultLogQuery |->
             IF f \in DOMAIN params THEN params[f] ELSE DefaultLogQuery[f]]
  BY DEF PageQuery, ParseLogQuery, params
<1> HIDE DEF q
<1>4. DOMAIN q = DOMAIN DefaultLogQuery
  BY <1>3
<1>5. /\ q.source = Filter /\ q.limit = PageSize /\ q.offset = offset /\ q.order = order
      /\ q.level = "" /\ q.keywords = {} /\ q.start = NotGiven /\ q.end = NotGiven
  BY <1>1, <1>2, <1>3
<1>6. PageSize \in Nat /\ PageSize <= MaxLimit /\ MaxLimit \in Nat
  BY ReadersAssumption, LimitAssumption
<1>7. PageLimit(q) = PageSize
  <2>1. LeastOf(PageSize, MaxLimit) = PageSize
    BY ONLY <1>6 DEF LeastOf
  <2>2. q.limit = PageSize
    BY <1>5
  <2> QED
    BY ONLY <2>1, <2>2, Zenon DEF PageLimit
<1>8. Queries(q)
  BY <1>4, <1>5, <1>6 DEF Queries
<1> QED
  BY <1>5, <1>7, <1>8 DEF q, AsksForPage

(* A query for the source, without another filter, finds what is wanted. *)
AsksForSource(q) ==
  /\ q.source = Filter /\ q.level = "" /\ q.keywords = {}
  /\ q.start = NotGiven /\ q.end = NotGiven

LEMMA SourceMatches ==
  ASSUME TypeInv, NEW q, AsksForSource(q)
  PROVE  Matching(log, q, now) = WantsIn(log)
<1>1. q.source = Filter /\ q.level = "" /\ q.keywords = {}
  BY DEF AsksForSource
<1>2. TimeRange(q, now) = 0..now
  BY DEF TimeRange, AsksForSource
<1>3. ASSUME NEW i \in DOMAIN log PROVE log[i].time \in 0..now
  <2>1. log[i] \in Entry
    BY LenProperties, ElementOfSeq DEF TypeInv
  <2>2. log[i].time \in Nat /\ log[i].time <= now /\ now \in Nat
    BY <2>1 DEF TypeInv, Entry
  <2> QED
    BY <2>2
<1>4. \A i \in DOMAIN log : Matches(q, log[i], now) <=> Wanted(log[i])
  BY <1>1, <1>2, <1>3 DEF Matches, Wanted
<1> QED
  BY <1>4 DEF Matching, WantsIn

LEMMA PageMatches ==
  ASSUME TypeInv, NEW order, NEW offset \in Nat
  PROVE  Matching(log, PageQuery(order, offset), now) = WantsIn(log)
<1>1. AsksForPage(PageQuery(order, offset), order, offset)
  BY PageQueryIs
<1> QED
  BY <1>1, SourceMatches DEF AsksForPage, AsksForSource

(* The positions of a page. *)
Shown(order, offset) == Between(log, order, WantsIn(log), offset, offset + PageSize)

LEMMA PageShows ==
  ASSUME TypeInv, NEW order, NEW offset \in Nat
  PROVE  /\ Page(order, offset).total = Cardinality(WantsIn(log))
         /\ PageIds(Page(order, offset)) = {log[i].id : i \in Shown(order, offset)}
         /\ Len(Page(order, offset).items) = Cardinality(Shown(order, offset))
<1> DEFINE q == PageQuery(order, offset)
<1> DEFINE page == Page(order, offset)
<1>1. page = Query(log, q, now)
  BY DEF Page, PageQuery
<1>2. Queries(q) /\ PageLimit(q) = PageSize /\ q.order = order /\ q.offset = offset
  <2>1. AsksForPage(q, order, offset)
    BY PageQueryIs
  <2> HIDE DEF q
  <2> QED
    BY <2>1 DEF AsksForPage
<1>3. Matching(log, q, now) = WantsIn(log)
  BY PageMatches
<1>4. Positioned(log, WantsIn(log))
  BY Wants DEF TypeInv
<1>5. OnPage(log, q, now) = Shown(order, offset)
  BY <1>2, <1>3 DEF OnPage, Shown
<1> HIDE DEF q
<1>6. /\ page.total = Cardinality(WantsIn(log))
      /\ Elements(page.items) = Shown(order, offset)
      /\ Len(page.items) = Cardinality(Shown(order, offset))
  BY <1>1, <1>2, <1>3, <1>4, <1>5, QueryAnswers
<1>7. PageIds(page) = {log[i].id : i \in Elements(page.items)}
  <2> HIDE DEF page
  <2> QED
    BY DEF PageIds, Elements
<1> QED
  BY <1>6, <1>7

-----------------------------------------------------------------------------
(* Turning a page. *)

Turned(r, n, ids, shows, s) ==
  /\ s \in Reader
  /\ s.order = r.order /\ s.offset = r.offset + PageSize /\ s.seen = r.seen \cup ids
  /\ s.shown = r.shown + shows /\ s.since = r.since
  /\ s.gone = r.gone /\ s.come = r.come
  /\ s.stage = IF r.offset + PageSize >= n THEN "done" ELSE "paging"

LEMMA TurnIs ==
  ASSUME NEW r \in Reader, NEW page, Len(page.items) \in Nat, PageIds(page) \subseteq Ids
  PROVE  Turned(r, page.total, PageIds(page), Len(page.items), TurnPage(r, page))
<1> DEFINE s == TurnPage(r, page)
<1> DEFINE n == page.total
<1> DEFINE ids == PageIds(page)
<1> DEFINE m == Len(page.items)
<1>0. PageSize \in Nat /\ m \in Nat /\ ids \subseteq Ids
  BY ReadersAssumption, LimitAssumption
<1>1. s = [r EXCEPT !.offset = r.offset + PageSize, !.seen = r.seen \cup ids,
                    !.shown = r.shown + m,
                    !.stage = IF r.offset + PageSize >= n THEN "done" ELSE "paging"]
  BY DEF TurnPage, Reader
<1> HIDE DEF s, n, ids, m
<1> DEFINE stage == IF r.offset + PageSize >= n THEN "done" ELSE "paging"
<1>2. /\ s.order = r.order /\ s.offset = r.offset + PageSize /\ s.seen = r.seen \cup ids
      /\ s.shown = r.shown + m /\ s.since = r.since
      /\ s.gone = r.gone /\ s.come = r.come /\ s.stage = stage
  BY <1>1 DEF Reader
<1>3. r.offset + PageSize \in Nat /\ r.shown + m \in Nat /\ r.seen \cup ids \in SUBSET Ids
  BY <1>0 DEF Reader
<1>4. stage \in {"idle", "paging", "done"}
  OBVIOUS
<1> HIDE DEF stage
<1>5. s \in Reader
  BY <1>1, <1>3, <1>4 DEF Reader, stage
<1>6. Turned(r, n, ids, m, s)
  BY <1>2, <1>5 DEF Turned, stage
<1> QED
  BY <1>6 DEF s, n, ids, m

(* An identifier names one entry of the log. *)
LEMMA OneOfAnIdentifier ==
  ASSUME NEW l \in Seq(Entry), InTimeOrder(l), NEW i \in DOMAIN l, NEW j \in DOMAIN l,
         l[i].id = l[j].id
  PROVE  i = j
<1>1. i \in Int /\ j \in Int
  BY LenProperties
<1>2. ~(i < j) /\ ~(j < i)
  BY DEF InTimeOrder
<1> QED
  BY <1>1, <1>2

(* A page: what the client is shown is as many identifiers as entries. *)
LEMMA ShownOnce ==
  ASSUME TypeInv, NEW X \in SUBSET WantsIn(log)
  PROVE  /\ IsFiniteSet(X) /\ IsFiniteSet({log[i].id : i \in X})
         /\ Cardinality({log[i].id : i \in X}) = Cardinality(X)
<1> DEFINE T == {log[i].id : i \in X}
<1> DEFINE f == [i \in X |-> log[i].id]
<1>1. IsFiniteSet(X)
  BY Wants, FS_Subset DEF TypeInv, Positioned
<1>2. \A i, j \in X : log[i].id = log[j].id => i = j
  <2>1. \A i, j \in WantsIn(log) : log[i].id = log[j].id => i = j
    BY OneOfAnIdentifier DEF TypeInv, WantsIn
  <2> QED
    BY <2>1
<1>3. f \in Bijection(X, T)
  BY <1>2 DEF Bijection, Injection, IsInjective, Surjection
<1>4. ExistsBijection(X, T)
  BY <1>3 DEF ExistsBijection
<1> HIDE DEF T
<1>5. IsFiniteSet(T) /\ Cardinality(T) = Cardinality(X)
  BY <1>1, <1>4, FS_Bijection
<1> QED
  BY <1>1, <1>5 DEF T

(* Of finite sets of which two are disjoint and in the third. *)
LEMMA TwoInOne ==
  ASSUME NEW A, NEW B, NEW C, IsFiniteSet(C), A \subseteq C, B \subseteq C,
         A \cap B = {}
  PROVE  /\ Cardinality(A) \in Nat /\ Cardinality(B) \in Nat /\ Cardinality(C) \in Nat
         /\ Cardinality(A) + Cardinality(B) <= Cardinality(C)
<1>1. IsFiniteSet(A) /\ IsFiniteSet(B) /\ IsFiniteSet(A \cup B)
      /\ Cardinality(A \cup B) <= Cardinality(C)
  BY FS_Subset
<1>2. /\ Cardinality(A) \in Nat /\ Cardinality(B) \in Nat /\ Cardinality(C) \in Nat
      /\ Cardinality({}) = 0
  BY <1>1, FS_CardinalityType, FS_EmptySet
<1>3. Cardinality(A \cup B) = Cardinality(A) + Cardinality(B) - Cardinality(A \cap B)
  BY <1>1, FS_Union
<1>4. Cardinality(A \cap B) = 0
  BY <1>2
<1>5. Cardinality(A) + Cardinality(B) <= Cardinality(C)
  BY <1>1, <1>2, <1>3, <1>4
<1> QED
  BY <1>2, <1>5

(* A turned page misses nothing more, and pays for what it shows again. *)
LEMMA TurnKeeps ==
  ASSUME TypeInv, NEW r \in Reader, IsFiniteSet(r.seen), KnowsWanted(r), PaidFor(r),
         NEW s, s = TurnPage(r, Page(r.order, r.offset))
  PROVE  /\ s \in Reader /\ IsFiniteSet(s.seen) /\ KnowsWanted(s)
         /\ s.stage = "paging" => PaidFor(s)
         /\ s.stage = "done" => AllPaidFor(s)
         /\ s.stage # "idle"
<1> DEFINE G == Shown(r.order, r.offset)
<1> DEFINE GI == {log[i].id : i \in G}
<1> DEFINE W == WantsIn(log)
<1> DEFINE P(i) == PlaceOf(log, r.order, i)
<1>0. /\ r.offset \in Nat /\ r.shown \in Nat /\ r.come \in Nat /\ r.gone \in Nat
      /\ PageSize \in Nat
  BY ReadersAssumption, LimitAssumption DEF Reader
<1>1. log \in Seq(Entry) /\ InTimeOrder(log) /\ DOMAIN log = 1..Len(log)
      /\ \A i \in DOMAIN log : log[i] \in Entry /\ log[i].id \in Ids
  <2>1. log \in Seq(Entry) /\ InTimeOrder(log) /\ DOMAIN log = 1..Len(log)
    BY LenProperties DEF TypeInv
  <2>2. \A i \in DOMAIN log : log[i] \in Entry
    BY <2>1, ElementOfSeq
  <2>3. \A e \in Entry : e.id \in Ids
    BY DEF Entry
  <2> QED
    BY <2>1, <2>2, <2>3
<1>2. G = {i \in W : r.offset <= P(i) /\ P(i) < r.offset + PageSize}
  BY DEF Shown, Between, PlaceOf
<1>3. \A i \in W : P(i) \in Nat /\ P(i) < Cardinality(W)
  <2>1. Positioned(log, W)
    BY <1>1, Wants
  <2>2. Cardinality(W) \in Nat
    BY <2>1, FS_CardinalityType DEF Positioned
  <2>3. \A i \in W : P(i) \in 0..(Cardinality(W) - 1)
    BY <2>1, Places DEF PlaceOf
  <2> QED
    BY <2>2, <2>3
<1>4. Turned(r, Cardinality(W), GI, Cardinality(G), s) /\ Cardinality(G) \in Nat
  <2> DEFINE page == Page(r.order, r.offset)
  <2>1. page.total = Cardinality(W) /\ PageIds(page) = GI /\ Len(page.items) = Cardinality(G)
    BY <1>0, PageShows
  <2>2. Cardinality(G) \in Nat
    BY <1>2, ShownOnce, FS_CardinalityType
  <2>3. GI \subseteq Ids
    BY <1>1, <1>2 DEF WantsIn
  <2> HIDE DEF page, G, GI, W
  <2>4. Turned(r, page.total, PageIds(page), Len(page.items), TurnPage(r, page))
    BY <2>1, <2>2, <2>3, TurnIs
  <2> QED
    BY <2>1, <2>2, <2>4 DEF page
<1>5. \A i \in W, j \in W : log[i].id = log[j].id => i = j
  BY <1>1, OneOfAnIdentifier DEF WantsIn
<1>6. IsFiniteSet(G) /\ IsFiniteSet(GI) /\ Cardinality(GI) = Cardinality(G)
  BY <1>2, ShownOnce
<1>7. \A i \in W : log[i].id \in GI => i \in G
  BY <1>2, <1>5
<1> HIDE DEF GI
<1>8. MissedIn(log, s) \subseteq MissedIn(log, r)
  <2> SUFFICES ASSUME NEW i \in Passed(log, s), log[i].id \in s.since \ s.seen
               PROVE  i \in Passed(log, r) /\ log[i].id \in r.since \ r.seen
    BY DEF MissedIn
  <2>1. i \in W /\ P(i) < r.offset + PageSize
    BY <1>4 DEF Passed, Turned
  <2>2. log[i].id \in r.since \ r.seen /\ log[i].id \notin GI
    BY <1>4 DEF Turned
  <2>3. i \notin G
    BY <2>1, <2>2 DEF GI
  <2>4. P(i) < r.offset
    BY <1>0, <1>2, <1>3, <2>1, <2>3
  <2> QED
    BY <2>1, <2>2, <2>4 DEF Passed
<1>9. AgainIn(log, s) \subseteq AgainIn(log, r) /\ AgainIn(log, s) \cap GI = {}
  <2> SUFFICES ASSUME NEW i \in Ahead(log, s), log[i].id \in s.seen
               PROVE  i \in Ahead(log, r) /\ log[i].id \in r.seen /\ log[i].id \notin GI
    BY DEF AgainIn
  <2>1. i \in W /\ P(i) >= r.offset + PageSize
    BY <1>4 DEF Ahead, Turned
  <2>2. i \notin G
    BY <1>0, <1>2, <1>3, <2>1
  <2>3. log[i].id \notin GI /\ log[i].id \in r.seen
    BY <1>4, <1>7, <2>1, <2>2 DEF Turned
  <2>4. P(i) >= r.offset
    BY <1>0, <1>3, <2>1
  <2> QED
    BY <2>1, <2>3, <2>4 DEF Ahead
<1>10. r.seen \cap GI \subseteq AgainIn(log, r)
  <2>1. \A i \in G : i \in Ahead(log, r)
    BY <1>2 DEF Ahead
  <2> QED
    BY <2>1 DEF AgainIn, GI
<1>11. IsFiniteSet(s.seen)
       /\ Cardinality(s.seen) = Cardinality(r.seen) + Cardinality(G) - Cardinality(r.seen \cap GI)
  <2>1. s.seen = r.seen \cup GI
    BY <1>4 DEF Turned
  <2> QED
    BY <1>6, <2>1, FS_Union
<1>12. /\ Cardinality(AgainIn(log, s)) \in Nat /\ Cardinality(r.seen \cap GI) \in Nat
       /\ Cardinality(AgainIn(log, r)) \in Nat
       /\ Cardinality(AgainIn(log, s)) + Cardinality(r.seen \cap GI) <= Cardinality(AgainIn(log, r))
  <2>1. IsFiniteSet(AgainIn(log, r))
    BY <1>1, LossesAreFinite
  <2>2. AgainIn(log, s) \cap (r.seen \cap GI) = {}
    BY <1>9
  <2> QED
    BY <1>9, <1>10, <2>1, <2>2, TwoInOne
<1>13. /\ Cardinality(MissedIn(log, s)) \in Nat
       /\ Cardinality(MissedIn(log, s)) <= Cardinality(MissedIn(log, r))
       /\ Cardinality(MissedIn(log, r)) \in Nat
  <2>1. IsFiniteSet(MissedIn(log, r)) /\ IsFiniteSet(MissedIn(log, s))
    BY <1>1, LossesAreFinite
  <2> QED
    BY <1>8, <2>1, FS_Subset, FS_CardinalityType
<1>14. Cardinality(r.seen) \in Nat /\ Cardinality(s.seen) \in Nat
  BY <1>11, FS_CardinalityType
<1>15. PaidFor(s)
  <2>1. s.shown = r.shown + Cardinality(G) /\ s.gone = r.gone /\ s.come = r.come
    BY <1>4 DEF Turned
  <2>2. Cardinality(MissedIn(log, s)) <= s.gone
    BY <1>0, <1>13, <2>1 DEF PaidFor
  <2>3. r.shown - Cardinality(r.seen) + Cardinality(AgainIn(log, r)) <= r.come
    BY DEF PaidFor
  <2>4. Cardinality(G) \in Nat
    BY <1>4
  <2> HIDE DEF G
  <2>5. s.shown - Cardinality(s.seen) + Cardinality(AgainIn(log, s)) <= s.come
    BY <1>0, <1>11, <1>12, <1>14, <2>1, <2>3, <2>4
  <2> QED
    BY <2>2, <2>5 DEF PaidFor
<1>16. KnowsWanted(s)
  <2> SUFFICES ASSUME NEW i \in DOMAIN log, log[i].id \in s.since \cup s.seen
               PROVE  Wanted(log[i])
    BY DEF KnowsWanted
  <2>1. log[i].id \in r.since \cup r.seen \/ log[i].id \in GI
    BY <1>4 DEF Turned
  <2>2. CASE log[i].id \in GI
    <3>1. PICK j \in G : log[j].id = log[i].id
      BY <2>2 DEF GI
    <3>2. j \in W /\ i = j
      BY <1>1, <1>2, <3>1, OneOfAnIdentifier DEF WantsIn
    <3> QED
      BY <3>2 DEF WantsIn
  <2> QED
    BY <2>1, <2>2 DEF KnowsWanted
<1>17. ASSUME s.stage = "done" PROVE AllPaidFor(s)
  <2>1. s.offset >= Cardinality(W)
    BY <1>4, <1>17 DEF Turned
  <2>2. s.order = r.order /\ s.offset \in Nat /\ s.shown \in Nat /\ s.come \in Nat
    BY <1>4 DEF Turned, Reader
  <2>3. \A i \in W : i \in Passed(log, s)
    <3>1. Cardinality(W) \in Nat
      BY <1>1, Wants, FS_CardinalityType DEF Positioned
    <3>2. \A i \in W : PlaceOf(log, s.order, i) < s.offset
      BY <1>3, <2>1, <2>2, <3>1
    <3> QED
      BY <3>2 DEF Passed
  <2>4. (s.since \cap Listed) \ s.seen \subseteq MissedIn(log, s)
    <3> SUFFICES ASSUME NEW i \in DOMAIN log, log[i].id \in s.since, log[i].id \notin s.seen
                 PROVE  log[i].id \in MissedIn(log, s)
      BY DEF Listed
    <3>1. i \in W
      BY <1>16 DEF KnowsWanted, WantsIn
    <3>2. i \in Passed(log, s)
      BY <2>3, <3>1
    <3> QED
      BY <3>2 DEF MissedIn
  <2>5. Cardinality((s.since \cap Listed) \ s.seen) <= s.gone
    <3>1. IsFiniteSet(MissedIn(log, s))
      BY <1>1, LossesAreFinite
    <3>2. Cardinality((s.since \cap Listed) \ s.seen) <= Cardinality(MissedIn(log, s))
          /\ IsFiniteSet((s.since \cap Listed) \ s.seen)
      BY <2>4, <3>1, FS_Subset
    <3>3. Cardinality((s.since \cap Listed) \ s.seen) \in Nat /\ s.gone \in Nat
      BY <1>4, <3>2, FS_CardinalityType DEF Turned, Reader
    <3> QED
      BY <1>13, <1>15, <3>2, <3>3 DEF PaidFor
  <2>6. s.shown - Cardinality(s.seen) <= s.come
    BY <1>12, <1>14, <1>15, <2>2 DEF PaidFor
  <2> QED
    BY <2>5, <2>6 DEF AllPaidFor
<1>18. s \in Reader /\ s.stage # "idle"
  BY <1>4 DEF Turned
<1> QED
  BY <1>11, <1>15, <1>16, <1>17, <1>18

-----------------------------------------------------------------------------
(* The changes of the log. *)

LEMMA NoMore ==
  ASSUME NEW A, NEW B, IsFiniteSet(B), A \subseteq B
  PROVE  /\ Cardinality(A) \in Nat /\ Cardinality(B) \in Nat
         /\ Cardinality(A) <= Cardinality(B)
BY FS_Subset, FS_CardinalityType

LEMMA OneMore ==
  ASSUME NEW A, NEW B, NEW x, IsFiniteSet(B), A \subseteq B \cup {x}
  PROVE  /\ Cardinality(A) \in Nat /\ Cardinality(B) \in Nat
         /\ Cardinality(A) <= Cardinality(B) + 1
<1>1. /\ IsFiniteSet(B \cup {x}) /\ Cardinality(B) \in Nat
      /\ Cardinality(B \cup {x}) = IF x \in B THEN Cardinality(B) ELSE Cardinality(B) + 1
  BY FS_AddElement, FS_CardinalityType
<1>2. /\ Cardinality(A) \in Nat /\ Cardinality(B \cup {x}) \in Nat
      /\ Cardinality(A) <= Cardinality(B \cup {x})
  BY <1>1, NoMore
<1> QED
  BY <1>1, <1>2

(* An entry inserted at its position leaves the log in order. *)
LEMMA ArrivalKeepsOrder ==
  ASSUME TypeInv, NEW t \in 0..now, NEW p \in Positions(t), NEW e \in Entry, e.time = t,
         e.id \notin Listed, NEW big, Inserted(log, p, e, big)
  PROVE  InTimeOrder(big) /\ \A k \in DOMAIN big : big[k].time <= now
<1>1. /\ now \in Nat /\ t \in Nat /\ t <= now /\ Len(log) \in Nat /\ DOMAIN log = 1..Len(log)
      /\ DOMAIN big = 1..Len(big) /\ Len(big) = Len(log) + 1 /\ p \in 0..Len(log)
  BY LenProperties DEF TypeInv, Inserted, Positions
<1>2. \A i \in 1..Len(log) : log[i].time \in Nat /\ log[i].time <= now /\ log[i].id \in Listed
  <2>1. \A i \in 1..Len(log) : log[i] \in Entry
    BY ElementOfSeq DEF TypeInv
  <2>2. \A x \in Entry : x.time \in Nat
    BY DEF Entry
  <2> QED
    BY <1>1, <2>1, <2>2 DEF TypeInv, Listed
<1>3. /\ p > 0 => log[p].time <= t
      /\ p < Len(log) => log[p + 1].time > t
  BY DEF Positions
<1>4. \A i, j \in 1..Len(log) : i < j => log[i].time <= log[j].time /\ log[i].id # log[j].id
  BY <1>1 DEF TypeInv, InTimeOrder
<1>5. \A i \in 1..Len(log) : i <= p => log[i].time <= t
  BY <1>1, <1>2, <1>3, <1>4
<1>6. \A i \in 1..Len(log) : p < i => t <= log[i].time
  BY <1>1, <1>2, <1>3, <1>4
<1>7. /\ \A k \in 1..Len(big) : k <= p => k \in 1..Len(log) /\ big[k] = log[k]
      /\ big[p + 1] = e
      /\ \A k \in 1..Len(big) : p + 1 < k =>
           k - 1 \in 1..Len(log) /\ p < k - 1 /\ big[k] = log[k - 1]
  <2>1. ASSUME NEW k \in 1..Len(big), p + 1 < k
        PROVE  k - 1 \in (p + 1)..Len(log) /\ (k - 1) + 1 = k
    BY <1>1, <2>1
  <2>2. \A i \in (p + 1)..Len(log) : big[i + 1] = log[i]
    BY DEF Inserted
  <2>3. ASSUME NEW k \in 1..Len(big), p + 1 < k PROVE big[k] = log[k - 1]
    BY <2>1, <2>2, <2>3
  <2>4. \A k \in 1..Len(big) : p + 1 < k => k - 1 \in 1..Len(log) /\ p < k - 1
    BY <1>1
  <2> QED
    BY <1>1, <2>3, <2>4 DEF Inserted
<1>8. ASSUME NEW i \in 1..Len(big), NEW j \in 1..Len(big), i < j
      PROVE  big[i].time <= big[j].time /\ big[i].id # big[j].id
  <2>1. CASE i <= p /\ j <= p
    BY <1>4, <1>7, <1>8, <2>1
  <2>2. CASE i <= p /\ j = p + 1
    BY <1>2, <1>5, <1>7, <2>2
  <2>3. CASE i <= p /\ p + 1 < j
    <3>1. i \in 1..Len(log) /\ j - 1 \in 1..Len(log) /\ i < j - 1
          /\ big[i] = log[i] /\ big[j] = log[j - 1]
      BY <1>1, <1>7, <2>3
    <3> QED
      BY <1>4, <3>1
  <2>4. CASE i = p + 1 /\ p + 1 < j
    BY <1>2, <1>6, <1>7, <2>4
  <2>5. CASE p + 1 < i /\ p + 1 < j
    <3>1. i - 1 \in 1..Len(log) /\ j - 1 \in 1..Len(log) /\ i - 1 < j - 1
          /\ big[i] = log[i - 1] /\ big[j] = log[j - 1]
      BY <1>1, <1>7, <1>8, <2>5
    <3> QED
      BY <1>4, <3>1
  <2> QED
    BY <1>1, <1>8, <2>1, <2>2, <2>3, <2>4, <2>5
<1>9. ASSUME NEW k \in 1..Len(big) PROVE big[k].time <= now
  <2>1. k <= p \/ k = p + 1 \/ p + 1 < k
    BY <1>1
  <2> QED
    BY <1>1, <1>2, <1>7, <2>1
<1> QED
  BY <1>1, <1>8, <1>9 DEF InTimeOrder

LEMMA LossKeepsOrder ==
  ASSUME NEW small, NEW p, NEW e, NEW big, Inserted(small, p, e, big), InTimeOrder(big)
  PROVE  InTimeOrder(small)
<1>1. DOMAIN small = 1..Len(small) /\ DOMAIN big = 1..Len(big)
  BY LenProperties DEF Inserted
<1> SUFFICES ASSUME NEW i \in 1..Len(small), NEW j \in 1..Len(small), i < j
             PROVE  small[i].time <= small[j].time /\ small[i].id # small[j].id
  BY <1>1 DEF InTimeOrder
<1>2. Shift(p, i) < Shift(p, j)
  BY Shifts
<1>3. /\ Shift(p, i) \in 1..Len(big) /\ big[Shift(p, i)] = small[i]
      /\ Shift(p, j) \in 1..Len(big) /\ big[Shift(p, j)] = small[j]
  BY Shifts
<1> QED
  BY <1>1, <1>2, <1>3 DEF InTimeOrder

LEMMA SameLosses ==
  ASSUME NEW l, NEW r, NEW s, s.order = r.order, s.offset = r.offset,
         s.since = r.since, s.seen = r.seen
  PROVE  MissedIn(l, s) = MissedIn(l, r) /\ AgainIn(l, s) = AgainIn(l, r)
BY DEF MissedIn, AgainIn, Passed, Ahead

(* What a change leaves the client as it was: all but a count. *)
Noted(r, s) ==
  /\ s \in Reader /\ s.stage = r.stage /\ s.order = r.order /\ s.offset = r.offset
  /\ s.seen = r.seen /\ s.shown = r.shown /\ s.since = r.since

LEMMA Comes ==
  ASSUME pager \in Reader, NEW e
  PROVE  /\ Noted(pager, Changed(e, "come")) /\ Changed(e, "come").gone = pager.gone
         /\ Changed(e, "come").come = IF pager.stage = "paging" /\ Wanted(e)
                                      THEN pager.come + 1 ELSE pager.come
<1> DEFINE s == [pager EXCEPT !.come = pager.come + 1]
<1>1. pager.come + 1 \in Nat
  BY DEF Reader
<1>2. s \in Reader /\ s.stage = pager.stage /\ s.order = pager.order /\ s.offset = pager.offset
      /\ s.seen = pager.seen /\ s.shown = pager.shown /\ s.since = pager.since
      /\ s.gone = pager.gone /\ s.come = pager.come + 1
  BY <1>1 DEF Reader
<1>3. Changed(e, "come") = IF pager.stage = "paging" /\ Wanted(e) THEN s ELSE pager
  BY DEF Changed
<1> HIDE DEF s
<1> QED
  BY <1>2, <1>3 DEF Noted

LEMMA Goes ==
  ASSUME pager \in Reader, NEW e
  PROVE  /\ Noted(pager, Changed(e, "gone")) /\ Changed(e, "gone").come = pager.come
         /\ Changed(e, "gone").gone = IF pager.stage = "paging" /\ Wanted(e)
                                      THEN pager.gone + 1 ELSE pager.gone
<1> DEFINE s == [pager EXCEPT !.gone = pager.gone + 1]
<1>1. pager.gone + 1 \in Nat
  BY DEF Reader
<1>2. s \in Reader /\ s.stage = pager.stage /\ s.order = pager.order /\ s.offset = pager.offset
      /\ s.seen = pager.seen /\ s.shown = pager.shown /\ s.since = pager.since
      /\ s.come = pager.come /\ s.gone = pager.gone + 1
  BY <1>1 DEF Reader
<1>3. Changed(e, "gone") = IF pager.stage = "paging" /\ Wanted(e) THEN s ELSE pager
  BY DEF Changed
<1> HIDE DEF s
<1> QED
  BY <1>2, <1>3 DEF Noted

-----------------------------------------------------------------------------
(* Every step. *)

IInv == TypeInv /\ PagingInv

LEMMA ListedIsFinite ==
  ASSUME log \in Seq(Entry)
  PROVE  IsFiniteSet(Listed)
<1>1. IsFiniteSet(DOMAIN log)
  BY LenProperties, UpTo
<1> DEFINE f == [i \in DOMAIN log |-> log[i].id]
<1>2. f \in Surjection(DOMAIN log, Listed)
  BY DEF Surjection, Listed
<1> QED
  BY <1>1, <1>2, FS_Surjection

LEMMA ArriveKeeps ==
  ASSUME IInv, NEW id \in Ids, NEW kind \in Kinds, NEW t \in 0..now, Arrive(id, kind, t)
  PROVE  IInv'
<1> DEFINE e == [id |-> id, time |-> t, source |-> kind.source, level |-> kind.level,
                 words |-> kind.words]
<1>1. /\ TypeInv /\ PagingInv /\ now \in Nat /\ log \in Seq(Entry) /\ pager \in Reader
      /\ now' = now
  BY DEF IInv, TypeInv, Arrive
<1>2. /\ e \in Entry /\ e.id = id /\ e.time = t /\ (Wanted(e) <=> Wanted(kind))
  <2>1. kind.source \in STRING /\ kind.level \in STRING /\ kind.words \in SUBSET STRING
    BY ReadersAssumption
  <2>2. t \in Nat
    BY <1>1
  <2> QED
    BY <2>1, <2>2 DEF Entry, Wanted
<1> HIDE DEF e
<1>3. id \notin Listed /\ id \notin pager.since \cup pager.seen
      /\ pager' = Changed(kind, "come")
  BY DEF Arrive
<1>4. PICK p \in Positions(t) :
        log' = SubSeq(log, 1, p) \o <<e>> \o SubSeq(log, p + 1, Len(log))
  BY DEF Arrive, e
<1>5. Inserted(log, p, e, log') /\ log' \in Seq(Entry)
  <2>1. p \in 0..Len(log)
    BY DEF Positions
  <2>2. Inserted(log, p, e, log')
    BY <1>1, <1>2, <1>4, <2>1, PutInInserts
  <2> QED
    BY <2>2 DEF Inserted
<1>6. InTimeOrder(log') /\ \A k \in DOMAIN log' : log'[k].time <= now
  BY <1>1, <1>2, <1>3, <1>5, ArrivalKeepsOrder
<1>7. /\ Noted(pager, pager') /\ pager'.gone = pager.gone
      /\ pager'.come = IF pager.stage = "paging" /\ Wanted(kind)
                       THEN pager.come + 1 ELSE pager.come
  BY <1>1, <1>3, Comes
<1>8. TypeInv'
  BY <1>1, <1>5, <1>6, <1>7 DEF TypeInv, Noted
<1>9. \A k \in DOMAIN log' : log'[k].id = id \/
        \E i \in DOMAIN log : log'[k] = log[i]
  <2> SUFFICES ASSUME NEW k \in DOMAIN log', log'[k].id # id
               PROVE  \E i \in DOMAIN log : log'[k] = log[i]
    OBVIOUS
  <2>1. k \in 1..Len(log') /\ k # p + 1 /\ DOMAIN log = 1..Len(log)
    BY <1>1, <1>2, <1>5, LenProperties DEF Inserted
  <2>2. PICK i \in 1..Len(log) : Shift(p, i) = k
    BY <1>5, <2>1, Shifts
  <2>3. log'[k] = log[i]
    BY <1>5, <2>2, Shifts
  <2> QED
    BY <2>1, <2>3
<1>10. KnowsWanted(pager)'
  <2>1. \A i \in DOMAIN log : log[i].id \in pager.since \cup pager.seen => Wanted(log[i])
    BY <1>1 DEF PagingInv, KnowsWanted
  <2>2. \A k \in DOMAIN log' : log'[k].id \in pager.since \cup pager.seen => Wanted(log'[k])
    BY <1>3, <1>9, <2>1
  <2> QED
    BY <1>7, <2>2 DEF KnowsWanted, Noted, Wanted
<1>11. IsFiniteSet(pager'.seen)
  BY <1>1, <1>7 DEF PagingInv, Noted
<1>12. /\ pager.offset \in Int /\ pager.shown \in Nat /\ pager.come \in Nat
       /\ pager.gone \in Nat /\ Cardinality(pager.seen) \in Nat
  BY <1>1, FS_CardinalityType DEF PagingInv, Reader
<1>13. ASSUME pager'.stage = "paging" PROVE PaidFor(pager)'
  <2>1. pager.stage = "paging" /\ PaidFor(pager)
    BY <1>1, <1>7, <1>13 DEF PagingInv, Noted
  <2>2. MissedIn(log', pager') = MissedIn(log', pager)
        /\ AgainIn(log', pager') = AgainIn(log', pager)
    BY <1>7, SameLosses DEF Noted
  <2>3. /\ MissedIn(log', pager) \subseteq MissedIn(log, pager)
        /\ \E x : AgainIn(log', pager) \subseteq AgainIn(log, pager) \cup {x}
        /\ ~Wanted(e) => AgainIn(log', pager) \subseteq AgainIn(log, pager)
    <3>1. e.id \notin pager.since \cup pager.seen
      BY <1>2, <1>3
    <3> QED
      BY <1>5, <1>12, <3>1, ArrivalPushesOneBack
  <2>4. IsFiniteSet(MissedIn(log, pager)) /\ IsFiniteSet(AgainIn(log, pager))
    BY <1>1, LossesAreFinite
  <2>5. /\ Cardinality(MissedIn(log', pager)) <= Cardinality(MissedIn(log, pager))
        /\ Cardinality(MissedIn(log', pager)) \in Nat
        /\ Cardinality(MissedIn(log, pager)) \in Nat
    BY <2>3, <2>4, NoMore
  <2>6. /\ Cardinality(AgainIn(log', pager)) <= Cardinality(AgainIn(log, pager)) + 1
        /\ Cardinality(AgainIn(log', pager)) \in Nat
        /\ Cardinality(AgainIn(log, pager)) \in Nat
    BY <2>3, <2>4, OneMore
  <2>7. ~Wanted(e) => Cardinality(AgainIn(log', pager)) <= Cardinality(AgainIn(log, pager))
    BY <2>3, <2>4, NoMore
  <2>8. /\ Cardinality(MissedIn(log, pager)) <= pager.gone
        /\ pager.shown - Cardinality(pager.seen) + Cardinality(AgainIn(log, pager)) <= pager.come
    BY <2>1 DEF PaidFor
  <2>9. pager'.come = IF Wanted(e) THEN pager.come + 1 ELSE pager.come
    BY <1>2, <1>7, <2>1
  <2>10. pager'.shown = pager.shown /\ pager'.seen = pager.seen
    BY <1>7 DEF Noted
  <2>11. Cardinality(MissedIn(log', pager')) <= pager'.gone
    BY <1>7, <1>12, <2>2, <2>5, <2>8
  <2>12. pager'.shown - Cardinality(pager'.seen) + Cardinality(AgainIn(log', pager')) <= pager'.come
    BY <1>12, <2>2, <2>6, <2>7, <2>8, <2>9, <2>10
  <2> QED
    BY <2>11, <2>12 DEF PaidFor
<1>14. ASSUME pager'.stage = "done" PROVE AllPaidFor(pager)'
  <2>1. AllPaidFor(pager) /\ pager'.come = pager.come
    BY <1>1, <1>7, <1>14 DEF PagingInv, Noted
  <2>2. (pager'.since \cap Listed') \ pager'.seen \subseteq (pager.since \cap Listed) \ pager.seen
    <3>1. \A x \in Listed' : x = id \/ x \in Listed
      BY <1>9 DEF Listed
    <3> QED
      BY <1>3, <1>7, <3>1 DEF Noted
  <2>3. IsFiniteSet((pager.since \cap Listed) \ pager.seen)
    BY <1>1, ListedIsFinite, FS_Subset
  <2>4. /\ Cardinality((pager'.since \cap Listed') \ pager'.seen) <=
             Cardinality((pager.since \cap Listed) \ pager.seen)
        /\ Cardinality((pager'.since \cap Listed') \ pager'.seen) \in Nat
        /\ Cardinality((pager.since \cap Listed) \ pager.seen) \in Nat
    BY <2>2, <2>3, NoMore
  <2>5. pager'.shown = pager.shown /\ pager'.seen = pager.seen
    BY <1>7 DEF Noted
  <2>6. Cardinality((pager'.since \cap Listed') \ pager'.seen) <= pager'.gone
    BY <1>7, <1>12, <2>1, <2>4 DEF AllPaidFor
  <2>7. pager'.shown - Cardinality(pager'.seen) <= pager'.come
    BY <2>1, <2>5 DEF AllPaidFor
  <2> QED
    BY <2>6, <2>7 DEF AllPaidFor
<1> QED
  BY <1>8, <1>10, <1>11, <1>13, <1>14 DEF IInv, PagingInv

LEMMA DisappearKeeps ==
  ASSUME IInv, NEW d \in DOMAIN log, Disappear(d)
  PROVE  IInv'
<1> DEFINE e == log[d]
<1>1. /\ TypeInv /\ PagingInv /\ now \in Nat /\ log \in Seq(Entry) /\ pager \in Reader
      /\ now' = now /\ pager' = Changed(e, "gone")
  BY DEF IInv, TypeInv, Disappear
<1> HIDE DEF e
<1>2. Inserted(log', d - 1, e, log) /\ log' \in Seq(Entry)
  <2>1. d \in 1..Len(log)
    BY <1>1, LenProperties
  <2>2. log' = SubSeq(log, 1, d - 1) \o SubSeq(log, d + 1, Len(log))
    BY DEF Disappear
  <2>3. Inserted(log', d - 1, e, log)
    BY <1>1, <2>1, <2>2, TakingOutInserts DEF e
  <2> QED
    BY <2>3 DEF Inserted
<1>3. \A k \in DOMAIN log' : \E i \in DOMAIN log : log'[k] = log[i]
  <2> SUFFICES ASSUME NEW k \in DOMAIN log' PROVE \E i \in DOMAIN log : log'[k] = log[i]
    OBVIOUS
  <2>1. k \in 1..Len(log') /\ DOMAIN log = 1..Len(log)
    BY <1>1, <1>2, LenProperties
  <2>2. Shift(d - 1, k) \in 1..Len(log) /\ log[Shift(d - 1, k)] = log'[k]
    BY <1>2, <2>1, Shifts
  <2> QED
    BY <2>1, <2>2
<1>4. InTimeOrder(log') /\ \A k \in DOMAIN log' : log'[k].time <= now
  <2>1. InTimeOrder(log')
    BY <1>1, <1>2, LossKeepsOrder DEF TypeInv
  <2>2. \A i \in DOMAIN log : log[i].time <= now
    BY <1>1 DEF TypeInv
  <2> QED
    BY <1>3, <2>1, <2>2
<1>5. /\ Noted(pager, pager') /\ pager'.come = pager.come
      /\ pager'.gone = IF pager.stage = "paging" /\ Wanted(e)
                       THEN pager.gone + 1 ELSE pager.gone
  BY <1>1, Goes
<1>6. TypeInv'
  BY <1>1, <1>2, <1>4, <1>5 DEF TypeInv, Noted
<1>7. KnowsWanted(pager)'
  <2>1. \A i \in DOMAIN log : log[i].id \in pager.since \cup pager.seen => Wanted(log[i])
    BY <1>1 DEF PagingInv, KnowsWanted
  <2>2. \A k \in DOMAIN log' : log'[k].id \in pager.since \cup pager.seen => Wanted(log'[k])
    BY <1>3, <2>1
  <2> QED
    BY <1>5, <2>2 DEF KnowsWanted, Noted, Wanted
<1>8. IsFiniteSet(pager'.seen)
  BY <1>1, <1>5 DEF PagingInv, Noted
<1>9. /\ pager.offset \in Int /\ pager.shown \in Nat /\ pager.come \in Nat
      /\ pager.gone \in Nat /\ Cardinality(pager.seen) \in Nat
  BY <1>1, FS_CardinalityType DEF PagingInv, Reader
<1>10. ASSUME pager'.stage = "paging" PROVE PaidFor(pager)'
  <2>1. pager.stage = "paging" /\ PaidFor(pager)
    BY <1>1, <1>5, <1>10 DEF PagingInv, Noted
  <2>2. MissedIn(log', pager') = MissedIn(log', pager)
        /\ AgainIn(log', pager') = AgainIn(log', pager)
    BY <1>5, SameLosses DEF Noted
  <2>3. /\ AgainIn(log', pager) \subseteq AgainIn(log, pager)
        /\ \E x : MissedIn(log', pager) \subseteq MissedIn(log, pager) \cup {x}
        /\ ~Wanted(e) => MissedIn(log', pager) \subseteq MissedIn(log, pager)
    BY <1>2, <1>9, LossPullsOneForward
  <2>4. IsFiniteSet(MissedIn(log, pager)) /\ IsFiniteSet(AgainIn(log, pager))
    BY <1>1, LossesAreFinite
  <2>5. /\ Cardinality(AgainIn(log', pager)) <= Cardinality(AgainIn(log, pager))
        /\ Cardinality(AgainIn(log', pager)) \in Nat
        /\ Cardinality(AgainIn(log, pager)) \in Nat
    BY <2>3, <2>4, NoMore
  <2>6. /\ Cardinality(MissedIn(log', pager)) <= Cardinality(MissedIn(log, pager)) + 1
        /\ Cardinality(MissedIn(log', pager)) \in Nat
        /\ Cardinality(MissedIn(log, pager)) \in Nat
    BY <2>3, <2>4, OneMore
  <2>7. ~Wanted(e) => Cardinality(MissedIn(log', pager)) <= Cardinality(MissedIn(log, pager))
    BY <2>3, <2>4, NoMore
  <2>8. /\ Cardinality(MissedIn(log, pager)) <= pager.gone
        /\ pager.shown - Cardinality(pager.seen) + Cardinality(AgainIn(log, pager)) <= pager.come
    BY <2>1 DEF PaidFor
  <2>9. pager'.gone = IF Wanted(e) THEN pager.gone + 1 ELSE pager.gone
    BY <1>5, <2>1
  <2>10. pager'.shown = pager.shown /\ pager'.seen = pager.seen
    BY <1>5 DEF Noted
  <2>11. Cardinality(MissedIn(log', pager')) <= pager'.gone
    BY <1>9, <2>2, <2>6, <2>7, <2>8, <2>9
  <2>12. pager'.shown - Cardinality(pager'.seen) + Cardinality(AgainIn(log', pager')) <= pager'.come
    BY <1>5, <1>9, <2>2, <2>5, <2>8, <2>10
  <2> QED
    BY <2>11, <2>12 DEF PaidFor
<1>11. ASSUME pager'.stage = "done" PROVE AllPaidFor(pager)'
  <2>1. AllPaidFor(pager) /\ pager'.gone = pager.gone
    BY <1>1, <1>5, <1>11 DEF PagingInv, Noted
  <2>2. (pager'.since \cap Listed') \ pager'.seen \subseteq (pager.since \cap Listed) \ pager.seen
    <3>1. \A x \in Listed' : x \in Listed
      BY <1>3 DEF Listed
    <3> QED
      BY <1>5, <3>1 DEF Noted
  <2>3. IsFiniteSet((pager.since \cap Listed) \ pager.seen)
    BY <1>1, ListedIsFinite, FS_Subset
  <2>4. /\ Cardinality((pager'.since \cap Listed') \ pager'.seen) <=
             Cardinality((pager.since \cap Listed) \ pager.seen)
        /\ Cardinality((pager'.since \cap Listed') \ pager'.seen) \in Nat
        /\ Cardinality((pager.since \cap Listed) \ pager.seen) \in Nat
    BY <2>2, <2>3, NoMore
  <2>5. pager'.shown = pager.shown /\ pager'.seen = pager.seen
    BY <1>5 DEF Noted
  <2>6. Cardinality((pager'.since \cap Listed') \ pager'.seen) <= pager'.gone
    BY <1>9, <2>1, <2>4 DEF AllPaidFor
  <2>7. pager'.shown - Cardinality(pager'.seen) <= pager'.come
    BY <1>5, <2>1, <2>5 DEF AllPaidFor
  <2> QED
    BY <2>6, <2>7 DEF AllPaidFor
<1> QED
  BY <1>6, <1>7, <1>8, <1>10, <1>11 DEF IInv, PagingInv

(* A step that turns a page of a reader that keeps the account. *)
LEMMA ReadingKeeps ==
  ASSUME IInv, NEW r \in Reader, IsFiniteSet(r.seen), KnowsWanted(r), PaidFor(r),
         pager' = TurnPage(r, Page(r.order, r.offset)), UNCHANGED <<log, now>>
  PROVE  IInv'
<1>1. /\ pager' \in Reader /\ IsFiniteSet(pager'.seen) /\ KnowsWanted(pager')
      /\ pager'.stage = "paging" => PaidFor(pager')
      /\ pager'.stage = "done" => AllPaidFor(pager')
  BY TurnKeeps DEF IInv
<1>2. TypeInv'
  BY <1>1 DEF IInv, TypeInv, InTimeOrder
<1>3. KnowsWanted(pager)' /\ (pager'.stage = "paging" => PaidFor(pager)')
      /\ (pager'.stage = "done" => AllPaidFor(pager)')
  BY <1>1 DEF KnowsWanted, PaidFor, AllPaidFor, Listed, Wanted
<1> QED
  BY <1>1, <1>2, <1>3 DEF IInv, PagingInv

LEMMA FirstPageKeeps ==
  ASSUME IInv, NEW order \in Orders, FirstPage(order)
  PROVE  IInv'
<1> DEFINE since == {log[i].id : i \in {j \in DOMAIN log : Wanted(log[j])}}
<1> DEFINE r == [Idle EXCEPT !.order = order, !.since = since]
<1>1. log \in Seq(Entry) /\ InTimeOrder(log)
  BY DEF IInv, TypeInv
<1>2. since \in SUBSET Ids
  <2>1. \A i \in DOMAIN log : log[i] \in Entry
    BY <1>1, LenProperties, ElementOfSeq
  <2>2. \A x \in Entry : x.id \in Ids
    BY DEF Entry
  <2> QED
    BY <2>1, <2>2
<1>3. \A i \in DOMAIN log : log[i].id \in since => Wanted(log[i])
  BY <1>1, OneOfAnIdentifier
<1>4. UNCHANGED <<log, now>> /\ pager' = TurnPage(r, Page(order, 0))
  BY DEF FirstPage
<1> HIDE DEF since
<1>5. /\ r \in Reader /\ r.order = order /\ r.offset = 0 /\ r.seen = {} /\ r.shown = 0
      /\ r.since = since /\ r.gone = 0 /\ r.come = 0
  BY <1>2 DEF Idle, Reader
<1> HIDE DEF r
<1>6. KnowsWanted(r)
  BY <1>3, <1>5 DEF KnowsWanted
<1>7. MissedIn(log, r) = {} /\ AgainIn(log, r) = {}
  <2>1. Passed(log, r) = {}
    BY <1>1, <1>5, PlacesAreNumbers DEF Passed
  <2> QED
    BY <1>5, <2>1 DEF MissedIn, AgainIn
<1>8. IsFiniteSet(r.seen) /\ PaidFor(r)
  BY <1>5, <1>7, FS_EmptySet DEF PaidFor
<1> QED
  BY <1>4, <1>5, <1>6, <1>8, ReadingKeeps

LEMMA NextPageKeeps ==
  ASSUME IInv, NextPage
  PROVE  IInv'
<1>1. /\ pager \in Reader /\ IsFiniteSet(pager.seen) /\ KnowsWanted(pager) /\ PaidFor(pager)
      /\ pager' = TurnPage(pager, Page(pager.order, pager.offset)) /\ UNCHANGED <<log, now>>
  BY DEF IInv, TypeInv, PagingInv, NextPage
<1> QED
  BY <1>1, ReadingKeeps

LEMMA IdleIsReader == /\ Idle \in Reader /\ Idle.stage = "idle"
                      /\ Idle.seen = {} /\ Idle.since = {}
BY DEF Idle, Reader

LEMMA TickKeeps ==
  ASSUME IInv, Tick
  PROVE  IInv'
<1>1. now \in 0..MaxTime /\ now < MaxTime /\ now' = now + 1 /\ log' = log /\ pager' = pager
      /\ MaxTime \in Nat
  BY ReadersAssumption DEF IInv, TypeInv, Tick
<1>2. now' \in 0..MaxTime
  BY <1>1
<1>3. \A i \in DOMAIN log : log[i].time \in Nat /\ log[i].time <= now
  <2>1. \A i \in DOMAIN log : log[i] \in Entry
    BY LenProperties, ElementOfSeq DEF IInv, TypeInv
  <2>2. \A x \in Entry : x.time \in Nat
    BY DEF Entry
  <2> QED
    BY <2>1, <2>2 DEF IInv, TypeInv
<1>4. \A i \in DOMAIN log : log[i].time <= now'
  BY <1>1, <1>3
<1>5. TypeInv'
  BY <1>1, <1>2, <1>4 DEF IInv, TypeInv, InTimeOrder
<1>6. PagingInv'
  BY <1>1 DEF IInv, PagingInv, KnowsWanted, PaidFor, AllPaidFor, Listed, Wanted
<1> QED
  BY <1>5, <1>6 DEF IInv

LEMMA ForgetKeeps ==
  ASSUME IInv, Forget
  PROVE  IInv'
<1>1. pager' = Idle /\ log' = log /\ now' = now
  BY DEF Forget
<1>2. TypeInv'
  BY <1>1, IdleIsReader DEF IInv, TypeInv, InTimeOrder
<1>3. PagingInv'
  BY <1>1, IdleIsReader, FS_EmptySet DEF PagingInv, KnowsWanted
<1> QED
  BY <1>2, <1>3 DEF IInv

LEMMA IInvHolds == Spec => []IInv
<1>1. Init => IInv
  <2> SUFFICES ASSUME Init PROVE IInv
    OBVIOUS
  <2>1. log = <<>> /\ now = 0 /\ pager = Idle
    BY DEF Init
  <2>2. log \in Seq(Entry) /\ DOMAIN log = {}
    BY <2>1, EmptySeq, LenProperties
  <2>3. TypeInv
    BY <2>1, <2>2, IdleIsReader, ReadersAssumption DEF TypeInv, InTimeOrder
  <2>4. PagingInv
    BY <2>1, <2>2, IdleIsReader, FS_EmptySet DEF PagingInv, KnowsWanted
  <2> QED
    BY <2>3, <2>4 DEF IInv
<1>2. IInv /\ [Next]_rvars => IInv'
  <2> SUFFICES ASSUME IInv, [Next]_rvars PROVE IInv'
    OBVIOUS
  <2>1. CASE \E id \in Ids, kind \in Kinds, t \in 0..now : Arrive(id, kind, t)
    BY <2>1, ArriveKeeps
  <2>2. CASE \E i \in DOMAIN log : Disappear(i)
    BY <2>2, DisappearKeeps
  <2>3. CASE Tick
    BY <2>3, TickKeeps
  <2>4. CASE \E order \in Orders : FirstPage(order)
    BY <2>4, FirstPageKeeps
  <2>5. CASE NextPage
    BY <2>5, NextPageKeeps
  <2>6. CASE Forget
    BY <2>6, ForgetKeeps
  <2>7. CASE UNCHANGED rvars
    <3>1. log' = log /\ now' = now /\ pager' = pager
      BY <2>7 DEF rvars
    <3> QED
      BY <3>1 DEF IInv, TypeInv, InTimeOrder, PagingInv, KnowsWanted, PaidFor, AllPaidFor,
                  Listed, Wanted
  <2> QED
    BY <2>1, <2>2, <2>3, <2>4, <2>5, <2>6, <2>7 DEF Next
<1> QED
  BY <1>1, <1>2, PTL DEF Spec

(* The log stays in the order of time although entries arrive late          *)
(* (memory_log_store.go:300-311), and the variables keep their types.       *)
THEOREM ReadersTypeCorrect == Spec => []TypeOK
<1>1. IInv => TypeOK
  <2> SUFFICES ASSUME IInv PROVE TypeOK
    OBVIOUS
  <2>1. /\ now \in 0..MaxTime /\ log \in Seq(Entry) /\ InTimeOrder(log) /\ pager \in Reader
        /\ \A i \in DOMAIN log : log[i].time <= now
    BY DEF IInv, TypeInv
  <2> DEFINE E == [id : Ids, time : 0..now, source : STRING, level : STRING,
                   words : SUBSET STRING]
  <2>2. \A i \in 1..Len(log) : log[i] \in E
    <3> SUFFICES ASSUME NEW i \in 1..Len(log) PROVE log[i] \in E
      OBVIOUS
    <3>1. log[i] \in Entry /\ log[i].time <= now /\ now \in Nat
      BY <2>1, LenProperties, ElementOfSeq
    <3>2. log[i].time \in Nat
      BY <3>1 DEF Entry
    <3>3. log[i].time \in 0..now
      BY <3>1, <3>2
    <3> QED
      BY <3>1, <3>3 DEF Entry
  <2>3. log \in Seq(E)
    <3>1. Len(log) \in Nat /\ log = [i \in 1..Len(log) |-> log[i]]
      BY <2>1, LenProperties, SeqDef
    <3> HIDE DEF E
    <3> QED
      BY <2>2, <3>1, SeqDef
  <2>4. \A i, j \in DOMAIN log : i < j => log[i].time <= log[j].time /\ log[i].id # log[j].id
    BY <2>1 DEF InTimeOrder
  <2>5. /\ pager.stage \in {"idle", "paging", "done"} /\ pager.order \in Orders \cup {Ascending}
        /\ pager.offset \in Nat /\ pager.gone \in Nat /\ pager.come \in Nat
        /\ pager.shown \in Nat /\ pager.seen \in SUBSET Ids /\ pager.since \in SUBSET Ids
    BY <2>1 DEF Reader
  <2> QED
    BY <2>1, <2>3, <2>4, <2>5 DEF TypeOK
<1> QED
  BY <1>1, IInvHolds, PTL

(* A client that turns the pages of a log that changes misses at most as    *)
(* many entries as disappeared, and sees at most as many twice as arrived,  *)
(* however they interleave with its requests (memory_log_store.go:163-181). *)
THEOREM PagingIsOffByChanges == Spec => []PagingIsOffByWhatChanged
<1>1. IInv => PagingIsOffByWhatChanged
  BY DEF IInv, PagingInv, AllPaidFor, PagingIsOffByWhatChanged
<1> QED
  BY <1>1, IInvHolds, PTL

(* A client that nothing disturbs: no matching entry arrived or disappeared *)
(* between its first page and its last.                                     *)
Undisturbed == pager.stage = "done" /\ pager.gone = 0 /\ pager.come = 0

(* It has seen every entry that was there and still is, and none twice      *)
(* (memory_log_store.go:164-181).                                           *)
THEOREM UndisturbedPagingIsComplete ==
  Spec => [](Undisturbed => /\ pager.since \cap Listed \subseteq pager.seen
                            /\ pager.shown <= Cardinality(pager.seen))
<1>1. ASSUME IInv, Undisturbed
      PROVE  /\ pager.since \cap Listed \subseteq pager.seen
             /\ pager.shown <= Cardinality(pager.seen)
  <2> DEFINE missed == (pager.since \cap Listed) \ pager.seen
  <2>1. /\ Cardinality(missed) <= 0 /\ pager.shown - Cardinality(pager.seen) <= 0
        /\ IsFiniteSet(pager.seen) /\ pager.shown \in Nat /\ log \in Seq(Entry)
    BY <1>1 DEF IInv, TypeInv, PagingInv, AllPaidFor, Undisturbed, Reader
  <2>2. IsFiniteSet(Listed)
    BY <2>1, ListedIsFinite
  <2>3. IsFiniteSet(missed)
    BY <2>2, FS_Subset
  <2>4. missed = {}
    <3>1. Cardinality(missed) = 0
      BY <2>1, <2>3, FS_CardinalityType
    <3> QED
      BY <2>3, <3>1, FS_EmptySet
  <2>5. pager.shown <= Cardinality(pager.seen)
    BY <2>1, FS_CardinalityType
  <2> QED
    BY <2>4, <2>5
<1> QED
  BY <1>1, IInvHolds, PTL

-----------------------------------------------------------------------------
(* Hours and days: a quotient rounds down. *)

LEMMA Division ==
  ASSUME NEW d \in Nat \ {0}, NEW a \in Int
  PROVE  a \div d \in Int /\ a % d \in 0..(d - 1) /\ a = d * (a \div d) + (a % d)
<1>1. a \div d \in Int /\ a % d \in 0..(d - 1)
  OBVIOUS
<1>2. a = d * (a \div d) + (a % d)
  OBVIOUS
<1> QED
  BY <1>1, <1>2

LEMMA Quotient ==
  ASSUME NEW d \in Nat \ {0}, NEW a \in Int, NEW q \in Int, d * q <= a, a < d * q + d
  PROVE  a \div d = q
BY Division

LEMMA QuotientBack ==
  ASSUME NEW d \in Nat \ {0}, NEW a \in Int, NEW n \in Int
  PROVE  (a - n * d) \div d = (a \div d) - n
BY Division, Quotient

LEMMA QuotientGrows ==
  ASSUME NEW d \in Nat \ {0}, NEW a \in Int, NEW b \in Int, a <= b
  PROVE  a \div d <= b \div d
<1> DEFINE q == a \div d
<1> DEFINE r == b \div d
<1>1. q \in Int /\ r \in Int /\ d * q <= a /\ b < d * r + d
  BY Division
<1> HIDE DEF q, r
<1> SUFFICES ASSUME r < q PROVE FALSE
  BY <1>1 DEF q, r
<1> DEFINE k == q - r - 1
<1>2. k \in Nat /\ q = r + 1 + k
  BY <1>1
<1> HIDE DEF k
<1>3. d * q = d * r + d + d * k /\ d * k \in Nat /\ d * r \in Int /\ d * q \in Int
  BY <1>1, <1>2
<1> DEFINE x == d * q
<1> DEFINE y == d * r
<1> DEFINE z == d * k
<1>4. x <= a /\ b < y + d /\ x = y + d + z /\ z \in Nat /\ y \in Int /\ x \in Int
  BY <1>1, <1>3
<1> HIDE DEF x, y, z
<1> QED
  BY <1>4

-----------------------------------------------------------------------------
(* What is counted by key adds up. *)

Less(F) == {u \in F \X F : u[1] < u[2]}
NumberOf(F, i) == PlaceIn(Less(F), F, i) + 1
Numbers(F, m) == \E i \in F : NumberOf(F, i) = m

LEMMA Numbered ==
  ASSUME NEW F, IsFiniteSet(F), F \subseteq Int
  PROVE  /\ Cardinality(F) \in Nat
         /\ \A i \in F : NumberOf(F, i) \in 1..Cardinality(F)
         /\ \A i, j \in F : NumberOf(F, i) = NumberOf(F, j) => i = j
         /\ \A m \in 1..Cardinality(F) : Numbers(F, m)
<1>1. StrictOrder(Less(F), F)
  <2>1. \A i, j \in F : <<i, j>> \in Less(F) <=> i < j
    BY DEF Less
  <2>2. \A i \in F : ~(i < i)
    OBVIOUS
  <2>3. \A i, j, k \in F : i < j /\ j < k => i < k
    OBVIOUS
  <2>4. \A i, j \in F : i # j => i < j \/ j < i
    OBVIOUS
  <2> QED
    BY <2>1, <2>2, <2>3, <2>4 DEF StrictOrder
<1>2. Cardinality(F) \in Nat
  BY FS_CardinalityType
<1>3. \A i \in F : PlaceIn(Less(F), F, i) \in 0..(Cardinality(F) - 1)
  BY <1>1, PlaceBounds
<1>4. \A i, j \in F : PlaceIn(Less(F), F, i) = PlaceIn(Less(F), F, j) => i = j
  BY <1>1, PlacesDiffer
<1>5. ASSUME NEW m \in 1..Cardinality(F) PROVE Numbers(F, m)
  <2>1. m - 1 \in 0..(Cardinality(F) - 1)
    BY <1>2
  <2>2. \E i \in F : PlaceIn(Less(F), F, i) = m - 1
    <3> DEFINE R == Less(F)
    <3> DEFINE n == m - 1
    <3> HIDE DEF R, n
    <3>1. \E i \in F : PlaceIn(R, F, i) = n
      BY <1>1, <2>1, EveryPlaceIsTaken DEF R, n
    <3> QED
      BY <3>1 DEF R, n
  <2>3. PICK i \in F : PlaceIn(Less(F), F, i) = m - 1
    BY <2>2
  <2>4. NumberOf(F, i) = m
    BY <2>3 DEF NumberOf
  <2> QED
    BY <2>4 DEF Numbers
<1>6. \A i \in F : NumberOf(F, i) \in 1..Cardinality(F)
  BY <1>2, <1>3 DEF NumberOf
<1>7. \A i, j \in F : NumberOf(F, i) = NumberOf(F, j) => i = j
  BY <1>2, <1>3, <1>4 DEF NumberOf
<1> QED
  BY <1>2, <1>5, <1>6, <1>7

Those(T, key, k) == {i \in T : key[i] = k}

(* The pairs that SumOf counts. *)
Tallied(tally, n) == {u \in (DOMAIN tally) \X (1..n) : u[2] <= tally[u[1]]}

LEMMA KeysAddUp ==
  ASSUME NEW n \in Nat, NEW T \in SUBSET (1..n), NEW key, NEW tally,
         \A i \in T : key[i] \in DOMAIN tally,
         \A k \in DOMAIN tally : tally[k] = Cardinality(Those(T, key, k))
  PROVE  Cardinality(Tallied(tally, n)) = Cardinality(T)
<1> DEFINE U == {u \in (DOMAIN tally) \X (1..n) : u[2] <= tally[u[1]]}
<1> DEFINE Own(i) == Those(T, key, key[i])
<1> DEFINE f == [i \in T |-> <<key[i], NumberOf(Own(i), i)>>]
<1>1. /\ IsFiniteSet(T) /\ Cardinality(T) \in Nat /\ Cardinality(T) <= n
  <2>1. IsFiniteSet(1..n) /\ Cardinality(1..n) = n
    BY UpTo
  <2>2. IsFiniteSet(T) /\ Cardinality(T) <= Cardinality(1..n) /\ Cardinality(T) \in Nat
    BY <2>1, NoMore, FS_Subset
  <2> QED
    BY <2>1, <2>2
<1>2. ASSUME NEW k
      PROVE  /\ IsFiniteSet(Those(T, key, k)) /\ Those(T, key, k) \subseteq Int
             /\ Cardinality(Those(T, key, k)) \in Nat /\ Cardinality(Those(T, key, k)) <= n
  <2>1. Those(T, key, k) \subseteq T
    BY DEF Those
  <2>2. IsFiniteSet(Those(T, key, k)) /\ Cardinality(Those(T, key, k)) <= Cardinality(T)
        /\ Cardinality(Those(T, key, k)) \in Nat
    BY <1>1, <2>1, NoMore, FS_Subset
  <2>3. Those(T, key, k) \subseteq Int
    <3>1. ASSUME NEW i \in T PROVE i \in Int
      <4>1. i \in 1..n
        OBVIOUS
      <4> QED
        BY <4>1
    <3> QED
      BY <2>1, <3>1
  <2>4. Cardinality(Those(T, key, k)) <= n
    BY <1>1, <2>2
  <2> QED
    BY <2>2, <2>3, <2>4
<1>3. ASSUME NEW i \in T
      PROVE  /\ i \in Own(i) /\ NumberOf(Own(i), i) \in 1..n
             /\ NumberOf(Own(i), i) <= tally[key[i]]
  <2>1. i \in Own(i)
    BY DEF Those
  <2>2. NumberOf(Own(i), i) \in 1..Cardinality(Own(i)) /\ Cardinality(Own(i)) \in Nat
        /\ Cardinality(Own(i)) <= n /\ tally[key[i]] = Cardinality(Own(i))
    BY <1>2, <2>1, Numbered
  <2> QED
    BY <2>1, <2>2
<1>4. f \in [T -> U]
  <2> SUFFICES ASSUME NEW i \in T PROVE <<key[i], NumberOf(Own(i), i)>> \in U
    OBVIOUS
  <2> HIDE DEF Own
  <2> QED
    BY <1>3
<1>5. ASSUME NEW i \in T, NEW j \in T, f[i] = f[j] PROVE i = j
  <2>1. key[i] = key[j] /\ NumberOf(Own(i), i) = NumberOf(Own(j), j)
    BY <1>5
  <2>2. i \in Own(i) /\ j \in Own(i) /\ NumberOf(Own(i), i) = NumberOf(Own(i), j)
    BY <1>3, <2>1
  <2> QED
    BY <1>2, <2>2, Numbered
<1>6. ASSUME NEW u \in U PROVE \E i \in T : f[i] = u
  <2> DEFINE F == Those(T, key, u[1])
  <2>1. u[2] \in 1..Cardinality(F) /\ u = <<u[1], u[2]>>
    BY <1>2
  <2>2. Numbers(F, u[2])
    BY <1>2, <2>1, Numbered
  <2>3. PICK i \in F : NumberOf(F, i) = u[2]
    BY <2>2 DEF Numbers
  <2>4. i \in T /\ key[i] = u[1] /\ Own(i) = F
    BY DEF Those
  <2>5. f[i] = u
    BY <2>1, <2>3, <2>4
  <2> QED
    BY <2>4, <2>5
<1>7. f \in Bijection(T, U)
  <2> HIDE DEF f, U
  <2> QED
    BY <1>4, <1>5, <1>6 DEF Bijection, Injection, IsInjective, Surjection
<1>8. ExistsBijection(T, U)
  BY <1>7 DEF ExistsBijection
<1> HIDE DEF U
<1>9. Cardinality(U) = Cardinality(T)
  BY <1>1, <1>8, FS_Bijection
<1> QED
  BY <1>9 DEF U, Tallied

(* A tally adds up to its sample. *)
LEMMA TalliesAddUp ==
  ASSUME log \in Seq(Entry), NEW T \in SUBSET DOMAIN log, NEW key
  PROVE  SumOf(Tally(T, key)) = Cardinality(T)
<1> DEFINE tally == Tally(T, key)
<1>1. Len(log) \in Nat /\ DOMAIN log = 1..Len(log)
  BY LenProperties
<1>2. /\ \A i \in T : key[i] \in DOMAIN tally
      /\ \A k \in DOMAIN tally : tally[k] = Cardinality(Those(T, key, k))
  BY DEF Tally, Those
<1> HIDE DEF tally
<1>3. Cardinality(Tallied(tally, Len(log))) = Cardinality(T)
  <2>1. T \in SUBSET (1..Len(log))
    BY <1>1
  <2> QED
    BY <1>1, <1>2, <2>1, KeysAddUp
<1> QED
  BY <1>3 DEF SumOf, Tallied, tally

-----------------------------------------------------------------------------
(* The sample that a report is made of. *)

AsksForSample(q, start, end) ==
  /\ q.source = "" /\ q.level = "" /\ q.keywords = {} /\ q.start = start /\ q.end = end
  /\ q.offset = 0 /\ q.order = "" /\ Queries(q) /\ PageLimit(q) = MaxLimit

LEMMA StatsQueryIs ==
  ASSUME NEW start, NEW end
  PROVE  AsksForSample(StatsQuery(start, end), start, end)
<1> DEFINE q == StatsQuery(start, end)
<1> DEFINE more == MaxLimit + 1
<1>1. /\ more \in Nat /\ LeastOf(more, MaxLimit) = MaxLimit
  BY LimitAssumption DEF LeastOf
<1>2. q = [DefaultLogQuery EXCEPT !.start = start, !.end = end, !.limit = more, !.order = ""]
  BY DEF StatsQuery
<1> HIDE DEF q, more
<1>3. /\ DOMAIN q = DOMAIN DefaultLogQuery
      /\ q.source = "" /\ q.level = "" /\ q.keywords = {} /\ q.start = start /\ q.end = end
      /\ q.offset = 0 /\ q.order = "" /\ q.limit = more
  BY <1>2 DEF DefaultLogQuery
<1>4. Queries(q)
  <2>1. more \in Nat /\ 0 \in Nat
    BY ONLY <1>1
  <2> QED
    BY ONLY <1>3, <2>1, Zenon DEF Queries
<1>5. PageLimit(q) = MaxLimit
  BY ONLY <1>1, <1>3, Zenon DEF PageLimit
<1> QED
  BY <1>3, <1>4, <1>5 DEF AsksForSample, q

FirstOf(start) == IF start = NotGiven THEN 0 ELSE start
LastOf(end) == IF end = NotGiven THEN now ELSE end
Found(start, end) == {i \in DOMAIN log : log[i].time \in FirstOf(start)..LastOf(end)}

(* The place of an entry in the order "", which is ascending. *)
RankIn(S, i) == Place(log, "", S, i)
Oldest(S) == {i \in S : RankIn(S, i) < MaxLimit}

LEMMA Ranks ==
  ASSUME NEW S, Positioned(log, S)
  PROVE  /\ \A i \in S : RankIn(S, i) \in Nat
         /\ \A i, j \in S : log[i].time < log[j].time => RankIn(S, i) < RankIn(S, j)
<1> DEFINE none == ""
<1>1. none # Descending
  BY DEF Descending
<1>2. \A i \in S : RankIn(S, i) = Place(log, none, S, i)
  BY DEF RankIn
<1> HIDE DEF none
<1>3. /\ \A i \in S : Place(log, none, S, i) \in 0..(Cardinality(S) - 1)
      /\ \A i, j \in S : Precedes(log, none, i, j) =>
           Place(log, none, S, i) < Place(log, none, S, j)
  BY Places
<1>4. \A i, j \in S : log[i].time < log[j].time => Precedes(log, none, i, j)
  BY <1>1 DEF Precedes
<1> QED
  BY <1>2, <1>3, <1>4

LEMMA FoundIs ==
  ASSUME NEW start, NEW end
  PROVE  Matching(log, StatsQuery(start, end), now) = Found(start, end)
<1> DEFINE q == StatsQuery(start, end)
<1>1. AsksForSample(q, start, end)
  BY StatsQueryIs
<1> HIDE DEF q
<1>2. q.source = "" /\ q.level = "" /\ q.keywords = {} /\ q.start = start /\ q.end = end
  BY <1>1 DEF AsksForSample
<1>3. TimeRange(q, now) = FirstOf(start)..LastOf(end)
  BY <1>2 DEF TimeRange, FirstOf, LastOf
<1>4. \A i \in DOMAIN log : Matches(q, log[i], now) <=> log[i].time \in FirstOf(start)..LastOf(end)
  BY <1>2, <1>3 DEF Matches
<1>5. Matching(log, q, now) = Found(start, end)
  BY <1>4 DEF Matching, Found
<1> QED
  BY <1>5 DEF q

LEMMA TimesAreNumbers ==
  ASSUME TypeInv
  PROVE  /\ log \in Seq(Entry) /\ DOMAIN log = 1..Len(log) /\ Len(log) \in Nat /\ now \in Nat
         /\ \A i \in DOMAIN log : i \in Nat /\ log[i].time \in Nat /\ log[i].time <= now
<1>1. log \in Seq(Entry) /\ DOMAIN log = 1..Len(log) /\ Len(log) \in Nat /\ now \in Nat
  BY LenProperties DEF TypeInv
<1>2. \A i \in DOMAIN log : log[i] \in Entry
  BY <1>1, ElementOfSeq
<1>3. \A x \in Entry : x.time \in Nat
  BY DEF Entry
<1>4. \A i \in DOMAIN log : i \in Nat
  BY <1>1
<1> QED
  BY <1>1, <1>2, <1>3, <1>4 DEF TypeInv

LEMMA PartsArePositioned ==
  ASSUME TypeInv, NEW S \in SUBSET DOMAIN log
  PROVE  Positioned(log, S) /\ Cardinality(S) \in Nat
<1>1. IsFiniteSet(DOMAIN log)
  BY TimesAreNumbers, UpTo
<1>2. IsFiniteSet(S)
  BY <1>1, FS_Subset
<1>3. \A i \in S : i \in Int /\ log[i].time \in Int
  BY TimesAreNumbers
<1> QED
  BY <1>2, <1>3, FS_CardinalityType DEF Positioned

LEMMA SampleIs ==
  ASSUME TypeInv, NEW start, NEW end
  PROVE  /\ Sampled(log, start, end, now) = Oldest(Found(start, end))
         /\ Cardinality(Sampled(log, start, end, now))
              = LeastOf(MaxLimit, Cardinality(Found(start, end)))
<1> DEFINE q == StatsQuery(start, end)
<1> DEFINE S == Found(start, end)
<1> DEFINE items == Query(log, q, now).items
<1> DEFINE c == Cardinality(S)
<1>1. AsksForSample(q, start, end) /\ Matching(log, q, now) = S
  BY StatsQueryIs, FoundIs
<1>2. Positioned(log, S) /\ c \in Nat
  BY PartsArePositioned DEF Found
<1>3. Sampled(log, start, end, now) = Elements(items)
  BY DEF Sampled, Elements
<1> HIDE DEF q, S
<1>4. Queries(q) /\ PageLimit(q) = MaxLimit /\ q.offset = 0 /\ q.order = ""
  BY <1>1 DEF AsksForSample
<1>5. /\ Elements(items) = OnPage(log, q, now)
      /\ Len(items) = Cardinality(OnPage(log, q, now))
      /\ Len(items) = LeastOf(LeastOf(q.offset, c) + PageLimit(q), c) - LeastOf(q.offset, c)
  BY <1>1, <1>2, <1>4, QueryAnswers
<1>6. OnPage(log, q, now) = Oldest(S)
  <2>1. \A i \in S : RankIn(S, i) \in Nat
    BY <1>2, Ranks
  <2>2. OnPage(log, q, now) = {i \in S : 0 <= RankIn(S, i) /\ RankIn(S, i) < 0 + MaxLimit}
    BY <1>1, <1>4 DEF OnPage, Between, RankIn
  <2>3. \A i \in S : (0 <= RankIn(S, i) /\ RankIn(S, i) < 0 + MaxLimit)
                       <=> RankIn(S, i) < MaxLimit
    BY <2>1, LimitAssumption
  <2> QED
    BY <2>2, <2>3 DEF Oldest
<1>7. LeastOf(LeastOf(0, c) + MaxLimit, c) - LeastOf(0, c) = LeastOf(MaxLimit, c)
  BY ONLY <1>2, LimitAssumption DEF LeastOf
<1>8. Cardinality(OnPage(log, q, now)) = LeastOf(MaxLimit, c)
  <2> HIDE DEF items, c
  <2> QED
    BY <1>4, <1>5, <1>7
<1> QED
  BY <1>3, <1>5, <1>6, <1>8 DEF S

LEMMA SamplesAreParts ==
  ASSUME TypeInv, NEW start, NEW end
  PROVE  /\ Sampled(log, start, end, now) \in SUBSET Found(start, end)
         /\ Sampled(log, start, end, now) \in SUBSET DOMAIN log
         /\ IsFiniteSet(Sampled(log, start, end, now))
         /\ Cardinality(Sampled(log, start, end, now)) \in Nat
<1>1. Sampled(log, start, end, now) \in SUBSET Found(start, end)
  BY SampleIs DEF Oldest
<1>2. Sampled(log, start, end, now) \in SUBSET DOMAIN log
  BY <1>1 DEF Found
<1> QED
  BY <1>1, <1>2, PartsArePositioned DEF Positioned

(* What is left out of a sample is not older than what is in it. *)
LEMMA TheOldestAreSampled ==
  ASSUME TypeInv, NEW S \in SUBSET DOMAIN log, NEW i \in Oldest(S), NEW j \in S \ Oldest(S)
  PROVE  log[i].time <= log[j].time
<1>1. Positioned(log, S)
  BY PartsArePositioned
<1>2. i \in S /\ j \in S /\ RankIn(S, i) < MaxLimit /\ ~(RankIn(S, j) < MaxLimit)
  BY DEF Oldest
<1>3. /\ RankIn(S, i) \in Nat /\ RankIn(S, j) \in Nat
      /\ log[j].time < log[i].time => RankIn(S, j) < RankIn(S, i)
  BY <1>1, <1>2, Ranks
<1>4. log[i].time \in Nat /\ log[j].time \in Nat
  BY <1>2, TimesAreNumbers
<1> QED
  BY <1>2, <1>3, <1>4, LimitAssumption

-----------------------------------------------------------------------------
(* The reports. *)

SampleAt(start) == Sampled(log, start, now, now)
StatisticsAt(start) == GetStatistics(log, start, NotGiven, now)

LEMMA GivenTimes ==
  ASSUME TypeInv, NEW start \in 0..now
  PROVE  /\ start \in Nat /\ now \in Nat /\ start <= now /\ start # NotGiven /\ now # NotGiven
         /\ FirstOf(start) = start /\ LastOf(now) = now
<1>1. now \in Nat
  BY TimesAreNumbers
<1>2. start \in Nat /\ start <= now /\ start # NotGiven /\ now # NotGiven
  BY <1>1 DEF NotGiven
<1> QED
  BY <1>1, <1>2 DEF FirstOf, LastOf

LEMMA StatisticsAre ==
  ASSUME TypeInv, NEW start \in 0..now
  PROVE  /\ StatisticsAt(start).total = Cardinality(SampleAt(start))
         /\ StatisticsAt(start).byLevel = ByLevel(log, SampleAt(start))
         /\ StatisticsAt(start).bySource = BySource(log, SampleAt(start))
         /\ StatisticsAt(start).byHour = ByHour(log, SampleAt(start))
         /\ StatisticsAt(start).errorRate =
              [s \in DOMAIN BySource(log, SampleAt(start)) |->
                 <<SourceErrors(log, SampleAt(start), s), BySource(log, SampleAt(start))[s]>>]
<1> DEFINE range == StatsRange(start, NotGiven, now)
<1> DEFINE sample == SampleAt(start)
<1>1. range.start = start /\ range.end = now
  BY GivenTimes DEF StatsRange
<1> HIDE DEF range
<1>2. Sampled(log, range.start, range.end, now) = sample
  BY <1>1 DEF SampleAt
<1> HIDE DEF sample
<1>3. StatisticsAt(start) =
        [total |-> Cardinality(sample),
         byLevel |-> ByLevel(log, sample), bySource |-> BySource(log, sample),
         byHour |-> ByHour(log, sample),
         errorRate |-> [s \in DOMAIN BySource(log, sample) |->
                          <<SourceErrors(log, sample, s), BySource(log, sample)[s]>>]]
  BY <1>2, Zenon DEF StatisticsAt, GetStatistics, range
<1> DEFINE levels == ByLevel(log, sample)
<1> DEFINE sources == BySource(log, sample)
<1> DEFINE hours == ByHour(log, sample)
<1> DEFINE total == Cardinality(sample)
<1> DEFINE rates == [s \in DOMAIN BySource(log, sample) |->
                       <<SourceErrors(log, sample, s), BySource(log, sample)[s]>>]
<1>4. StatisticsAt(start) = [total |-> total, byLevel |-> levels, bySource |-> sources,
                             byHour |-> hours, errorRate |-> rates]
  BY <1>3
<1> HIDE DEF levels, sources, hours, total, rates
<1>5. /\ StatisticsAt(start).total = total /\ StatisticsAt(start).byLevel = levels
      /\ StatisticsAt(start).bySource = sources /\ StatisticsAt(start).byHour = hours
      /\ StatisticsAt(start).errorRate = rates
  BY <1>4
<1> QED
  BY <1>5, Zenon DEF levels, sources, hours, total, rates, sample

LEMMA StatisticsSucceed ==
  ASSUME TypeInv, NEW start \in 0..now
  PROVE  ~StatisticsFail(start, NotGiven, now)
<1> DEFINE range == StatsRange(start, NotGiven, now)
<1> DEFINE q == StatsQuery(start, now)
<1>1. range.start = start /\ range.end = now
  BY GivenTimes DEF StatsRange
<1> HIDE DEF range
<1>2. AsksForSample(q, start, now)
  BY StatsQueryIs
<1> HIDE DEF q
<1>3. q.limit \in Nat /\ q.offset = 0 /\ q.start = start /\ q.end = now
  BY <1>2 DEF AsksForSample, Queries
<1>4. ~(q.limit < 0) /\ ~(0 < 0) /\ ~(start > now)
  BY <1>3, GivenTimes
<1>5. ~Rejected(q)
  BY <1>3, <1>4, Zenon DEF Rejected
<1> QED
  BY <1>1, <1>5 DEF StatisticsFail, q, range

LEMMA TotalIsTheCount ==
  ASSUME TypeInv, NEW start \in 0..now
  PROVE  Cardinality(SampleAt(start)) = LeastOf(MaxLimit, Count(log, "", "", start, now))
<1>1. Found(start, now) = {i \in DOMAIN log : log[i].time \in start..now}
  BY GivenTimes DEF Found
<1>2. \A x : "" \in {"", x}
  OBVIOUS
<1>3. Count(log, "", "", start, now) = Cardinality({i \in DOMAIN log : log[i].time \in start..now})
  BY <1>2 DEF Count
<1>4. Cardinality(SampleAt(start)) = LeastOf(MaxLimit, Cardinality(Found(start, now)))
  BY SampleIs DEF SampleAt
<1> QED
  BY <1>1, <1>3, <1>4

LEMMA TheNewestAreLeftOut ==
  ASSUME TypeInv, NEW start \in 0..now, NEW i \in SampleAt(start),
         NEW j \in DOMAIN log \ SampleAt(start), log[j].time >= start
  PROVE  log[i].time <= log[j].time
<1>1. SampleAt(start) = Oldest(Found(start, now))
  BY SampleIs DEF SampleAt
<1>2. j \in Found(start, now)
  <2>1. log[j].time \in start..now
    BY GivenTimes, TimesAreNumbers
  <2> QED
    BY <2>1, GivenTimes DEF Found
<1>3. Found(start, now) \in SUBSET DOMAIN log
  BY DEF Found
<1> QED
  BY <1>1, <1>2, <1>3, TheOldestAreSampled

LEMMA ReportsAddUp ==
  ASSUME TypeInv, NEW T \in SUBSET DOMAIN log
  PROVE  /\ SumOf(BySource(log, T)) = Cardinality(T)
         /\ SumOf(ByLevel(log, T)) = Cardinality(T)
         /\ SumOf(ByHour(log, T)) = Cardinality(T)
BY TimesAreNumbers, TalliesAddUp DEF BySource, ByLevel, ByHour

(* The entries of a source, and its errors. *)
OwnOf(T, source) == {i \in T : log[i].source = source}

LEMMA SourcesAre ==
  ASSUME NEW T
  PROVE  /\ DOMAIN BySource(log, T) = {log[i].source : i \in T}
         /\ \A s \in DOMAIN BySource(log, T) : BySource(log, T)[s] = Cardinality(OwnOf(T, s))
         /\ \A s : Errors(log, OwnOf(T, s)) = {i \in Errors(log, T) : log[i].source = s}
<1> DEFINE key == [i \in T |-> log[i].source]
<1>1. {key[i] : i \in T} = {log[i].source : i \in T}
  OBVIOUS
<1>2. \A s : {i \in T : key[i] = s} = OwnOf(T, s)
  BY DEF OwnOf
<1>3. BySource(log, T) = Tally(T, key)
  BY DEF BySource
<1> HIDE DEF key
<1>4. DOMAIN Tally(T, key) = {key[i] : i \in T}
      /\ \A s \in {key[i] : i \in T} : Tally(T, key)[s] = Cardinality({i \in T : key[i] = s})
  BY DEF Tally
<1>5. \A s : Errors(log, OwnOf(T, s)) = {i \in Errors(log, T) : log[i].source = s}
  BY DEF Errors, OwnOf
<1> QED
  BY <1>1, <1>2, <1>3, <1>4, <1>5

LEMMA ErrorsAreFewer ==
  ASSUME TypeInv, NEW T \in SUBSET DOMAIN log, NEW s \in DOMAIN BySource(log, T)
  PROVE  SourceErrors(log, T, s) <= BySource(log, T)[s]
<1>1. IsFiniteSet(OwnOf(T, s))
  BY PartsArePositioned, FS_Subset DEF OwnOf, Positioned
<1>2. {i \in Errors(log, T) : log[i].source = s} \subseteq OwnOf(T, s)
  BY DEF Errors, OwnOf
<1>3. Cardinality({i \in Errors(log, T) : log[i].source = s}) <= Cardinality(OwnOf(T, s))
  BY <1>1, <1>2, NoMore
<1> QED
  BY <1>3, SourcesAre DEF SourceErrors

(* A source's report, and the statistics of the sources. *)
LEMMA SourceReports ==
  ASSUME NEW T, NEW source
  PROVE  /\ SourceReport(log, T, source).source = source
         /\ SourceReport(log, T, source).total = Cardinality(OwnOf(T, source))
         /\ SourceReport(log, T, source).byLevel = ByLevel(log, OwnOf(T, source))
         /\ SourceReport(log, T, source).errors = SourceErrors(log, T, source)
<1> DEFINE own == OwnOf(T, source)
<1> DEFINE last == CHOOSE t \in {log[i].time : i \in own} : \A i \in own : log[i].time <= t
<1> DEFINE levels == ByLevel(log, own)
<1> DEFINE total == Cardinality(own)
<1> DEFINE errors == Cardinality(Errors(log, own))
<1>1. SourceReport(log, T, source) =
        [source |-> source, total |-> total, byLevel |-> levels, errors |-> errors,
         lastActivity |-> last]
  BY DEF SourceReport, OwnOf
<1>2. errors = SourceErrors(log, T, source)
  <2>1. Errors(log, own) = {i \in Errors(log, T) : log[i].source = source}
    BY SourcesAre
  <2> HIDE DEF own
  <2> QED
    BY <2>1 DEF SourceErrors
<1> HIDE DEF last, levels, total, errors
<1>3. /\ SourceReport(log, T, source).source = source
      /\ SourceReport(log, T, source).total = total
      /\ SourceReport(log, T, source).byLevel = levels
      /\ SourceReport(log, T, source).errors = errors
  BY <1>1
<1> QED
  BY <1>2, <1>3 DEF levels, total

ReportsOf(T) == {SourceReport(log, T, log[i].source) : i \in T}
LastDay == Sampled(log, now - DayLength, now, now)

LEMMA SourceStatsReport ==
  ASSUME NEW limit, NEW top \in SourceStats(log, limit, now), NEW r \in top
  PROVE  r \in ReportsOf(LastDay)
<1> DEFINE value == [x \in ReportsOf(LastDay) |-> <<x.total, 1>>]
<1>1. SourceStats(log, limit, now) = Top(ReportsOf(LastDay), limit, value)
  BY DEF SourceStats, ReportsOf, LastDay
<1> HIDE DEF value
<1>2. top \in SUBSET ReportsOf(LastDay)
  BY <1>1 DEF Top
<1> QED
  BY <1>2

LEMMA SourceStatsAddUp ==
  ASSUME TypeInv, NEW given, NEW answer \in GetSourceStats(log, given, now), NEW r \in answer.items
  PROVE  r.total = SumOf(r.byLevel)
<1> DEFINE limit == InRangeOr(DefaultSources, MaxSources, given)
<1>1. PICK top \in SourceStats(log, limit, now) :
        answer = [sources |-> Cardinality(top), items |-> top]
  BY DEF GetSourceStats
<1>2. r \in ReportsOf(LastDay)
  <2>1. r \in top
    BY <1>1
  <2> HIDE DEF limit
  <2> QED
    BY <2>1, SourceStatsReport
<1>3. PICK i \in LastDay : r = SourceReport(log, LastDay, log[i].source)
  BY <1>2 DEF ReportsOf
<1> DEFINE own == OwnOf(LastDay, log[i].source)
<1>4. own \in SUBSET DOMAIN log
  BY SamplesAreParts DEF LastDay, OwnOf
<1>5. r.total = Cardinality(own) /\ r.byLevel = ByLevel(log, own)
  BY <1>3, SourceReports
<1> HIDE DEF own
<1>6. SumOf(ByLevel(log, own)) = Cardinality(own)
  BY <1>4, ReportsAddUp
<1> QED
  BY <1>5, <1>6

LEMMA TopSourcesAgree ==
  ASSUME TypeInv, NEW start \in 0..now, start = now - DayLength,
         NEW top \in GetTopSources(log, MaxSources, now), NEW r \in top
  PROVE  StatisticsAt(start).errorRate[r.source] = <<r.errors, r.count>>
<1> DEFINE T == SampleAt(start)
<1>1. T = LastDay
  BY DEF SampleAt, LastDay
<1>2. PICK best \in SourceStats(log, MaxSources, now) :
        top = {[source |-> x.source, count |-> x.total, errors |-> x.errors] : x \in best}
  BY DEF GetTopSources
<1>3. PICK x \in best : r = [source |-> x.source, count |-> x.total, errors |-> x.errors]
  BY <1>2
<1>4. x \in ReportsOf(LastDay)
  BY <1>3, SourceStatsReport
<1>5. PICK i \in LastDay : x = SourceReport(log, LastDay, log[i].source)
  BY <1>4 DEF ReportsOf
<1> DEFINE s == log[i].source
<1>6. /\ x.source = s /\ x.total = Cardinality(OwnOf(LastDay, s))
      /\ x.errors = SourceErrors(log, LastDay, s)
  BY <1>5, SourceReports
<1>7. s \in DOMAIN BySource(log, LastDay)
      /\ BySource(log, LastDay)[s] = Cardinality(OwnOf(LastDay, s))
  BY SourcesAre
<1> HIDE DEF T, s
<1>8. StatisticsAt(start).errorRate =
        [z \in DOMAIN BySource(log, T) |-> <<SourceErrors(log, T, z), BySource(log, T)[z]>>]
  BY StatisticsAre DEF T
<1>9. StatisticsAt(start).errorRate[s] = <<SourceErrors(log, LastDay, s), BySource(log, LastDay)[s]>>
  BY <1>1, <1>7, <1>8
<1>10. r.source = s /\ r.count = BySource(log, LastDay)[s]
       /\ r.errors = SourceErrors(log, LastDay, s)
  BY <1>3, <1>6, <1>7
<1> QED
  BY <1>9, <1>10

(* The report of a day. *)
DayOf(day) == Sampled(log, day * DayLength, (day + 1) * DayLength - 1, now)
PeaksOf(hours) == {h \in DOMAIN hours : \A g \in DOMAIN hours : hours[g] <= hours[h]}

LEMMA DailyReportIs ==
  ASSUME NEW day, NEW top
  PROVE  /\ DailyReport(log, day, top, now).total = Cardinality(DayOf(day))
         /\ DailyReport(log, day, top, now).sourceCount = Cardinality(DayOf(day))
         /\ DailyReport(log, day, top, now).peakHours = PeaksOf(ByHour(log, DayOf(day)))
         /\ DailyReport(log, day, top, now).peakCount =
              IF PeaksOf(ByHour(log, DayOf(day))) = {} THEN 0
              ELSE ByHour(log, DayOf(day))[CHOOSE h \in PeaksOf(ByHour(log, DayOf(day))) : TRUE]
<1> DEFINE sample == DayOf(day)
<1> DEFINE hours == ByHour(log, sample)
<1> DEFINE peaks == PeaksOf(hours)
<1> DEFINE total == Cardinality(sample)
<1> DEFINE count == IF peaks = {} THEN 0 ELSE hours[CHOOSE h \in peaks : TRUE]
<1> DEFINE reports == {SourceReport(log, sample, log[i].source) : i \in sample}
<1> DEFINE worst == Top(reports, top, [r \in reports |-> <<r.errors, r.total>>])
<1>1. DailyReport(log, day, top, now) =
        [total |-> total, sourceCount |-> total, peakHours |-> peaks,
         peakCount |-> count, topErrors |-> worst]
  BY Zenon DEF DailyReport, DayOf, PeaksOf
<1> HIDE DEF worst, count, total, peaks
<1>2. /\ DailyReport(log, day, top, now).total = total
      /\ DailyReport(log, day, top, now).sourceCount = total
      /\ DailyReport(log, day, top, now).peakHours = peaks
      /\ DailyReport(log, day, top, now).peakCount = count
  BY <1>1
<1> QED
  BY <1>2, Zenon DEF total, peaks, count

LEMMA HoursAre ==
  ASSUME NEW T
  PROVE  /\ DOMAIN ByHour(log, T) = {Hour(log[i].time) : i \in T}
         /\ \A h \in DOMAIN ByHour(log, T) :
              ByHour(log, T)[h] = Cardinality({i \in T : Hour(log[i].time) = h})
<1> DEFINE key == [i \in T |-> Hour(log[i].time)]
<1>1. {key[i] : i \in T} = {Hour(log[i].time) : i \in T}
  OBVIOUS
<1>2. \A h : {i \in T : key[i] = h} = {i \in T : Hour(log[i].time) = h}
  OBVIOUS
<1>3. ByHour(log, T) = Tally(T, key)
  BY DEF ByHour
<1> HIDE DEF key
<1>4. DOMAIN Tally(T, key) = {key[i] : i \in T}
      /\ \A h \in {key[i] : i \in T} : Tally(T, key)[h] = Cardinality({i \in T : key[i] = h})
  BY DEF Tally
<1> QED
  BY <1>1, <1>2, <1>3, <1>4

LEMMA PeakIsNoMore ==
  ASSUME TypeInv, NEW day, NEW top
  PROVE  DailyReport(log, day, top, now).peakCount <= DailyReport(log, day, top, now).total
<1> DEFINE T == DayOf(day)
<1> DEFINE hours == ByHour(log, T)
<1> DEFINE peaks == PeaksOf(hours)
<1>1. T \in SUBSET DOMAIN log /\ IsFiniteSet(T) /\ Cardinality(T) \in Nat
  BY SamplesAreParts DEF DayOf
<1>2. \A h \in DOMAIN hours : hours[h] <= Cardinality(T)
  <2> SUFFICES ASSUME NEW h \in DOMAIN hours PROVE hours[h] <= Cardinality(T)
    OBVIOUS
  <2>1. hours[h] = Cardinality({i \in T : Hour(log[i].time) = h})
    BY HoursAre
  <2> HIDE DEF T, hours
  <2>2. Cardinality({i \in T : Hour(log[i].time) = h}) <= Cardinality(T)
    BY <1>1, NoMore
  <2> QED
    BY <2>1, <2>2
<1>3. DailyReport(log, day, top, now).total = Cardinality(T)
      /\ DailyReport(log, day, top, now).peakCount =
           IF peaks = {} THEN 0 ELSE hours[CHOOSE h \in peaks : TRUE]
  BY DailyReportIs, Zenon
<1> HIDE DEF T, hours
<1>4. CASE peaks = {}
  BY <1>1, <1>3, <1>4
<1>5. CASE peaks # {}
  <2>1. (CHOOSE h \in peaks : TRUE) \in DOMAIN hours
    BY <1>5 DEF PeaksOf
  <2> QED
    BY <1>2, <1>3, <1>5, <2>1
<1> QED
  BY <1>4, <1>5

(* The report of the day that is not over is made of the entries of the     *)
(* statistics since it began.                                               *)
LEMMA TodayIs ==
  ASSUME TypeInv, NEW start \in 0..now, start % DayLength = 0, now < start + DayLength
  PROVE  DayOf(start \div DayLength) = SampleAt(start)
<1> DEFINE day == start \div DayLength
<1> DEFINE last == (day + 1) * DayLength - 1
<1>0. start \in Nat /\ now \in Nat /\ DayLength \in Nat \ {0}
  BY GivenTimes, PeriodAssumption
<1>1. day \in Int /\ day * DayLength = start
  BY <1>0, Division
<1> HIDE DEF day
<1>2. last = start + DayLength - 1
  BY <1>0, <1>1
<1> HIDE DEF last
<1>3. last \in Nat /\ now <= last /\ last # NotGiven /\ LastOf(last) = last
  BY <1>0, <1>2 DEF NotGiven, LastOf
<1>4. Found(start, last) = Found(start, now)
  <2>1. \A i \in DOMAIN log : log[i].time \in start..last <=> log[i].time \in start..now
    BY <1>0, <1>3, TimesAreNumbers
  <2> QED
    BY <1>3, <2>1, GivenTimes DEF Found
<1>5. DayOf(day) = Sampled(log, start, last, now)
  BY <1>1 DEF DayOf, last
<1>6. DayOf(day) = SampleAt(start)
  BY <1>4, <1>5, SampleIs DEF SampleAt
<1> QED
  BY <1>6 DEF day

LEMMA TodayAgrees ==
  ASSUME TypeInv, NEW start \in 0..now, start % DayLength = 0, now < start + DayLength, NEW top
  PROVE  /\ DailyReport(log, start \div DayLength, top, now).total = StatisticsAt(start).total
         /\ DailyReport(log, start \div DayLength, top, now).peakHours
              \subseteq DOMAIN StatisticsAt(start).byHour
<1> DEFINE day == start \div DayLength
<1>1. DayOf(day) = SampleAt(start)
  BY TodayIs
<1> HIDE DEF day
<1>2. DailyReport(log, day, top, now).total = Cardinality(DayOf(day))
      /\ DailyReport(log, day, top, now).peakHours = PeaksOf(ByHour(log, DayOf(day)))
  BY DailyReportIs, Zenon
<1>3. StatisticsAt(start).total = Cardinality(SampleAt(start))
      /\ StatisticsAt(start).byHour = ByHour(log, SampleAt(start))
  BY StatisticsAre, Zenon
<1>4. PeaksOf(ByHour(log, SampleAt(start))) \subseteq DOMAIN ByHour(log, SampleAt(start))
  BY DEF PeaksOf
<1>5. /\ DailyReport(log, day, top, now).total = StatisticsAt(start).total
      /\ DailyReport(log, day, top, now).peakHours \subseteq DOMAIN StatisticsAt(start).byHour
  BY <1>1, <1>2, <1>3, <1>4
<1> QED
  BY <1>5 DEF day

LEMMA RatesAreBounded ==
  ASSUME TypeInv, NEW start \in 0..now, NEW s \in DOMAIN StatisticsAt(start).errorRate
  PROVE  StatisticsAt(start).errorRate[s][1] <= StatisticsAt(start).bySource[s]
<1> DEFINE T == SampleAt(start)
<1> DEFINE sources == BySource(log, T)
<1>1. T \in SUBSET DOMAIN log
  BY SamplesAreParts DEF SampleAt
<1> HIDE DEF T
<1>2. /\ StatisticsAt(start).bySource = sources
      /\ StatisticsAt(start).errorRate =
           [z \in DOMAIN sources |-> <<SourceErrors(log, T, z), sources[z]>>]
  BY StatisticsAre, Zenon DEF T
<1>3. s \in DOMAIN sources
  BY <1>2
<1>4. SourceErrors(log, T, s) <= sources[s]
  BY <1>1, <1>3, ErrorsAreFewer
<1> HIDE DEF sources
<1>5. StatisticsAt(start).errorRate[s][1] = SourceErrors(log, T, s)
  BY <1>2, <1>3
<1> QED
  BY <1>2, <1>4, <1>5

(* The reports of one moment agree with each other and with Count           *)
(* (stats_service.go:26-82, 145-299, aggregation_service.go:84-163).        *)
THEOREM StatisticsAlwaysAgree == Spec => []StatisticsAgree
<1>1. TypeInv => StatisticsAgree
  <2> SUFFICES ASSUME TypeInv PROVE StatisticsAgree
    OBVIOUS
  <2> SUFFICES ASSUME NEW start \in 0..now
      PROVE  LET stats == GetStatistics(log, start, NotGiven, now)
                 sample == Sampled(log, start, now, now)
                 report == DailyReport(log, start \div DayLength, 1, now)
             IN /\ ~StatisticsFail(start, NotGiven, now)
                /\ stats.total = LeastOf(MaxLimit, Count(log, "", "", start, now))
                /\ \A i \in sample, j \in DOMAIN log \ sample :
                     log[j].time >= start => log[i].time <= log[j].time
                /\ SumOf(stats.bySource) = stats.total /\ SumOf(stats.byLevel) = stats.total
                /\ SumOf(stats.byHour) = stats.total
                /\ \A s \in DOMAIN stats.errorRate :
                     stats.errorRate[s][1] <= stats.bySource[s]
                /\ AggregateBySource(log, start, now, now) = stats.bySource
                /\ AggregateByLevel(log, start, now, now) = stats.byLevel
                /\ \A answer \in GetSourceStats(log, start, now) :
                     \A r \in answer.items : r.total = SumOf(r.byLevel)
                /\ start = now - DayLength =>
                     \A top \in GetTopSources(log, MaxSources, now) :
                       \A r \in top : stats.errorRate[r.source] = <<r.errors, r.count>>
                /\ report.sourceCount = report.total
                /\ report.peakCount <= report.total
                /\ (start % DayLength = 0 /\ now < start + DayLength) =>
                     report.total = stats.total
                     /\ report.peakHours \subseteq DOMAIN stats.byHour
    BY Zenon DEF StatisticsAgree
  <2> DEFINE stats == StatisticsAt(start)
  <2> DEFINE sample == SampleAt(start)
  <2> DEFINE report == DailyReport(log, start \div DayLength, 1, now)
  <2>1. ~StatisticsFail(start, NotGiven, now)
    BY StatisticsSucceed
  <2>2. /\ stats.total = Cardinality(sample) /\ stats.bySource = BySource(log, sample)
        /\ stats.byLevel = ByLevel(log, sample) /\ stats.byHour = ByHour(log, sample)
    BY StatisticsAre, Zenon
  <2>3. stats.total = LeastOf(MaxLimit, Count(log, "", "", start, now))
    <3>1. Cardinality(sample) = LeastOf(MaxLimit, Count(log, "", "", start, now))
      BY TotalIsTheCount
    <3> QED
      BY <2>2, <3>1, Zenon
  <2>4. \A i \in sample, j \in DOMAIN log \ sample :
          log[j].time >= start => log[i].time <= log[j].time
    BY TheNewestAreLeftOut
  <2>5. /\ SumOf(stats.bySource) = stats.total /\ SumOf(stats.byLevel) = stats.total
        /\ SumOf(stats.byHour) = stats.total
    <3>1. sample \in SUBSET DOMAIN log
      BY SamplesAreParts DEF SampleAt
    <3>2. /\ SumOf(BySource(log, sample)) = Cardinality(sample)
          /\ SumOf(ByLevel(log, sample)) = Cardinality(sample)
          /\ SumOf(ByHour(log, sample)) = Cardinality(sample)
      BY <3>1, ReportsAddUp
    <3> QED
      BY <2>2, <3>2, Zenon
  <2>6. \A s \in DOMAIN stats.errorRate : stats.errorRate[s][1] <= stats.bySource[s]
    BY RatesAreBounded
  <2>7. AggregateBySource(log, start, now, now) = stats.bySource
        /\ AggregateByLevel(log, start, now, now) = stats.byLevel
    BY <2>2, Zenon DEF AggregateBySource, AggregateByLevel, SampleAt
  <2>8. \A answer \in GetSourceStats(log, start, now) :
          \A r \in answer.items : r.total = SumOf(r.byLevel)
    BY SourceStatsAddUp
  <2>9. start = now - DayLength =>
          \A top \in GetTopSources(log, MaxSources, now) :
            \A r \in top : stats.errorRate[r.source] = <<r.errors, r.count>>
    BY TopSourcesAgree
  <2>10. report.sourceCount = report.total
    <3> DEFINE day == start \div DayLength
    <3> DEFINE answer == DailyReport(log, day, 1, now)
    <3>1. answer.total = Cardinality(DayOf(day)) /\ answer.sourceCount = Cardinality(DayOf(day))
      BY DailyReportIs, Zenon
    <3> QED
      BY <3>1, Zenon
  <2>11. report.peakCount <= report.total
    BY PeakIsNoMore
  <2>12. (start % DayLength = 0 /\ now < start + DayLength) =>
           report.total = stats.total /\ report.peakHours \subseteq DOMAIN stats.byHour
    BY TodayAgrees
  <2> HIDE DEF report
  <2> QED
    BY <2>1, <2>3, <2>4, <2>5, <2>6, <2>7, <2>8, <2>9, <2>10, <2>11, <2>12, Zenon
       DEF StatisticsAt, SampleAt, report
<1> QED
  BY <1>1, IInvHolds, PTL DEF IInv

-----------------------------------------------------------------------------
(* Pages of any limit and offset. *)

AskedFor(limit, offset) ==
  ParseLogQuery([source |-> Filter, limit |-> limit, offset |-> offset])

AsksForSlice(q, limit, offset) ==
  /\ DOMAIN q = DOMAIN DefaultLogQuery
  /\ q.limit = limit /\ q.offset = offset
  /\ AsksForSource(q)

LEMMA AskedForIs ==
  ASSUME NEW limit \in Nat, NEW offset \in Nat
  PROVE  AsksForSlice(AskedFor(limit, offset), limit, offset)
<1> DEFINE params == [source |-> Filter, limit |-> limit, offset |-> offset]
<1>1. /\ DOMAIN params = {"source", "limit", "offset"}
      /\ params["source"] = Filter /\ params["limit"] = limit /\ params["offset"] = offset
  OBVIOUS
<1>2. /\ DOMAIN DefaultLogQuery =
           {"source", "level", "keywords", "start", "end", "limit", "offset", "order"}
      /\ DefaultLogQuery["level"] = "" /\ DefaultLogQuery["keywords"] = {}
      /\ DefaultLogQuery["start"] = NotGiven /\ DefaultLogQuery["end"] = NotGiven
  BY DEF DefaultLogQuery
<1> HIDE DEF params
<1>3. AskedFor(limit, offset) =
        [f \in DOMAIN DefaultLogQuery |->
           IF f \in DOMAIN params THEN params[f] ELSE DefaultLogQuery[f]]
  BY DEF AskedFor, ParseLogQuery, params
<1> QED
  BY <1>1, <1>2, <1>3 DEF AsksForSlice, AsksForSource

(* The wanted entries are those that Count counts. *)
LEMMA WantedAreCounted ==
  ASSUME TypeInv
  PROVE  Cardinality(WantsIn(log)) = Count(log, Filter, "", 0, now)
<1>1. \A i \in DOMAIN log : log[i].time \in 0..now
  BY TimesAreNumbers
<1>2. WantsIn(log) = {i \in DOMAIN log : /\ log[i].time \in 0..now
                                        /\ Filter \in {"", log[i].source}
                                        /\ "" \in {"", log[i].level}}
  BY <1>1 DEF WantsIn, Wanted
<1> QED
  BY <1>2 DEF Count

(* No limit, offset or log makes a page that Go could not slice             *)
(* (memory_log_store.go:165-181).                                           *)
THEOREM PagesAreAlwaysSlices == Spec => []PagesAreSlices
<1>1. TypeInv => PagesAreSlices
  <2> SUFFICES ASSUME TypeInv PROVE PagesAreSlices
    OBVIOUS
  <2> SUFFICES ASSUME NEW limit \in Nat, NEW offset \in Nat
               PROVE  IsSlice(AskedFor(limit, offset))
    <3>1. MaxLimit \in Nat
      BY LimitAssumption
    <3>2. Len(log) \in Nat
      BY TimesAreNumbers
    <3>3. \A k \in Nat : 0..k + 1 \subseteq Nat
      OBVIOUS
    <3>4. 0..MaxLimit + 1 \subseteq Nat /\ 0..Len(log) + 1 \subseteq Nat
      BY <3>1, <3>2, <3>3, Zenon
    <3> QED
      BY <3>4, Zenon DEF PagesAreSlices, AskedFor
  <2> DEFINE asked == AskedFor(limit, offset)
  <2> DEFINE answer == Query(log, asked, now)
  <2> DEFINE n == PageLimit(asked)
  <2> DEFINE total == Cardinality(WantsIn(log))
  <2> DEFINE begin == PageFrom(asked, total)
  <2> DEFINE end == PageTo(asked, total)
  <2>0. AsksForSlice(asked, limit, offset)
    BY AskedForIs
  <2> HIDE DEF asked
  <2>1. /\ DOMAIN asked = DOMAIN DefaultLogQuery
        /\ asked.limit = limit /\ asked.offset = offset /\ AsksForSource(asked)
    BY <2>0 DEF AsksForSlice
  <2>2. Queries(asked) /\ Matching(log, asked, now) = WantsIn(log)
    BY <2>1, SourceMatches DEF Queries
  <2>3. Positioned(log, WantsIn(log))
    BY Wants DEF TypeInv
  <2>4. /\ total \in Nat /\ begin \in Nat /\ end \in Nat /\ n \in Nat
        /\ begin <= end /\ end <= total /\ end <= begin + n
        /\ answer.total = total
    BY <2>2, <2>3, QueryIsPart
  <2>5. PageBegin(Clipped(asked), total) = begin /\ PageEnd(Clipped(asked), total) = end
    BY <2>1, ClippedKeeps DEF PageBegin, PageEnd, PageFrom, PageTo
  <2>6. Len(answer.items) = end - begin
    BY <2>2, <2>3, QueryAnswers DEF PageFrom, PageTo
  <2>7. n <= limit /\ n <= MaxLimit
    BY <2>1, LimitAssumption, LeastOfBounds DEF PageLimit
  <2>8. total = Count(log, Filter, "", 0, now)
    BY WantedAreCounted
  <2>9. limit \in Nat /\ MaxLimit \in Nat
    BY LimitAssumption
  <2> HIDE DEF answer, n, total, begin, end
  <2>10. Len(answer.items) <= limit /\ Len(answer.items) <= MaxLimit
    BY <2>4, <2>6, <2>7, <2>9
  <2> QED
    BY <2>1, <2>4, <2>5, <2>6, <2>8, <2>10 DEF IsSlice, asked, answer
<1>2. IInv => TypeInv
  BY DEF IInv
<1> QED
  BY <1>1, <1>2, IInvHolds, PTL

-----------------------------------------------------------------------------
(* The hours of a trend. *)

Since(hours) == now - hours * HourLength
SampleOf(hours) == Sampled(log, Since(hours), now, now)
HourOf(i) == Hour(log[i].time)

LEMMA HourGrows ==
  ASSUME NEW a \in Int, NEW b \in Int
  PROVE  Hour(a) \in Int /\ (a <= b => Hour(a) <= Hour(b))
<1>1. HourLength \in Nat \ {0}
  BY PeriodAssumption
<1>2. Hour(a) \in Int
  BY <1>1, Division DEF Hour
<1>3. ASSUME a <= b PROVE Hour(a) <= Hour(b)
  BY <1>1, <1>3, QuotientGrows DEF Hour
<1> QED
  BY <1>2, <1>3

LEMMA HoursSince ==
  ASSUME TypeInv, NEW hours \in Nat
  PROVE  /\ Hour(now) \in Int /\ Hour(Since(hours)) = Hour(now) - hours
         /\ SampleOf(hours) \in SUBSET DOMAIN log
         /\ \A i \in SampleOf(hours) :
              HourOf(i) \in Int /\ Hour(now) - hours <= HourOf(i) /\ HourOf(i) <= Hour(now)
<1> DEFINE start == Since(hours)
<1>0. HourLength \in Nat \ {0} /\ now \in Nat /\ hours * HourLength \in Nat
  BY TimesAreNumbers, PeriodAssumption
<1>1. start \in Int /\ start = now - hours * HourLength
  BY <1>0 DEF Since
<1>2. Hour(now) \in Int /\ Hour(start) = Hour(now) - hours
  <2>1. (now - hours * HourLength) \div HourLength = (now \div HourLength) - hours
    BY <1>0, QuotientBack
  <2>2. Hour(now) \in Int
    BY <1>0, HourGrows
  <2> QED
    BY <2>1, <2>2 DEF Hour, Since
<1> HIDE DEF start
<1>3. SampleOf(hours) \in SUBSET Found(start, now) /\ SampleOf(hours) \in SUBSET DOMAIN log
  BY SamplesAreParts DEF SampleOf, start
<1>4. ASSUME NEW i \in SampleOf(hours)
      PROVE  HourOf(i) \in Int /\ Hour(now) - hours <= HourOf(i) /\ HourOf(i) <= Hour(now)
  <2>1. log[i].time \in Nat /\ log[i].time <= now
    BY <1>3, TimesAreNumbers
  <2>2. log[i].time \in FirstOf(start)..LastOf(now)
    BY <1>3 DEF Found
  <2>3. FirstOf(start) \in Int /\ start <= FirstOf(start) /\ LastOf(now) \in Int
    BY <1>0, <1>1 DEF FirstOf, LastOf, NotGiven
  <2>4. start <= log[i].time
    BY <1>1, <2>1, <2>2, <2>3
  <2>5. Hour(start) <= HourOf(i) /\ HourOf(i) <= Hour(now) /\ HourOf(i) \in Int
    BY <1>0, <1>1, <2>1, <2>4, HourGrows DEF HourOf
  <2> QED
    BY <1>2, <2>5
<1> QED
  BY <1>2, <1>3, <1>4 DEF start

(* The hours are those that the trend lists, each once. *)
ListedHour(hours, n) == Hour(now) - (hours - n)
CountOf(hours, n) == Cardinality({i \in SampleOf(hours) : HourOf(i) = ListedHour(hours, n)})

LEMMA TrendsAre ==
  ASSUME NEW hours
  PROVE  /\ DOMAIN HourlyTrends(log, hours, now) = 1..hours
         /\ \A n \in 1..hours :
              /\ HourlyTrends(log, hours, now)[n].hour = ListedHour(hours, n)
              /\ HourlyTrends(log, hours, now)[n].count = CountOf(hours, n)
<1> DEFINE sample == SampleOf(hours)
<1> DEFINE listed == TrendHours(hours, now)
<1> DEFINE InHour(set, n) == {i \in set : Hour(log[i].time) = listed[n]}
<1> DEFINE errors(n) == Cardinality(InHour(Errors(log, sample), n))
<1>1. HourlyTrends(log, hours, now) =
        [n \in 1..hours |-> [hour |-> listed[n], count |-> Cardinality(InHour(sample, n)),
                             errors |-> errors(n)]]
  BY Zenon DEF HourlyTrends, SampleOf, Since
<1>2. \A n \in 1..hours : listed[n] = ListedHour(hours, n)
  BY DEF TrendHours, ListedHour
<1>3. \A n \in 1..hours : Cardinality(InHour(sample, n)) = CountOf(hours, n)
  BY <1>2 DEF CountOf, HourOf
<1> HIDE DEF errors, InHour, listed, sample
<1>4. /\ DOMAIN HourlyTrends(log, hours, now) = 1..hours
      /\ \A n \in 1..hours :
           /\ HourlyTrends(log, hours, now)[n].hour = listed[n]
           /\ HourlyTrends(log, hours, now)[n].count = Cardinality(InHour(sample, n))
  BY <1>1
<1> QED
  BY <1>2, <1>3, <1>4

MissedOf(hours) == {i \in SampleOf(hours) : HourOf(i) = Hour(Since(hours))}

(* The counts of the hours add up to all but those of the first one. *)
LEMMA CountsAddUp ==
  ASSUME TypeInv, NEW hours \in Nat,
         NEW counts, DOMAIN counts = 1..hours, \A n \in 1..hours : counts[n] = CountOf(hours, n)
  PROVE  SumOf(counts) = Cardinality(SampleOf(hours)) - Cardinality(MissedOf(hours))
<1> DEFINE T == SampleOf(hours) \ MissedOf(hours)
<1> DEFINE key == [i \in T |-> HourOf(i) - Hour(now) + hours]
<1>1. /\ Hour(now) \in Int /\ Hour(Since(hours)) = Hour(now) - hours
      /\ SampleOf(hours) \in SUBSET DOMAIN log
      /\ \A i \in SampleOf(hours) :
           HourOf(i) \in Int /\ Hour(now) - hours <= HourOf(i) /\ HourOf(i) <= Hour(now)
  BY HoursSince
<1>2. \A i \in T : HourOf(i) # Hour(now) - hours
  BY <1>1 DEF MissedOf
<1>3. \A i \in T : key[i] \in 1..hours
  BY <1>1, <1>2
<1>4. ASSUME NEW n \in 1..hours
      PROVE  Those(T, key, n) = {i \in SampleOf(hours) : HourOf(i) = ListedHour(hours, n)}
  <2>1. \A i \in SampleOf(hours) : HourOf(i) = ListedHour(hours, n) => i \in T
    BY <1>1 DEF MissedOf, ListedHour
  <2>2. \A i \in T : key[i] = n <=> HourOf(i) = ListedHour(hours, n)
    BY <1>1 DEF ListedHour
  <2> HIDE DEF key
  <2>3. T \subseteq SampleOf(hours)
    OBVIOUS
  <2> HIDE DEF T
  <2> QED
    BY <2>1, <2>2, <2>3 DEF Those
<1>5. \A n \in DOMAIN counts : counts[n] = Cardinality(Those(T, key, n))
  BY <1>4 DEF CountOf
<1>6. Cardinality(T) = Cardinality(SampleOf(hours)) - Cardinality(MissedOf(hours))
  <2>1. IsFiniteSet(SampleOf(hours)) /\ MissedOf(hours) \subseteq SampleOf(hours)
    BY SamplesAreParts DEF SampleOf, MissedOf
  <2>2. IsFiniteSet(MissedOf(hours)) /\ IsFiniteSet(T) /\ T \cap MissedOf(hours) = {}
        /\ T \cup MissedOf(hours) = SampleOf(hours)
    BY <2>1, FS_Subset
  <2>3. Cardinality(SampleOf(hours)) =
          Cardinality(T) + Cardinality(MissedOf(hours)) - Cardinality(T \cap MissedOf(hours))
    BY <2>2, FS_Union
  <2>4. Cardinality(T \cap MissedOf(hours)) = 0
    BY <2>2, FS_EmptySet
  <2>5. Cardinality(T) \in Nat /\ Cardinality(MissedOf(hours)) \in Nat
    BY <2>2, FS_CardinalityType
  <2> HIDE DEF T
  <2> QED
    BY <2>3, <2>4, <2>5
<1>7. T \in SUBSET (1..Len(log)) /\ Len(log) \in Nat
  BY <1>1, TimesAreNumbers
<1>8. \A i \in T : key[i] \in DOMAIN counts
  BY <1>3
<1> HIDE DEF T, key
<1>9. Cardinality(Tallied(counts, Len(log))) = Cardinality(T)
  BY <1>5, <1>7, <1>8, KeysAddUp
<1> QED
  BY <1>6, <1>9 DEF SumOf, Tallied

WithTheFirst(hours, trends) ==
  [h \in {Hour(log[i].time) : i \in MissedOf(hours)}
       \cup {trends[n].hour : n \in {m \in DOMAIN trends : trends[m].count > 0}}
     |-> IF h = Hour(Since(hours)) THEN Cardinality(MissedOf(hours))
         ELSE trends[CHOOSE n \in DOMAIN trends : trends[n].hour = h].count]

(* The aggregation counts the hours of the trend, and the first one too. *)
LEMMA AggregateIs ==
  ASSUME TypeInv, NEW hours \in Nat, NEW trends, trends = HourlyTrends(log, hours, now)
  PROVE  AggregateByHour(log, hours, now) = WithTheFirst(hours, trends)
<1> DEFINE T == SampleOf(hours)
<1> DEFINE f == ByHour(log, T)
<1> DEFINE K == {Hour(log[i].time) : i \in MissedOf(hours)}
                  \cup {trends[n].hour : n \in {m \in DOMAIN trends : trends[m].count > 0}}
<1> DEFINE g(h) == IF h = Hour(Since(hours)) THEN Cardinality(MissedOf(hours))
                   ELSE trends[CHOOSE n \in DOMAIN trends : trends[n].hour = h].count
<1>1. /\ Hour(now) \in Int /\ Hour(Since(hours)) = Hour(now) - hours
      /\ T \in SUBSET DOMAIN log
      /\ \A i \in T :
           HourOf(i) \in Int /\ Hour(now) - hours <= HourOf(i) /\ HourOf(i) <= Hour(now)
  BY HoursSince
<1>2. /\ DOMAIN trends = 1..hours
      /\ \A n \in 1..hours : trends[n].hour = ListedHour(hours, n)
                             /\ trends[n].count = CountOf(hours, n)
  BY TrendsAre
<1>3. AggregateByHour(log, hours, now) = f
  BY DEF AggregateByHour, SampleOf, Since
<1>4. /\ DOMAIN f = {HourOf(i) : i \in T}
      /\ \A h \in DOMAIN f : f[h] = Cardinality({i \in T : HourOf(i) = h})
      /\ f = [h \in DOMAIN f |-> f[h]]
  <2>1. f = [h \in DOMAIN f |-> f[h]]
    BY DEF ByHour, Tally
  <2> QED
    BY <2>1, HoursAre DEF HourOf
<1>5. IsFiniteSet(T)
  BY SamplesAreParts DEF SampleOf
<1> HIDE DEF T, f, K
<1>6. ASSUME NEW n \in 1..hours
      PROVE  trends[n].count > 0 <=> \E i \in T : HourOf(i) = ListedHour(hours, n)
  <2> DEFINE S == {i \in T : HourOf(i) = ListedHour(hours, n)}
  <2>1. IsFiniteSet(S)
    BY <1>5, FS_Subset
  <2>2. Cardinality(S) \in Nat /\ (Cardinality(S) = 0 <=> S = {})
    BY <2>1, FS_CardinalityType, FS_EmptySet
  <2>3. trends[n].count = Cardinality(S)
    BY <1>2 DEF CountOf, T
  <2>4. trends[n].count > 0 <=> S # {}
    BY <2>2, <2>3
  <2> QED
    BY <2>4
<1>7. DOMAIN f = K
  <2>1. ASSUME NEW i \in T PROVE HourOf(i) \in K
    <3>1. CASE HourOf(i) = Hour(Since(hours))
      <4>1. i \in MissedOf(hours)
        BY <3>1 DEF MissedOf, T
      <4> QED
        BY <4>1 DEF K, HourOf
    <3>2. CASE HourOf(i) # Hour(Since(hours))
      <4> DEFINE n == HourOf(i) - Hour(now) + hours
      <4>1. n \in 1..hours /\ HourOf(i) = ListedHour(hours, n)
        BY <1>1, <3>2 DEF ListedHour
      <4> HIDE DEF n
      <4>2. n \in {m \in DOMAIN trends : trends[m].count > 0} /\ trends[n].hour = HourOf(i)
        BY <1>2, <1>6, <4>1
      <4> QED
        BY <4>2 DEF K
    <3> QED
      BY <3>1, <3>2
  <2>2. ASSUME NEW h \in K PROVE \E i \in T : HourOf(i) = h
    <3>1. CASE h \in {Hour(log[i].time) : i \in MissedOf(hours)}
      BY <3>1 DEF MissedOf, HourOf, T
    <3>2. CASE h \in {trends[n].hour : n \in {m \in DOMAIN trends : trends[m].count > 0}}
      <4>1. PICK n \in 1..hours : trends[n].count > 0 /\ h = trends[n].hour
        BY <1>2, <3>2
      <4> QED
        BY <1>2, <1>6, <4>1
    <3> QED
      BY <3>1, <3>2 DEF K
  <2> QED
    BY <1>4, <2>1, <2>2
<1>8. ASSUME NEW h \in K PROVE f[h] = g(h)
  <2>1. f[h] = Cardinality({i \in T : HourOf(i) = h})
    BY <1>4, <1>7
  <2>2. CASE h = Hour(Since(hours))
    <3>1. {i \in T : HourOf(i) = h} = MissedOf(hours)
      BY <2>2 DEF MissedOf, T
    <3> QED
      BY <2>1, <2>2, <3>1
  <2>3. CASE h # Hour(Since(hours))
    <3>1. PICK i \in T : HourOf(i) = h
      BY <1>4, <1>7
    <3> DEFINE n == h - Hour(now) + hours
    <3>2. n \in 1..hours /\ h = ListedHour(hours, n)
      BY <1>1, <2>3, <3>1 DEF ListedHour
    <3>3. \A m \in 1..hours : h = ListedHour(hours, m) => m = n
      BY <1>1, <3>1 DEF ListedHour
    <3> HIDE DEF n
    <3>4. (CHOOSE m \in DOMAIN trends : trends[m].hour = h) = n
      BY <1>2, <3>2, <3>3
    <3>5. trends[n].count = Cardinality({j \in T : HourOf(j) = h})
      BY <1>2, <3>2 DEF CountOf, T
    <3>6. g(h) = trends[n].count
      BY <2>3, <3>4
    <3> QED
      BY <2>1, <3>5, <3>6
  <2> QED
    BY <2>2, <2>3
<1>9. f = [h \in K |-> g(h)]
  <2> HIDE DEF g
  <2> QED
    BY <1>4, <1>7, <1>8
<1> QED
  BY <1>3, <1>9, Zenon DEF K, WithTheFirst

MissesTheFirst(hours, trends) ==
  /\ SumOf([n \in DOMAIN trends |-> trends[n].count])
       = Cardinality(SampleOf(hours)) - Cardinality(MissedOf(hours))
  /\ AggregateByHour(log, hours, now) = WithTheFirst(hours, trends)

(* A trend queries the hour in which its period begins and lists it nowhere *)
(* (stats_service.go:84-106).                                               *)
THEOREM TrendsAlwaysMissTheFirstHour == Spec => []TrendsMissTheFirstHour
<1>1. TypeInv => TrendsMissTheFirstHour
  <2> SUFFICES ASSUME TypeInv, NEW given \in 0..MaxHours
      PROVE  MissesTheFirst(GetHourlyTrends(log, given, now).hours,
                            GetHourlyTrends(log, given, now).items)
    BY Zenon DEF TrendsMissTheFirstHour, MissesTheFirst, WithTheFirst, SampleOf, Since,
                 MissedOf, HourOf
  <2> DEFINE hours == InRangeOr(DefaultHours, MaxHours, given)
  <2> DEFINE trends == HourlyTrends(log, hours, now)
  <2>1. GetHourlyTrends(log, given, now).hours = hours
        /\ GetHourlyTrends(log, given, now).items = trends
    BY DEF GetHourlyTrends
  <2>2. hours \in Nat
    BY ParameterAssumption DEF InRangeOr
  <2> HIDE DEF hours
  <2>3. /\ DOMAIN trends = 1..hours
        /\ \A n \in 1..hours : trends[n].count = CountOf(hours, n)
    BY TrendsAre
  <2>4. AggregateByHour(log, hours, now) = WithTheFirst(hours, trends)
    BY <2>2, AggregateIs
  <2> HIDE DEF trends
  <2>5. SumOf([n \in DOMAIN trends |-> trends[n].count])
          = Cardinality(SampleOf(hours)) - Cardinality(MissedOf(hours))
    <3> DEFINE counts == [n \in DOMAIN trends |-> trends[n].count]
    <3>1. DOMAIN counts = 1..hours /\ \A n \in 1..hours : counts[n] = CountOf(hours, n)
      BY <2>3
    <3> HIDE DEF counts
    <3>2. SumOf(counts) = Cardinality(SampleOf(hours)) - Cardinality(MissedOf(hours))
      BY <2>2, <3>1, CountsAddUp
    <3> QED
      BY <3>2 DEF counts
  <2>6. MissesTheFirst(hours, trends)
    BY <2>4, <2>5, Zenon DEF MissesTheFirst
  <2> QED
    BY <2>1, <2>6, Zenon
<1> QED
  BY <1>1, IInvHolds, PTL DEF IInv
=============================================================================
