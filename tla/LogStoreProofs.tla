--------------------------- MODULE LogStoreProofs ---------------------------
(***************************************************************************)
(* Proofs about LogStore, for every value of its constants.  The inductive *)
(* invariant is IndInv; the lemmas say what the helpers on sequences do to *)
(* an index without duplicates, then that each operation on the store      *)
(* preserves StoreInv, then that each action preserves IndInv.             *)
(***************************************************************************)
EXTENDS LogStore, FiniteSetTheorems, SequenceTheorems, TLAPS

-----------------------------------------------------------------------------
(* Helpers on sequences.                                                    *)

(* RemoveAt shifts what follows the removed position one place left, as the *)
(* code's append(s[:i], s[i+1:]...) does.                                   *)
LEMMA RemoveAtProperties ==
  ASSUME NEW S, NEW s \in Seq(S), NEW p \in 1..Len(s)
  PROVE  /\ RemoveAt(s, p) \in Seq(S)
         /\ Len(RemoveAt(s, p)) = Len(s) - 1
         /\ \A i \in 1..(Len(s) - 1) :
              RemoveAt(s, p)[i] = IF i < p THEN s[i] ELSE s[i+1]
<1> DEFINE a == SubSeq(s, 1, p-1)
           b == SubSeq(s, p+1, Len(s))
<1>1. Len(s) \in Nat
  BY LenProperties
<1>2. a \in Seq(S) /\ Len(a) = p - 1 /\ \A i \in 1..(p-1) : a[i] = s[i]
  BY <1>1, SubSeqProperties
<1>3. b \in Seq(S) /\ Len(b) = Len(s) - p /\ \A i \in 1..(Len(s) - p) : b[i] = s[p+i]
  BY <1>1, SubSeqProperties
<1>4. RemoveAt(s, p) = a \o b
  BY DEF RemoveAt
<1>5. /\ a \o b \in Seq(S)
      /\ Len(a \o b) = Len(a) + Len(b)
      /\ \A i \in 1..(Len(a) + Len(b)) :
           (a \o b)[i] = IF i <= Len(a) THEN a[i] ELSE b[i - Len(a)]
  BY <1>2, <1>3, ConcatProperties
<1> HIDE DEF a, b
<1> QED
  BY <1>1, <1>2, <1>3, <1>4, <1>5

(* InsertAt puts one element before position p and shifts the rest right,   *)
(* as insertTimeIndex does with copy.                                       *)
LEMMA InsertAtProperties ==
  ASSUME NEW S, NEW s \in Seq(S), NEW p \in 1..(Len(s) + 1), NEW e \in S
  PROVE  /\ InsertAt(s, p, e) \in Seq(S)
         /\ Len(InsertAt(s, p, e)) = Len(s) + 1
         /\ \A i \in 1..(p - 1) : InsertAt(s, p, e)[i] = s[i]
         /\ InsertAt(s, p, e)[p] = e
         /\ \A i \in (p + 1)..(Len(s) + 1) : InsertAt(s, p, e)[i] = s[i-1]
<1> DEFINE a == SubSeq(s, 1, p-1)
           b == SubSeq(s, p, Len(s))
           ae == a \o <<e>>
<1>1. Len(s) \in Nat
  BY LenProperties
<1>2. a \in Seq(S) /\ Len(a) = p - 1 /\ \A i \in 1..(p-1) : a[i] = s[i]
  BY <1>1, SubSeqProperties
<1>3. b \in Seq(S) /\ Len(b) = Len(s) - p + 1 /\ \A i \in 1..(Len(s) - p + 1) : b[i] = s[p+i-1]
  BY <1>1, SubSeqProperties
<1>4. InsertAt(s, p, e) = ae \o b
  BY DEF InsertAt
<1>5. ae \in Seq(S) /\ Len(ae) = p /\ \A i \in 1..p : ae[i] = IF i < p THEN a[i] ELSE e
  <2> HIDE DEF a
  <2>1. <<e>> \in Seq(S) /\ Len(<<e>>) = 1 /\ <<e>>[1] = e
    OBVIOUS
  <2> QED
    BY <1>1, <1>2, <2>1, ConcatProperties
<1>6. /\ ae \o b \in Seq(S)
      /\ Len(ae \o b) = Len(ae) + Len(b)
      /\ \A i \in 1..(Len(ae) + Len(b)) :
           (ae \o b)[i] = IF i <= Len(ae) THEN ae[i] ELSE b[i - Len(ae)]
  <2> HIDE DEF ae, b
  <2> QED
    BY <1>3, <1>5, ConcatProperties
<1> HIDE DEF a, b, ae
<1>7. \A i \in 1..(p - 1) : (ae \o b)[i] = s[i]
  BY <1>1, <1>2, <1>3, <1>5, <1>6
<1>8. (ae \o b)[p] = e
  BY <1>1, <1>3, <1>5, <1>6
<1>9. \A i \in (p + 1)..(Len(s) + 1) : (ae \o b)[i] = s[i-1]
  <2> SUFFICES ASSUME NEW i \in (p + 1)..(Len(s) + 1)
               PROVE  (ae \o b)[i] = s[i-1]
    OBVIOUS
  <2>1. (ae \o b)[i] = b[i - p]
    BY <1>1, <1>3, <1>5, <1>6
  <2>2. i - p \in 1..(Len(s) - p + 1) /\ p + (i - p) - 1 = i - 1
    BY <1>1
  <2>3. b[i - p] = s[p + (i - p) - 1]
    BY <1>3, <2>2
  <2> QED
    BY <2>1, <2>2, <2>3
<1> QED
  BY <1>1, <1>3, <1>4, <1>5, <1>6, <1>7, <1>8, <1>9

(* On a sequence without duplicates, DropFirst removes the element and      *)
(* keeps every other one, in order: `f' maps new positions to old ones.     *)
LEMMA DropFirstProperties ==
  ASSUME NEW S, NEW s \in Seq(S), NEW e, NoDuplicates(s)
  PROVE  /\ DropFirst(s, e) \in Seq(S)
         /\ Len(DropFirst(s, e)) \in {Len(s) - 1, Len(s)}
         /\ \A i \in DOMAIN DropFirst(s, e) : DropFirst(s, e)[i] # e
         /\ NoDuplicates(DropFirst(s, e))
         /\ \E f \in [DOMAIN DropFirst(s, e) -> DOMAIN s] :
              /\ \A i \in DOMAIN DropFirst(s, e) : DropFirst(s, e)[i] = s[f[i]]
              /\ \A i, j \in DOMAIN DropFirst(s, e) : i < j => f[i] < f[j]
<1>0. Len(s) \in Nat /\ DOMAIN s = 1..Len(s)
  BY LenProperties
<1>1. CASE ~ \E i \in DOMAIN s : s[i] = e
  <2>1. DropFirst(s, e) = s
    BY <1>1 DEF DropFirst
  <2> DEFINE f == [i \in DOMAIN s |-> i]
  <2>2. /\ f \in [DOMAIN s -> DOMAIN s]
        /\ \A i \in DOMAIN s : s[i] = s[f[i]]
        /\ \A i, j \in DOMAIN s : i < j => f[i] < f[j]
    OBVIOUS
  <2> HIDE DEF f
  <2>3. \E g \in [DOMAIN s -> DOMAIN s] :
          /\ \A i \in DOMAIN s : s[i] = s[g[i]]
          /\ \A i, j \in DOMAIN s : i < j => g[i] < g[j]
    BY <2>2
  <2> QED
    BY <1>0, <1>1, <2>1, <2>3
<1>2. CASE \E i \in DOMAIN s : s[i] = e
  <2> DEFINE first(i) == s[i] = e /\ \A j \in 1..(i-1) : s[j] # e
             p == CHOOSE i \in DOMAIN s : first(i)
             t == RemoveAt(s, p)
             f == [i \in 1..(Len(s) - 1) |-> IF i < p THEN i ELSE i + 1]
  <2>1. PICK q \in DOMAIN s : s[q] = e
    BY <1>2
  <2>2. first(q)
    BY <1>0, <2>1 DEF NoDuplicates
  <2>3. p \in DOMAIN s /\ s[p] = e
    <3>1. p \in DOMAIN s /\ first(p)
      BY <2>2
    <3> QED
      BY <3>1
  <2>4. DropFirst(s, e) = t
    BY <1>2 DEF DropFirst
  <2> HIDE DEF p
  <2>5. /\ t \in Seq(S) /\ Len(t) = Len(s) - 1
        /\ \A i \in 1..(Len(s) - 1) : t[i] = IF i < p THEN s[i] ELSE s[i+1]
    BY <1>0, <2>3, RemoveAtProperties
  <2> HIDE DEF t
  <2>6. DOMAIN t = 1..(Len(s) - 1)
    BY <2>5
  <2>7. f \in [DOMAIN t -> DOMAIN s]
    BY <1>0, <2>3, <2>6
  <2>8. /\ \A i \in DOMAIN t : t[i] = s[f[i]] /\ f[i] # p
        /\ \A i, j \in DOMAIN t : i < j => f[i] < f[j]
        /\ \A i, j \in DOMAIN t : f[i] = f[j] => i = j
    BY <1>0, <2>3, <2>5, <2>6
  <2> HIDE DEF f
  <2>9. \A i \in DOMAIN t : t[i] # e
    BY <2>3, <2>7, <2>8 DEF NoDuplicates
  <2>10. NoDuplicates(t)
    BY <2>7, <2>8 DEF NoDuplicates
  <2>11. \E g \in [DOMAIN t -> DOMAIN s] :
          /\ \A i \in DOMAIN t : t[i] = s[g[i]]
          /\ \A i, j \in DOMAIN t : i < j => g[i] < g[j]
    BY <2>7, <2>8
  <2> QED
    BY <2>4, <2>5, <2>9, <2>10, <2>11
<1> QED
  BY <1>1, <1>2

-----------------------------------------------------------------------------
(* The operations on the store.                                             *)

StoreInv(d) ==
  /\ StoreType(d)
  /\ TimeSound(d)
  /\ TimeSorted(d)
  /\ SourceSound(d)
  /\ LevelsExact(d)
  /\ KeywordsExact(d)

(* A count of keyword positions is a natural number.                        *)
LEMMA OccurrencesType ==
  ASSUME NEW kws \in Seq(Keywords), NEW k
  PROVE  Occurrences(kws, k) \in Nat
<1> DEFINE P == {i \in DOMAIN kws : Norm[kws[i]] = k}
<1>1. DOMAIN kws = 1..Len(kws) /\ Len(kws) \in Nat
  BY LenProperties
<1>2. IsFiniteSet(1..Len(kws))
  BY <1>1, FS_Interval
<1>3. P \in SUBSET (1..Len(kws))
  BY <1>1
<1>4. IsFiniteSet(P)
  BY <1>2, <1>3, FS_Subset
<1> QED
  BY <1>4, FS_CardinalityType DEF Occurrences

(* removeEntry with the delete from the map keeps every index right and     *)
(* takes exactly one entry out of the store.                                *)
LEMMA RemoveEntryCorrect ==
  ASSUME NEW d, StoreInv(d), NEW id \in Live(d)
  PROVE  /\ StoreInv(RemoveEntry(d, id))
         /\ Live(RemoveEntry(d, id)) = Live(d) \ {id}
         /\ \A x \in Live(d) \ {id} : RemoveEntry(d, id).entries[x] = d.entries[x]
         /\ RemoveEntry(d, id).timeIndex = DropFirst(d.timeIndex, id)
         /\ \A s \in Sources : \A i \in DOMAIN RemoveEntry(d, id).sourceIndex[s] :
              \E j \in DOMAIN d.sourceIndex[s] :
                RemoveEntry(d, id).sourceIndex[s][i] = d.sourceIndex[s][j]
<1> DEFINE r == RemoveEntry(d, id)
           e == d.entries[id]
           t == DropFirst(d.timeIndex, id)
           drop(s) == DropFirst(d.sourceIndex[s], id)
<1>1. /\ e \in Entry /\ e.id = id /\ id \in Ids
      /\ e.source \in Sources /\ e.level \in Levels /\ e.keywords \in Seq(Keywords)
  BY DEF StoreInv, StoreType, Entry
<1>2. /\ DOMAIN r = {"entries", "timeIndex", "sourceIndex", "levelIndex", "keywordIndex"}
      /\ r.entries = [x \in Live(d) \ {id} |-> d.entries[x]]
      /\ r.timeIndex = t
      /\ r.sourceIndex = [d.sourceIndex EXCEPT ![e.source] = DropFirst(@, id)]
      /\ r.levelIndex = [d.levelIndex EXCEPT ![e.level][id] = Less(@, 1)]
      /\ r.keywordIndex = [k \in Keywords |->
            [d.keywordIndex[k] EXCEPT ![id] = Less(@, Occurrences(e.keywords, k))]]
  BY DEF RemoveEntry
<1> HIDE DEF r
<1>3. Live(r) = Live(d) \ {id} /\ \A x \in Live(r) : r.entries[x] = d.entries[x]
  BY <1>2 DEF Live
<1>4. /\ Live(r) \subseteq Ids /\ IsFiniteSet(Live(r))
      /\ \A x \in Live(r) : r.entries[x] \in Entry /\ r.entries[x].id = x
  <2>1. IsFiniteSet(Live(d)) /\ Live(d) \subseteq Ids
    BY DEF StoreInv, StoreType
  <2>2. IsFiniteSet(Live(d) \ {id})
    BY <2>1, FS_RemoveElement
  <2>3. \A x \in Live(d) : d.entries[x] \in Entry /\ d.entries[x].id = x
    BY DEF StoreInv, StoreType
  <2> QED
    BY <1>3, <2>1, <2>2, <2>3
<1>5. /\ t \in Seq(Ids) /\ NoDuplicates(t) /\ \A i \in DOMAIN t : t[i] # id
      /\ \E f \in [DOMAIN t -> DOMAIN d.timeIndex] :
           /\ \A i \in DOMAIN t : t[i] = d.timeIndex[f[i]]
           /\ \A i, j \in DOMAIN t : i < j => f[i] < f[j]
  <2>1. d.timeIndex \in Seq(Ids) /\ NoDuplicates(d.timeIndex)
    BY DEF StoreInv, StoreType, TimeSound
  <2> QED
    BY <2>1, DropFirstProperties, SMTT(30)
<1>6. PICK f \in [DOMAIN t -> DOMAIN d.timeIndex] :
           /\ \A i \in DOMAIN t : t[i] = d.timeIndex[f[i]]
           /\ \A i, j \in DOMAIN t : i < j => f[i] < f[j]
  BY <1>5
<1> HIDE DEF t
<1>7. TimeSound(r)
  BY <1>2, <1>3, <1>5, <1>6, SMTT(30) DEF StoreInv, TimeSound
<1>8. TimeSorted(r)
  <2> SUFFICES ASSUME NEW i \in DOMAIN t, NEW j \in DOMAIN t, i < j
               PROVE  r.entries[t[i]].ts <= r.entries[t[j]].ts
    BY <1>2 DEF TimeSorted
  <2>1. /\ r.entries[t[i]] = d.entries[d.timeIndex[f[i]]]
        /\ r.entries[t[j]] = d.entries[d.timeIndex[f[j]]]
    BY <1>2, <1>3, <1>6, <1>7, SMTT(30) DEF TimeSound
  <2>2. f[i] < f[j] /\ f[i] \in DOMAIN d.timeIndex /\ f[j] \in DOMAIN d.timeIndex
    BY <1>6
  <2> QED
    BY <2>1, <2>2 DEF StoreInv, TimeSorted
<1>9. \A s \in Sources :
        /\ drop(s) \in Seq(Ids) /\ NoDuplicates(drop(s))
        /\ \A i \in DOMAIN drop(s) : drop(s)[i] # id
        /\ \A i \in DOMAIN drop(s) : \E j \in DOMAIN d.sourceIndex[s] :
             drop(s)[i] = d.sourceIndex[s][j]
  <2> TAKE s \in Sources
  <2> DEFINE q == d.sourceIndex[s]
             u == DropFirst(q, id)
  <2>1. q \in Seq(Ids) /\ NoDuplicates(q)
    BY DEF StoreInv, StoreType, SourceSound
  <2>2. /\ u \in Seq(Ids) /\ NoDuplicates(u) /\ \A i \in DOMAIN u : u[i] # id
        /\ \E f1 \in [DOMAIN u -> DOMAIN q] :
             /\ \A i \in DOMAIN u : u[i] = q[f1[i]]
             /\ \A i, j \in DOMAIN u : i < j => f1[i] < f1[j]
    <3> HIDE DEF q
    <3> QED
      BY <2>1, DropFirstProperties
  <2>3. PICK g \in [DOMAIN u -> DOMAIN q] : \A i \in DOMAIN u : u[i] = q[g[i]]
    BY <2>2
  <2>4. \A i \in DOMAIN u : \E j \in DOMAIN q : u[i] = q[j]
    BY <2>3
  <2> QED
    BY <2>2, <2>4
<1> HIDE DEF drop
<1>10. \A s \in Sources : r.sourceIndex[s] = IF s = e.source THEN drop(s) ELSE d.sourceIndex[s]
  BY <1>1, <1>2 DEF drop, StoreInv, StoreType
<1>11. r.sourceIndex \in [Sources -> Seq(Ids)]
  BY <1>1, <1>2, <1>9 DEF drop, StoreInv, StoreType
<1>12. SourceSound(r)
  <2> SUFFICES ASSUME NEW s \in Sources
               PROVE  /\ \A i \in DOMAIN r.sourceIndex[s] :
                           /\ r.sourceIndex[s][i] \in Live(r)
                           /\ r.entries[r.sourceIndex[s][i]].source = s
                      /\ NoDuplicates(r.sourceIndex[s])
    BY DEF SourceSound
  <2>1. /\ \A i \in DOMAIN d.sourceIndex[s] :
             d.sourceIndex[s][i] \in Live(d) /\ d.entries[d.sourceIndex[s][i]].source = s
        /\ NoDuplicates(d.sourceIndex[s])
    BY DEF StoreInv, SourceSound
  <2>2. CASE s = e.source
    <3>1. r.sourceIndex[s] = drop(s) /\ NoDuplicates(drop(s))
      BY <1>9, <1>10, <2>2
    <3>2. ASSUME NEW i \in DOMAIN drop(s)
          PROVE  drop(s)[i] \in Live(r) /\ r.entries[drop(s)[i]].source = s
      <4>1. PICK j \in DOMAIN d.sourceIndex[s] : drop(s)[i] = d.sourceIndex[s][j]
        BY <1>9
      <4>2. drop(s)[i] # id
        BY <1>9
      <4> QED
        BY <1>3, <2>1, <4>1, <4>2
    <3> QED
      BY <3>1, <3>2
  <2>3. CASE s # e.source
    BY <1>3, <1>10, <2>1, <2>3
  <2> QED
    BY <2>2, <2>3
<1>13. r.levelIndex \in [Levels -> [Ids -> Nat]] /\ LevelsExact(r)
  <2>1. d.levelIndex \in [Levels -> [Ids -> Nat]] /\ LevelsExact(d)
    BY DEF StoreInv, StoreType
  <2>2. d.levelIndex[e.level][id] = 1
    BY <1>1, <2>1 DEF LevelsExact
  <2>3. Less(1, 1) = 0
    BY DEF Less
  <2>4. r.levelIndex = [d.levelIndex EXCEPT ![e.level] = [d.levelIndex[e.level] EXCEPT ![id] = 0]]
    <3>1. Less(d.levelIndex[e.level][id], 1) = 0
      BY <2>2, <2>3
    <3> QED
      BY <1>2, <3>1
  <2> HIDE DEF e
  <2>5. r.levelIndex \in [Levels -> [Ids -> Nat]]
    BY <1>1, <2>1, <2>4
  <2>6. \A l \in Levels, x \in Ids : r.levelIndex[l][x] =
          IF l = e.level /\ x = id THEN 0 ELSE d.levelIndex[l][x]
    BY <1>1, <2>1, <2>4
  <2>7. \A x \in Live(d) : x \in Live(r) <=> x # id
    BY <1>3
  <2>8. LevelsExact(r)
    BY <1>1, <1>3, <2>1, <2>6, <2>7 DEF LevelsExact, e
  <2> QED
    BY <2>5, <2>8
<1>14. r.keywordIndex \in [Keywords -> [Ids -> Nat]] /\ KeywordsExact(r)
  <2>1. \A k \in Keywords :
          /\ Occurrences(e.keywords, k) \in Nat
          /\ d.keywordIndex[k][id] = Occurrences(e.keywords, k)
    BY <1>1, OccurrencesType DEF StoreInv, KeywordsExact
  <2>2. \A n \in Nat : Less(n, n) = 0
    BY DEF Less
  <2>3. r.keywordIndex = [k \in Keywords |-> [d.keywordIndex[k] EXCEPT ![id] = 0]]
    BY <1>2, <2>1, <2>2
  <2>4. r.keywordIndex \in [Keywords -> [Ids -> Nat]]
    BY <1>1, <2>3 DEF StoreInv, StoreType
  <2>5. \A k \in Keywords, x \in Ids :
          r.keywordIndex[k][x] = IF x = id THEN 0 ELSE d.keywordIndex[k][x]
    BY <1>1, <2>3 DEF StoreInv, StoreType
  <2>6. KeywordsExact(d) /\ \A x \in Live(d) : x \in Live(r) <=> x # id
    BY <1>3 DEF StoreInv
  <2>7. KeywordsExact(r)
    BY <1>3, <2>5, <2>6 DEF KeywordsExact
  <2> QED
    BY <2>4, <2>7
<1>15. StoreType(r)
  BY <1>2, <1>4, <1>5, <1>11, <1>13, <1>14 DEF StoreType
<1>16. StoreInv(r)
  BY <1>7, <1>8, <1>12, <1>13, <1>14, <1>15 DEF StoreInv
<1>17. \A s \in Sources : \A i \in DOMAIN r.sourceIndex[s] :
         \E j \in DOMAIN d.sourceIndex[s] : r.sourceIndex[s][i] = d.sourceIndex[s][j]
  BY <1>9, <1>10
<1> QED
  BY <1>2, <1>3, <1>16, <1>17 DEF r, t

(* Storing a new entry at a position that sort.Search may return keeps      *)
(* every index right and adds exactly that entry.                           *)
LEMMA InsertCorrect ==
  ASSUME NEW d, StoreInv(d), NEW e \in Entry, e.id \notin Live(d),
         NEW pos \in InsertPositions(d, e)
  PROVE  /\ StoreInv(Insert(d, e, pos))
         /\ Live(Insert(d, e, pos)) = Live(d) \cup {e.id}
         /\ Insert(d, e, pos).timeIndex # <<>>
<1> DEFINE r == Insert(d, e, pos)
           t == InsertAt(d.timeIndex, pos + 1, e.id)
<1>1. e.id \in Ids /\ e.source \in Sources /\ e.level \in Levels /\ e.keywords \in Seq(Keywords)
      /\ e.ts \in Times
  BY DEF Entry
<1>2. /\ DOMAIN r = {"entries", "timeIndex", "sourceIndex", "levelIndex", "keywordIndex"}
      /\ r.entries = [x \in Live(d) \cup {e.id} |-> IF x = e.id THEN e ELSE d.entries[x]]
      /\ r.timeIndex = t
      /\ r.sourceIndex = [d.sourceIndex EXCEPT ![e.source] = Append(@, e.id)]
      /\ r.levelIndex = [d.levelIndex EXCEPT ![e.level][e.id] = @ + 1]
      /\ r.keywordIndex = [k \in Keywords |->
            [d.keywordIndex[k] EXCEPT ![e.id] = @ + Occurrences(e.keywords, k)]]
  BY DEF Insert
<1> HIDE DEF r
<1>3. /\ Live(r) = Live(d) \cup {e.id}
      /\ r.entries[e.id] = e
      /\ \A x \in Live(d) : x # e.id /\ r.entries[x] = d.entries[x]
  BY <1>2 DEF Live
<1>4. /\ Live(r) \subseteq Ids /\ IsFiniteSet(Live(r))
      /\ \A x \in Live(r) : r.entries[x] \in Entry /\ r.entries[x].id = x
  <2>1. IsFiniteSet(Live(d)) /\ Live(d) \subseteq Ids
    BY DEF StoreInv, StoreType
  <2>2. IsFiniteSet(Live(d) \cup {e.id})
    BY <2>1, FS_AddElement
  <2>3. \A x \in Live(d) : d.entries[x] \in Entry /\ d.entries[x].id = x
    BY DEF StoreInv, StoreType
  <2> QED
    BY <1>1, <1>3, <2>1, <2>2, <2>3
<1> DEFINE n == Len(d.timeIndex)
<1>5. /\ n \in Nat /\ DOMAIN d.timeIndex = 1..n /\ pos \in 0..n
      /\ pos < n => d.entries[d.timeIndex[pos+1]].ts > e.ts
      /\ pos > 0 => d.entries[d.timeIndex[pos]].ts <= e.ts
  <2>1. d.timeIndex \in Seq(Ids)
    BY DEF StoreInv, StoreType
  <2> QED
    BY <2>1, LenProperties DEF InsertPositions
<1>6. /\ t \in Seq(Ids) /\ Len(t) = n + 1 /\ DOMAIN t = 1..(n+1)
      /\ \A i \in 1..(n+1) : t[i] = IF i < pos + 1 THEN d.timeIndex[i]
                                    ELSE IF i = pos + 1 THEN e.id ELSE d.timeIndex[i-1]
  <2>1. d.timeIndex \in Seq(Ids) /\ pos + 1 \in 1..(n + 1)
    BY <1>5 DEF StoreInv, StoreType
  <2>2. /\ t \in Seq(Ids) /\ Len(t) = n + 1
        /\ \A i \in 1..(n+1) : t[i] = IF i < pos + 1 THEN d.timeIndex[i]
                                      ELSE IF i = pos + 1 THEN e.id ELSE d.timeIndex[i-1]
    <3> DEFINE old == d.timeIndex
               id == e.id
               p == pos + 1
    <3>1. old \in Seq(Ids) /\ p \in 1..(Len(old) + 1) /\ id \in Ids
      BY <1>1, <2>1
    <3> HIDE DEF old, id, p
    <3>2. /\ InsertAt(old, p, id) \in Seq(Ids)
          /\ Len(InsertAt(old, p, id)) = Len(old) + 1
          /\ \A i \in 1..(p-1) : InsertAt(old, p, id)[i] = old[i]
          /\ InsertAt(old, p, id)[p] = id
          /\ \A i \in (p+1)..(Len(old)+1) : InsertAt(old, p, id)[i] = old[i-1]
      BY <3>1, InsertAtProperties
    <3>3. t = InsertAt(old, p, id) /\ Len(old) = n /\ old = d.timeIndex /\ id = e.id
      BY DEF old, id, p
    <3>4. p \in Int /\ p = pos + 1
      BY <1>5 DEF p
    <3> HIDE DEF t, n
    <3>5. t \in Seq(Ids) /\ Len(t) = n + 1
      BY <3>2, <3>3
    <3>6. ASSUME NEW i \in 1..(n+1)
          PROVE  t[i] = IF i < p THEN old[i] ELSE IF i = p THEN id ELSE old[i-1]
      BY <1>5, <3>2, <3>3, <3>4
    <3> QED
      BY <3>3, <3>4, <3>5, <3>6
  <2> QED
    BY <2>2, LenProperties
<1> DEFINE old(i) == IF i < pos + 1 THEN i ELSE i - 1
<1>7. t # <<>>
  BY <1>5, <1>6
<1> HIDE DEF t
<1>8. /\ \A i \in 1..n : d.timeIndex[i] \in Live(d) /\ d.timeIndex[i] # e.id
      /\ \A i, j \in 1..n : d.timeIndex[i] = d.timeIndex[j] => i = j
  BY <1>5 DEF StoreInv, TimeSound, NoDuplicates
<1>old. /\ t[pos+1] = e.id
        /\ \A i \in 1..(n+1) : i # pos + 1 => old(i) \in 1..n /\ t[i] = d.timeIndex[old(i)]
  BY <1>5, <1>6
<1>9. TimeSound(r)
  <2>1. \A i \in 1..(n+1) : t[i] \in Live(r)
    BY <1>3, <1>8, <1>old
  <2>2. \A i, j \in 1..(n+1) : t[i] = t[j] => i = j
    <3>1. \A i \in 1..(n+1) : t[i] = e.id <=> i = pos + 1
      BY <1>8, <1>old
    <3> SUFFICES ASSUME NEW i \in 1..(n+1), NEW j \in 1..(n+1), t[i] = t[j],
                        i # pos + 1, j # pos + 1
                 PROVE  i = j
      BY <3>1
    <3>2. old(i) = old(j)
      BY <1>8, <1>old
    <3> QED
      BY <1>5, <3>2
  <2> QED
    BY <1>2, <1>6, <2>1, <2>2 DEF TimeSound, NoDuplicates
<1>10. TimeSorted(r)
  <2> DEFINE stamp(i) == d.entries[d.timeIndex[i]].ts
  <2>1. \A i \in 1..n : stamp(i) \in Int /\ r.entries[d.timeIndex[i]].ts = stamp(i)
    <3>1. \A x \in Live(d) : d.entries[x].ts \in Int
      BY BoundsAssumption DEF StoreInv, StoreType, Entry, Times
    <3> QED
      BY <1>3, <1>8, <3>1
  <2>2. \A i, j \in 1..n : i < j => stamp(i) <= stamp(j)
    BY <1>5 DEF StoreInv, TimeSorted
  <2>3. e.ts \in Int
    BY <1>1, BoundsAssumption DEF Times
  <2>4. pos < n => stamp(pos+1) > e.ts
    BY <1>5
  <2>5. pos > 0 => stamp(pos) <= e.ts
    BY <1>5
  <2> HIDE DEF stamp
  <2>6. \A i \in 1..n : i <= pos => stamp(i) <= e.ts
    BY <1>5, <2>1, <2>2, <2>3, <2>5
  <2>7. \A i \in 1..n : i > pos => e.ts <= stamp(i)
    BY <1>5, <2>1, <2>2, <2>3, <2>4
  <2>8. \A i \in 1..(n+1) : r.entries[t[i]].ts =
          IF i < pos + 1 THEN stamp(i) ELSE IF i = pos + 1 THEN e.ts ELSE stamp(i-1)
    <3> SUFFICES ASSUME NEW i \in 1..(n+1), i # pos + 1
                 PROVE  r.entries[t[i]].ts = stamp(old(i))
      BY <1>3, <1>5, <1>old
    <3> QED
      BY <1>old, <2>1
  <2>9. \A i, j \in 1..(n+1) : i < j => r.entries[t[i]].ts <= r.entries[t[j]].ts
    <3> SUFFICES ASSUME NEW i \in 1..(n+1), NEW j \in 1..(n+1), i < j
                 PROVE  r.entries[t[i]].ts <= r.entries[t[j]].ts
      OBVIOUS
    <3> HIDE DEF n
    <3>1. CASE j < pos + 1
      BY <1>5, <2>2, <2>8, <3>1
    <3>2. CASE j = pos + 1
      BY <1>5, <2>6, <2>8, <3>2
    <3>3. CASE j > pos + 1 /\ i < pos + 1
      BY <1>5, <2>2, <2>8, <3>3
    <3>4. CASE j > pos + 1 /\ i = pos + 1
      BY <1>5, <2>7, <2>8, <3>4
    <3>5. CASE i > pos + 1
      BY <1>5, <2>2, <2>8, <3>5
    <3> QED
      BY <1>5, <3>1, <3>2, <3>3, <3>4, <3>5
  <2> QED
    BY <1>2, <1>6, <2>9 DEF TimeSorted
<1>11. r.sourceIndex \in [Sources -> Seq(Ids)] /\ SourceSound(r)
  <2>1. d.sourceIndex \in [Sources -> Seq(Ids)] /\ SourceSound(d)
    BY DEF StoreInv, StoreType
  <2>2. r.sourceIndex \in [Sources -> Seq(Ids)]
    BY <1>1, <1>2, <2>1
  <2>3. \A s \in Sources : r.sourceIndex[s] =
          IF s = e.source THEN Append(d.sourceIndex[s], e.id) ELSE d.sourceIndex[s]
    BY <1>1, <1>2, <2>1
  <2>4. SUFFICES ASSUME NEW s \in Sources
               PROVE  /\ \A i \in DOMAIN r.sourceIndex[s] :
                           /\ r.sourceIndex[s][i] \in Live(r)
                           /\ r.entries[r.sourceIndex[s][i]].source = s
                      /\ NoDuplicates(r.sourceIndex[s])
    BY <2>2 DEF SourceSound
  <2> DEFINE q == d.sourceIndex[s]
  <2>5. /\ q \in Seq(Ids) /\ NoDuplicates(q)
        /\ \A i \in DOMAIN q : q[i] \in Live(d) /\ d.entries[q[i]].source = s
    BY <2>1 DEF SourceSound
  <2>6. CASE s = e.source
    <3>1. r.sourceIndex[s] = Append(q, e.id)
      BY <2>3, <2>6
    <3> HIDE DEF q
    <3>2. /\ Len(q) \in Nat /\ DOMAIN q = 1..Len(q)
          /\ DOMAIN Append(q, e.id) = 1..(Len(q) + 1)
          /\ \A i \in 1..(Len(q) + 1) :
               Append(q, e.id)[i] = IF i <= Len(q) THEN q[i] ELSE e.id
      BY <1>1, <2>5, AppendProperties, LenProperties
    <3>3. \A i \in 1..Len(q) : q[i] # e.id
      BY <2>5, <3>2
    <3>4. NoDuplicates(Append(q, e.id))
      BY <2>5, <3>2, <3>3 DEF NoDuplicates
    <3>5. ASSUME NEW i \in 1..(Len(q) + 1)
          PROVE  /\ Append(q, e.id)[i] \in Live(r)
                 /\ r.entries[Append(q, e.id)[i]].source = s
      BY <1>3, <2>5, <2>6, <3>2
    <3> QED
      BY <3>1, <3>2, <3>4, <3>5
  <2>7. CASE s # e.source
    BY <1>3, <2>3, <2>5, <2>7
  <2> QED
    BY <2>6, <2>7
<1>12. r.levelIndex \in [Levels -> [Ids -> Nat]] /\ LevelsExact(r)
  <2>1. d.levelIndex \in [Levels -> [Ids -> Nat]] /\ LevelsExact(d)
    BY DEF StoreInv, StoreType
  <2>2. r.levelIndex \in [Levels -> [Ids -> Nat]]
    BY <1>1, <1>2, <2>1
  <2>3. \A l \in Levels, x \in Ids : r.levelIndex[l][x] =
          IF l = e.level /\ x = e.id THEN d.levelIndex[l][x] + 1 ELSE d.levelIndex[l][x]
    BY <1>1, <1>2, <2>1
  <2>4. \A l \in Levels : d.levelIndex[l][e.id] = 0
    BY <1>1, <2>1 DEF LevelsExact
  <2>5. LevelsExact(r)
    BY <1>1, <1>3, <2>1, <2>3, <2>4, SMTT(30) DEF LevelsExact
  <2> QED
    BY <2>2, <2>5
<1>13. r.keywordIndex \in [Keywords -> [Ids -> Nat]] /\ KeywordsExact(r)
  <2>1. d.keywordIndex \in [Keywords -> [Ids -> Nat]] /\ KeywordsExact(d)
    BY DEF StoreInv, StoreType
  <2>2. \A k \in Keywords : Occurrences(e.keywords, k) \in Nat
    BY <1>1, OccurrencesType
  <2>3. \A k \in Keywords : d.keywordIndex[k][e.id] = 0
    BY <1>1, <2>1 DEF KeywordsExact
  <2>4. \A k \in Keywords, x \in Ids : r.keywordIndex[k][x] =
          IF x = e.id THEN Occurrences(e.keywords, k) ELSE d.keywordIndex[k][x]
    BY <1>1, <1>2, <2>1, <2>2, <2>3
  <2>5. r.keywordIndex \in [Keywords -> [Ids -> Nat]]
    BY <1>1, <1>2, <2>1, <2>2
  <2>6. KeywordsExact(r)
    BY <1>1, <1>3, <2>1, <2>4 DEF KeywordsExact
  <2> QED
    BY <2>5, <2>6
<1>14. StoreType(r)
  BY <1>2, <1>4, <1>6, <1>11, <1>12, <1>13 DEF StoreType
<1>15. StoreInv(r)
  BY <1>9, <1>10, <1>11, <1>12, <1>13, <1>14 DEF StoreInv
<1> QED
  BY <1>2, <1>3, <1>7, <1>15 DEF r

(* What evictOldest removes before its reslice: the head of timeIndex, with *)
(* no visible entry older than it.                                          *)
LEMMA RemoveOldestCorrect ==
  ASSUME NEW d, StoreInv(d), d.timeIndex # <<>>
  PROVE  /\ Head(d.timeIndex) \in Live(d)
         /\ RemoveOldest(d) = RemoveEntry(d, Head(d.timeIndex))
         /\ StoreInv(RemoveOldest(d))
         /\ Live(RemoveOldest(d)) = Live(d) \ {Head(d.timeIndex)}
         /\ \A i \in DOMAIN d.timeIndex :
              d.entries[Head(d.timeIndex)].ts <= d.entries[d.timeIndex[i]].ts
<1> DEFINE h == Head(d.timeIndex)
<1>1. d.timeIndex \in Seq(Ids) /\ Len(d.timeIndex) \in Nat /\ DOMAIN d.timeIndex = 1..Len(d.timeIndex)
  BY LenProperties DEF StoreInv, StoreType
<1>2. 1 \in DOMAIN d.timeIndex /\ h = d.timeIndex[1]
  BY <1>1
<1>3. h \in Live(d)
  BY <1>2 DEF StoreInv, TimeSound
<1>4. RemoveOldest(d) = RemoveEntry(d, h)
  BY <1>3 DEF RemoveOldest
<1>5. StoreInv(RemoveEntry(d, h)) /\ Live(RemoveEntry(d, h)) = Live(d) \ {h}
  BY <1>3, RemoveEntryCorrect
<1>6. \A i \in DOMAIN d.timeIndex : d.entries[h].ts <= d.entries[d.timeIndex[i]].ts
  <2> SUFFICES ASSUME NEW i \in DOMAIN d.timeIndex
               PROVE  d.entries[h].ts <= d.entries[d.timeIndex[i]].ts
    OBVIOUS
  <2>1. CASE i = 1
    <3>1. d.entries[h].ts \in Int
      BY <1>3, BoundsAssumption DEF StoreInv, StoreType, Entry, Times
    <3> QED
      BY <1>2, <2>1, <3>1
  <2>2. CASE i # 1
    BY <1>1, <1>2, <2>2 DEF StoreInv, TimeSorted
  <2> QED
    BY <2>1, <2>2
<1> QED
  BY <1>3, <1>4, <1>5, <1>6

(* The reslice takes one more id out of timeIndex and nothing else: the     *)
(* store keeps its invariant, though not the completeness of timeIndex.     *)
LEMMA EvictOldestCorrect ==
  ASSUME NEW d, StoreInv(d), d.timeIndex # <<>>, ~EvictPanics(d)
  PROVE  /\ StoreInv(EvictOldest(d))
         /\ Live(EvictOldest(d)) = Live(d) \ {Head(d.timeIndex)}
<1> DEFINE m == RemoveOldest(d)
           r == EvictOldest(d)
<1>1. StoreInv(m) /\ Live(m) = Live(d) \ {Head(d.timeIndex)}
  BY RemoveOldestCorrect
<1>2. m.timeIndex # <<>>
  BY DEF EvictPanics
<1>3. r = [m EXCEPT !.timeIndex = Tail(@)]
  BY DEF EvictOldest
<1> HIDE DEF m, r
<1>4. DOMAIN m = {"entries", "timeIndex", "sourceIndex", "levelIndex", "keywordIndex"}
  BY <1>1 DEF StoreInv, StoreType
<1>5. /\ DOMAIN r = DOMAIN m
      /\ r.entries = m.entries
      /\ r.timeIndex = Tail(m.timeIndex)
      /\ r.sourceIndex = m.sourceIndex
      /\ r.levelIndex = m.levelIndex
      /\ r.keywordIndex = m.keywordIndex
  BY <1>3, <1>4
<1> DEFINE s == m.timeIndex
           t == Tail(s)
<1>6. s \in Seq(Ids) /\ s # <<>>
  BY <1>1, <1>2 DEF StoreInv, StoreType
<1>7. TimeSound(m) /\ TimeSorted(m)
  BY <1>1 DEF StoreInv
<1>8. /\ t \in Seq(Ids)
      /\ \A i \in DOMAIN t : i + 1 \in DOMAIN s /\ t[i] = s[i+1] /\ i \in Int
  <2> HIDE DEF s
  <2> QED
    BY <1>6, HeadTailProperties, LenProperties
<1>9. Live(r) = Live(m)
  BY <1>5 DEF Live
<1>10. TimeSound(r)
  <2>1. \A i \in DOMAIN t : t[i] \in Live(r)
    BY <1>7, <1>8, <1>9 DEF TimeSound
  <2>2. \A i, j \in DOMAIN t : t[i] = t[j] => i = j
    <3> SUFFICES ASSUME NEW i \in DOMAIN t, NEW j \in DOMAIN t, t[i] = t[j]
                 PROVE  i = j
      OBVIOUS
    <3> HIDE DEF s, t
    <3>1. i + 1 = j + 1
      BY <1>7, <1>8 DEF TimeSound, NoDuplicates, s
    <3> QED
      BY <1>8, <3>1
  <2> QED
    BY <1>5, <2>1, <2>2 DEF TimeSound, NoDuplicates
<1>11. TimeSorted(r)
  <2> SUFFICES ASSUME NEW i \in DOMAIN t, NEW j \in DOMAIN t, i < j
               PROVE  r.entries[t[i]].ts <= r.entries[t[j]].ts
    BY <1>5 DEF TimeSorted
  <2>1. i + 1 \in DOMAIN s /\ j + 1 \in DOMAIN s /\ i + 1 < j + 1
    BY <1>8
  <2>2. m.entries[s[i+1]].ts <= m.entries[s[j+1]].ts
    BY <1>7, <2>1 DEF TimeSorted
  <2> QED
    BY <1>5, <1>8, <2>2
<1>12. StoreType(r)
  BY <1>1, <1>4, <1>5, <1>8, <1>9 DEF StoreInv, StoreType
<1>13. SourceSound(r) /\ LevelsExact(r) /\ KeywordsExact(r)
  BY <1>1, <1>5, <1>9 DEF StoreInv, SourceSound, LevelsExact, KeywordsExact
<1>14. StoreInv(r)
  BY <1>10, <1>11, <1>12, <1>13 DEF StoreInv
<1> QED
  BY <1>1, <1>9, <1>14 DEF r

-----------------------------------------------------------------------------
(* The inductive invariant: the store's own invariant, the room it keeps    *)
(* for an eviction, the identifiers in flight, and what DeleteBySource may  *)
(* still visit.                                                             *)

PendingFresh ==
  /\ \A c \in Clients : \A i \in DOMAIN batch[c] : batch[c][i].id \notin Live(db)
  /\ \A c1, c2 \in Clients : \A i \in DOMAIN batch[c1], j \in DOMAIN batch[c2] :
       batch[c1][i].id = batch[c2][j].id => c1 = c2 /\ i = j

DeleteSound ==
  mu.kind = "delete" =>
    \A i \in DOMAIN mu.ids :
      mu.ids[i] \in Live(db) => db.entries[mu.ids[i]].source = mu.source

IndInv ==
  /\ TypeOK
  /\ StoreInv(db)
  /\ Capacity
  /\ AlwaysEvictable
  /\ PendingFresh
  /\ DeleteSound

(* Initially the store is empty. *)
LEMMA InitIndInv == Init => IndInv
<1> SUFFICES ASSUME Init PROVE IndInv
  OBVIOUS
<1>1. /\ db = EmptyStore /\ mu = Free /\ now = 0
      /\ phase = [c \in Clients |-> "idle"] /\ batch = [c \in Clients |-> <<>>]
  BY DEF Init
<1>2. Live(db) = {} /\ db.timeIndex = <<>> /\ \A s \in Sources : db.sourceIndex[s] = <<>>
  BY <1>1 DEF EmptyStore, Live
<1>3. StoreType(db)
  <2>1. DOMAIN db = {"entries", "timeIndex", "sourceIndex", "levelIndex", "keywordIndex"}
    BY <1>1 DEF EmptyStore
  <2>2. Live(db) \subseteq Ids /\ IsFiniteSet(Live(db)) /\ \A id \in Live(db) : FALSE
    BY <1>2, FS_EmptySet
  <2>3. <<>> \in Seq(Ids)
    OBVIOUS
  <2>4. db.timeIndex \in Seq(Ids) /\ db.sourceIndex \in [Sources -> Seq(Ids)]
    BY <1>1, <2>3 DEF EmptyStore
  <2>5. /\ db.levelIndex \in [Levels -> [Ids -> Nat]]
        /\ db.keywordIndex \in [Keywords -> [Ids -> Nat]]
    BY <1>1 DEF EmptyStore
  <2> QED
    BY <2>1, <2>2, <2>4, <2>5 DEF StoreType
<1>4. LevelsExact(db) /\ KeywordsExact(db)
  BY <1>1, <1>2 DEF EmptyStore, LevelsExact, KeywordsExact
<1>5. TimeSound(db) /\ TimeSorted(db) /\ SourceSound(db)
  BY <1>2 DEF TimeSound, TimeSorted, SourceSound, NoDuplicates
<1>6. Cardinality(Live(db)) = 0 /\ MaxEntries \in Nat /\ MaxEntries > 0
  BY <1>2, FS_EmptySet, CapacityAssumption
<1>7. Capacity /\ AlwaysEvictable
  BY <1>6 DEF Capacity, AlwaysEvictable, Evictable, Full
<1>8. TypeOK
  BY <1>1, <1>3, BoundsAssumption DEF TypeOK, Phases, Times
<1>9. PendingFresh
  BY <1>1 DEF PendingFresh
<1>10. DeleteSound
  BY <1>1 DEF DeleteSound, Free
<1> QED
  BY <1>3, <1>4, <1>5, <1>7, <1>8, <1>9, <1>10 DEF IndInv, StoreInv

(* Taking one live entry out leaves room, whatever timeIndex then holds. *)
LEMMA RemovalLeavesRoom ==
  ASSUME NEW d, NEW r, IsFiniteSet(Live(d)), Cardinality(Live(d)) <= MaxEntries,
         NEW id \in Live(d), Live(r) = Live(d) \ {id}
  PROVE  Cardinality(Live(r)) < MaxEntries /\ Cardinality(Live(r)) \in Nat /\ ~Full(r)
<1>1. Cardinality(Live(r)) = Cardinality(Live(d)) - 1 /\ IsFiniteSet(Live(r))
  BY FS_RemoveElement
<1>2. Cardinality(Live(d)) \in Nat /\ Cardinality(Live(r)) \in Nat /\ MaxEntries \in Nat
  BY <1>1, FS_CardinalityType, CapacityAssumption
<1> QED
  BY <1>1, <1>2 DEF Full

(* A removal by DeleteByID or inside a loop. *)
LEMMA RemovalStep ==
  ASSUME IndInv, NEW id \in Live(db), db' = RemoveEntry(db, id)
  PROVE  /\ StoreInv(db)' /\ StoreType(db)' /\ Capacity' /\ AlwaysEvictable'
         /\ Live(db)' = Live(db) \ {id}
         /\ \A x \in Live(db)' : db'.entries[x] = db.entries[x]
<1>1. StoreInv(db) /\ IsFiniteSet(Live(db)) /\ Cardinality(Live(db)) <= MaxEntries
  BY DEF IndInv, StoreInv, StoreType, Capacity
<1>2. /\ StoreInv(db') /\ Live(db') = Live(db) \ {id}
      /\ \A x \in Live(db) \ {id} : db'.entries[x] = db.entries[x]
  BY <1>1, RemoveEntryCorrect
<1>3. Cardinality(Live(db')) < MaxEntries /\ Cardinality(Live(db')) \in Nat /\ ~Full(db')
  BY <1>1, <1>2, RemovalLeavesRoom
<1>4. StoreType(db')
  BY <1>2 DEF StoreInv
<1> QED
  BY <1>2, <1>3, <1>4, CapacityAssumption DEF Capacity, AlwaysEvictable, Evictable

(* Storing the head of a batch into d, which is db or db after an eviction. *)
LEMMA InsertStep ==
  ASSUME IndInv, NEW c \in Clients, Storing(c), Advance(c),
         NEW d, StoreInv(d), Live(d) \subseteq Live(db),
         Cardinality(Live(d)) < MaxEntries,
         NEW pos \in InsertPositions(d, Head(batch[c])),
         db' = Insert(d, Head(batch[c]), pos),
         UNCHANGED <<mu, now>>
  PROVE  IndInv'
<1> DEFINE e == Head(batch[c])
<1>1. /\ batch \in [Clients -> Seq(Entry)] /\ phase \in [Clients -> Phases]
      /\ mu = Free /\ now \in Times /\ batch[c] # <<>>
  BY DEF IndInv, TypeOK, Storing
<1>2. /\ e \in Entry /\ 1 \in DOMAIN batch[c] /\ e = batch[c][1]
      /\ Tail(batch[c]) \in Seq(Entry)
      /\ \A i \in DOMAIN Tail(batch[c]) :
           i \in Int /\ i # 0 /\ i + 1 \in DOMAIN batch[c] /\ Tail(batch[c])[i] = batch[c][i+1]
  <2>1. batch[c] \in Seq(Entry) /\ batch[c] # <<>>
    BY <1>1
  <2> QED
    BY <2>1, HeadTailProperties, LenProperties
<1>3. e.id \notin Live(db) /\ e.id \notin Live(d)
  BY <1>2 DEF IndInv, PendingFresh
<1>4. /\ StoreInv(db') /\ Live(db') = Live(d) \cup {e.id} /\ db'.timeIndex # <<>>
  <2> HIDE DEF e
  <2> QED
    BY <1>2, <1>3, InsertCorrect DEF e
<1>5. IsFiniteSet(Live(d)) /\ Cardinality(Live(d)) \in Nat
  BY FS_CardinalityType DEF StoreInv, StoreType
<1>6. Cardinality(Live(db')) = Cardinality(Live(d)) + 1
  BY <1>3, <1>4, <1>5, FS_AddElement
<1>7. Cardinality(Live(db')) <= MaxEntries
  BY <1>5, <1>6, CapacityAssumption
<1>8. Capacity' /\ AlwaysEvictable'
  BY <1>4, <1>7 DEF Capacity, AlwaysEvictable, Evictable
<1>9. batch' = [batch EXCEPT ![c] = Tail(@)] /\ batch' \in [Clients -> Seq(Entry)]
      /\ phase' \in [Clients -> Phases]
  BY <1>1, <1>2 DEF Advance, Phases
<1>10. TypeOK'
  <2>1. StoreType(db')
    BY <1>4 DEF StoreInv
  <2> QED
    BY <1>1, <1>9, <2>1 DEF TypeOK
<1>11. \A k \in Clients : \A i \in DOMAIN batch'[k] :
         \E j \in DOMAIN batch[k] :
           /\ batch'[k][i] = batch[k][j]
           /\ j = IF k = c THEN i + 1 ELSE i
           /\ k = c => j # 1
  BY <1>1, <1>2, <1>9
<1>12. PendingFresh'
  <2>1. ASSUME NEW k \in Clients, NEW i \in DOMAIN batch'[k]
        PROVE  batch'[k][i].id \notin Live(db')
    <3>1. PICK j \in DOMAIN batch[k] : batch'[k][i] = batch[k][j] /\ (k = c => j # 1)
      BY <1>11
    <3>2. batch[k][j].id \notin Live(db)
      BY DEF IndInv, PendingFresh
    <3>3. batch[k][j].id # e.id
      BY <1>2, <3>1 DEF IndInv, PendingFresh
    <3> QED
      BY <1>4, <3>1, <3>2, <3>3
  <2>2. ASSUME NEW k \in Clients, NEW l \in Clients,
               NEW i \in DOMAIN batch'[k], NEW j \in DOMAIN batch'[l],
               batch'[k][i].id = batch'[l][j].id
        PROVE  k = l /\ i = j
    <3>1. PICK i1 \in DOMAIN batch[k] :
             batch'[k][i] = batch[k][i1] /\ i1 = IF k = c THEN i + 1 ELSE i
      BY <1>11
    <3>2. PICK j1 \in DOMAIN batch[l] :
             batch'[l][j] = batch[l][j1] /\ j1 = IF l = c THEN j + 1 ELSE j
      BY <1>11
    <3>3. k = l /\ i1 = j1
      BY <2>2, <3>1, <3>2 DEF IndInv, PendingFresh
    <3>4. CASE k = c
      BY <1>2, <1>9, <1>1, <3>1, <3>2, <3>3, <3>4
    <3>5. CASE k # c
      BY <3>1, <3>2, <3>3, <3>5
    <3> QED
      BY <3>4, <3>5
  <2> QED
    BY <2>1, <2>2 DEF PendingFresh
<1>13. DeleteSound'
  BY <1>1 DEF DeleteSound, Free
<1> QED
  BY <1>4, <1>8, <1>10, <1>12, <1>13 DEF IndInv

(* Every action preserves the invariant. *)
LEMMA NextIndInv == IndInv /\ [Next]_vars => IndInv'
<1> SUFFICES ASSUME IndInv, [Next]_vars PROVE IndInv'
  OBVIOUS
<1> USE DEF TypeOK
<1>0. /\ StoreInv(db) /\ IsFiniteSet(Live(db)) /\ Cardinality(Live(db)) \in Nat
      /\ Cardinality(Live(db)) <= MaxEntries /\ MaxEntries \in Nat
      /\ (Full(db) => db.timeIndex # <<>>)
      /\ batch \in [Clients -> Seq(Entry)] /\ phase \in [Clients -> Phases]
      /\ mu \in {Free} \cup CleanupLoop \cup DeleteLoop /\ now \in Times
  BY CapacityAssumption, FS_CardinalityType
     DEF IndInv, StoreInv, StoreType, Capacity, AlwaysEvictable, Evictable
<1>1. ASSUME NEW c \in Clients, Stamp(c) PROVE IndInv'
  <2>1. PICK id \in Ids, p \in Profiles :
           Fresh(id) /\ batch' = [batch EXCEPT ![c] = Append(@, NewEntry(id, p))]
    BY <1>1 DEF Stamp
  <2> DEFINE e == NewEntry(id, p)
  <2>2. e \in Entry /\ e.id = id
    BY <1>0, ProfilesAssumption DEF NewEntry, Entry
  <2> HIDE DEF e
  <2>3. UNCHANGED <<db, mu, now>> /\ phase' \in [Clients -> Phases]
    BY <1>0, <1>1 DEF Stamp, Phases
  <2>4. batch' \in [Clients -> Seq(Entry)]
    BY <1>0, <2>1, <2>2 DEF e
  <2>5. \A k \in Clients : \A i \in DOMAIN batch'[k] :
          \/ i \in DOMAIN batch[k] /\ batch'[k][i] = batch[k][i]
          \/ k = c /\ i = Len(batch[c]) + 1 /\ batch'[k][i] = e
    <3>1. ASSUME NEW k \in Clients, k # c PROVE batch'[k] = batch[k]
      BY <1>0, <2>1, <3>1
    <3>2. batch'[c] = Append(batch[c], e) /\ batch[c] \in Seq(Entry)
      BY <1>0, <2>1 DEF e
    <3>3. /\ DOMAIN batch[c] = 1..Len(batch[c]) /\ Len(batch[c]) \in Nat
          /\ DOMAIN batch'[c] = 1..(Len(batch[c]) + 1)
          /\ \A i \in 1..Len(batch[c]) : batch'[c][i] = batch[c][i]
          /\ batch'[c][Len(batch[c]) + 1] = e
      BY <2>2, <3>2, AppendProperties, LenProperties
    <3> QED
      BY <3>1, <3>3
  <2>6. \A k \in Clients : \A i \in DOMAIN batch[k] : batch[k][i].id # id
    BY <2>1 DEF Fresh
  <2>7. id \notin Live(db)
    BY <2>1 DEF Fresh
  <2>8. PendingFresh'
    <3>1. \A k \in Clients : \A i \in DOMAIN batch'[k] : batch'[k][i].id \notin Live(db')
      BY <2>2, <2>3, <2>5, <2>7 DEF IndInv, PendingFresh
    <3>2. \A k, l \in Clients : \A i \in DOMAIN batch'[k], j \in DOMAIN batch'[l] :
            batch'[k][i].id = batch'[l][j].id => k = l /\ i = j
      <4> SUFFICES ASSUME NEW k \in Clients, NEW l \in Clients,
                          NEW i \in DOMAIN batch'[k], NEW j \in DOMAIN batch'[l],
                          batch'[k][i].id = batch'[l][j].id
                   PROVE  k = l /\ i = j
        OBVIOUS
      <4> DEFINE kept(x, n) == n \in DOMAIN batch[x] /\ batch'[x][n] = batch[x][n]
                 added(x, n) == x = c /\ n = Len(batch[c]) + 1 /\ batch'[x][n] = e
      <4>1. (kept(k, i) \/ added(k, i)) /\ (kept(l, j) \/ added(l, j))
        BY <2>5
      <4>2. CASE kept(k, i) /\ kept(l, j)
        BY <4>2 DEF IndInv, PendingFresh
      <4>3. CASE added(k, i) /\ added(l, j)
        BY <4>3
      <4>4. CASE kept(k, i) /\ added(l, j)
        BY <2>2, <2>6, <4>4
      <4>5. CASE added(k, i) /\ kept(l, j)
        BY <2>2, <2>6, <4>5
      <4> QED
        BY <4>1, <4>2, <4>3, <4>4, <4>5
    <3> QED
      BY <3>1, <3>2 DEF PendingFresh
  <2> QED
    BY <2>3, <2>4, <2>8 DEF IndInv, Capacity, AlwaysEvictable, DeleteSound
<1>2. ASSUME NEW c \in Clients, RejectBatch(c) PROVE IndInv'
  <2>1. UNCHANGED <<db, mu, now>> /\ phase' \in [Clients -> Phases]
    BY <1>0, <1>2 DEF RejectBatch, Phases
  <2>2. <<>> \in Seq(Entry) /\ DOMAIN <<>> = {}
    OBVIOUS
  <2>3. /\ batch' \in [Clients -> Seq(Entry)]
        /\ \A k \in Clients : batch'[k] = IF k = c THEN <<>> ELSE batch[k]
    BY <1>0, <1>2, <2>2 DEF RejectBatch
  <2>4. PendingFresh'
    BY <2>1, <2>2, <2>3 DEF IndInv, PendingFresh
  <2> QED
    BY <2>1, <2>3, <2>4 DEF IndInv, Capacity, AlwaysEvictable, DeleteSound
<1>3. ASSUME NEW c \in Clients, StoreWithRoom(c) PROVE IndInv'
  <2>1. PICK pos \in InsertPositions(db, Head(batch[c])) :
           db' = Insert(db, Head(batch[c]), pos)
    BY <1>3 DEF StoreWithRoom
  <2>2. Cardinality(Live(db)) < MaxEntries
    BY <1>0, <1>3 DEF StoreWithRoom, Full
  <2>3. Storing(c) /\ Advance(c) /\ UNCHANGED <<mu, now>>
    BY <1>3 DEF StoreWithRoom
  <2> QED
    BY <1>0, <2>1, <2>2, <2>3, InsertStep
<1>4. ASSUME NEW c \in Clients, StoreEvicting(c) PROVE IndInv'
  <2> DEFINE d == EvictOldest(db)
  <2>1. PICK pos \in InsertPositions(d, Head(batch[c])) :
           db' = Insert(d, Head(batch[c]), pos)
    BY <1>4 DEF StoreEvicting
  <2>2. db.timeIndex # <<>> /\ ~EvictPanics(db)
    BY <1>0, <1>4 DEF StoreEvicting
  <2>3. /\ StoreInv(d) /\ Head(db.timeIndex) \in Live(db)
        /\ Live(d) = Live(db) \ {Head(db.timeIndex)}
    BY <1>0, <2>2, RemoveOldestCorrect, EvictOldestCorrect
  <2> HIDE DEF d
  <2>4. Cardinality(Live(d)) < MaxEntries
    BY <1>0, <2>3, RemovalLeavesRoom
  <2>5. Storing(c) /\ Advance(c) /\ UNCHANGED <<mu, now>> /\ Live(d) \subseteq Live(db)
    BY <1>4, <2>3 DEF StoreEvicting
  <2> QED
    BY <2>1, <2>3, <2>4, <2>5, InsertStep
<1>5. ASSUME NEW c \in Clients, StorePanics(c) PROVE IndInv'
  <2>1. db.timeIndex # <<>> /\ db' = RemoveOldest(db)
    BY <1>5 DEF StorePanics, EvictPanics
  <2>2. /\ Head(db.timeIndex) \in Live(db)
        /\ db' = RemoveEntry(db, Head(db.timeIndex))
    BY <1>0, <2>1, RemoveOldestCorrect
  <2>3. /\ StoreInv(db)' /\ StoreType(db)' /\ Capacity' /\ AlwaysEvictable'
        /\ Live(db)' \subseteq Live(db)
    BY <2>2, RemovalStep
  <2>4. <<>> \in Seq(Entry) /\ DOMAIN <<>> = {}
    OBVIOUS
  <2>5. /\ batch' \in [Clients -> Seq(Entry)] /\ phase' \in [Clients -> Phases]
        /\ \A k \in Clients : batch'[k] = IF k = c THEN <<>> ELSE batch[k]
        /\ UNCHANGED <<mu, now>> /\ mu = Free
    BY <1>0, <1>5, <2>4 DEF StorePanics, Storing, Phases
  <2>6. PendingFresh'
    BY <2>3, <2>4, <2>5 DEF IndInv, PendingFresh
  <2>7. DeleteSound'
    BY <2>5 DEF DeleteSound, Free
  <2> QED
    BY <1>0, <2>3, <2>5, <2>6, <2>7 DEF IndInv
<1>6. ASSUME NEW id \in Ids, DeleteByID(id) PROVE IndInv'
  <2>1. id \in Live(db) /\ db' = RemoveEntry(db, id) /\ UNCHANGED <<phase, batch, mu, now>> /\ mu = Free
    BY <1>6 DEF DeleteByID
  <2>2. /\ StoreInv(db)' /\ StoreType(db)' /\ Capacity' /\ AlwaysEvictable'
        /\ Live(db)' \subseteq Live(db)
    BY <2>1, RemovalStep
  <2>3. PendingFresh' /\ DeleteSound'
    BY <2>1, <2>2 DEF IndInv, PendingFresh, DeleteSound, Free
  <2> QED
    BY <1>0, <2>1, <2>2, <2>3 DEF IndInv
<1>7. ASSUME NEW s \in Sources, DeleteBySource(s) PROVE IndInv'
  <2>1. /\ mu' = [kind |-> "delete", source |-> s, ids |-> db.sourceIndex[s], i |-> 1]
        /\ UNCHANGED <<db, phase, batch, now>>
    BY <1>7 DEF DeleteBySource
  <2>2. db.sourceIndex[s] \in Seq(Ids)
    BY <1>0 DEF StoreInv, StoreType
  <2>3. mu' \in DeleteLoop
    BY <2>1, <2>2 DEF DeleteLoop
  <2>4. DeleteSound'
    BY <1>0, <2>1 DEF DeleteSound, StoreInv, SourceSound
  <2>5. PendingFresh' /\ Capacity' /\ AlwaysEvictable'
    BY <2>1 DEF IndInv, PendingFresh, Capacity, AlwaysEvictable
  <2> QED
    BY <1>0, <2>1, <2>3, <2>4, <2>5 DEF IndInv
<1>8. ASSUME DeleteNext PROVE IndInv'
  <2> DEFINE id == mu.ids[mu.i]
  <2>0. mu \in DeleteLoop
    BY <1>0, <1>8 DEF DeleteNext, Free, CleanupLoop, DeleteLoop
  <2>1. /\ mu.kind = "delete" /\ mu.source \in Sources /\ mu.ids \in Seq(Ids) /\ mu.i \in Nat \ {0}
        /\ DOMAIN mu = {"kind", "source", "ids", "i"}
        /\ UNCHANGED <<phase, batch, now>>
    BY <1>8, <2>0 DEF DeleteNext, DeleteLoop
  <2>2. CASE id \in Live(db)
    <3>1. /\ db' = RemoveEntry(db, id)
          /\ mu' = [mu EXCEPT !.i = @ + 1,
                      !.ids = Shifted(@, db'.sourceIndex[mu.source],
                                      Len(db.sourceIndex[mu.source]))]
      BY <1>8, <2>2 DEF DeleteNext
    <3>2. /\ StoreInv(db)' /\ StoreType(db)' /\ Capacity' /\ AlwaysEvictable'
          /\ Live(db)' = Live(db) \ {id}
          /\ \A x \in Live(db)' : db'.entries[x] = db.entries[x]
      <4> HIDE DEF id
      <4> QED
        BY <2>2, <3>1, RemovalStep
    <3> DEFINE slice == db'.sourceIndex[mu.source]
               m == Len(db.sourceIndex[mu.source])
               ids == Shifted(mu.ids, slice, m)
    <3>3. slice \in Seq(Ids) /\ m \in Nat /\ Len(slice) \in Nat /\ Len(mu.ids) \in Nat
      BY <1>0, <2>1, <3>2, LenProperties DEF StoreInv, StoreType
    <3>4. \A i \in DOMAIN slice : slice[i] \in Live(db)' /\ db'.entries[slice[i]].source = mu.source
      BY <2>1, <3>2 DEF StoreInv, SourceSound
    <3> HIDE DEF slice, m
    <3>5. /\ ids \in Seq(Ids)
          /\ \A i \in DOMAIN ids : \/ \E j \in DOMAIN mu.ids : ids[i] = mu.ids[j]
                                   \/ \E j \in DOMAIN slice : ids[i] = slice[j]
      <4>1. CASE ~(Len(slice) < m)
        BY <2>1, <4>1 DEF Shifted
      <4>2. CASE Len(slice) < m
        <5> DEFINE tail == SubSeq(mu.ids, m, Len(mu.ids))
        <5>1. m \in 1..(Len(mu.ids) + 1) \/ m > Len(mu.ids) + 1
          BY <3>3, <4>2
        <5>2. /\ tail \in Seq(Ids) /\ Len(tail) \in Nat
              /\ \A i \in 1..Len(tail) : m + i - 1 \in 1..Len(mu.ids) /\ tail[i] = mu.ids[m + i - 1]
          BY <2>1, <3>3, <4>2, SubSeqProperties
        <5>3. ids = slice \o tail
          BY <4>2 DEF Shifted
        <5> HIDE DEF tail, ids
        <5>4. /\ slice \o tail \in Seq(Ids)
              /\ DOMAIN (slice \o tail) = 1..(Len(slice) + Len(tail))
              /\ \A i \in 1..(Len(slice) + Len(tail)) : (slice \o tail)[i] =
                   IF i <= Len(slice) THEN slice[i] ELSE tail[i - Len(slice)]
          BY <3>3, <5>2, ConcatProperties, LenProperties
        <5>5. DOMAIN slice = 1..Len(slice) /\ DOMAIN mu.ids = 1..Len(mu.ids)
          BY <2>1, <3>3, LenProperties
        <5>6. ASSUME NEW i \in 1..(Len(slice) + Len(tail))
              PROVE  \/ \E j \in DOMAIN mu.ids : ids[i] = mu.ids[j]
                     \/ \E j \in DOMAIN slice : ids[i] = slice[j]
          <6>1. CASE i <= Len(slice)
            <7>1. i \in DOMAIN slice /\ ids[i] = slice[i]
              BY <3>3, <5>2, <5>3, <5>4, <5>5, <6>1
            <7> QED
              BY <7>1
          <6>2. CASE i > Len(slice)
            <7>1. i - Len(slice) \in 1..Len(tail) /\ ids[i] = tail[i - Len(slice)]
              BY <3>3, <5>2, <5>3, <5>4, <6>2
            <7> QED
              BY <5>2, <5>5, <7>1
          <6> QED
            BY <3>3, <5>2, <6>1, <6>2
        <5> QED
          BY <5>3, <5>4, <5>6
      <4> QED
        BY <4>1, <4>2
    <3> HIDE DEF ids
    <3>6. mu' = [mu EXCEPT !.i = @ + 1, !.ids = ids]
      BY <3>1 DEF ids, slice, m
    <3>7. mu' \in DeleteLoop /\ mu'.kind = "delete" /\ mu'.source = mu.source /\ mu'.ids = ids
      <4>1. /\ DOMAIN mu' = {"kind", "source", "ids", "i"}
            /\ mu'.kind = "delete" /\ mu'.source = mu.source
            /\ mu'.ids = ids /\ mu'.i = mu.i + 1
        BY <2>1, <3>6
      <4>2. mu' = [kind |-> "delete", source |-> mu.source, ids |-> ids, i |-> mu.i + 1]
        BY <2>0, <3>6 DEF DeleteLoop
      <4>3. mu.i + 1 \in Nat \ {0}
        BY <2>1
      <4> QED
        BY <2>1, <3>5, <4>1, <4>2, <4>3 DEF DeleteLoop
    <3>8. DeleteSound'
      <4> SUFFICES ASSUME NEW i \in DOMAIN ids, ids[i] \in Live(db)'
                   PROVE  db'.entries[ids[i]].source = mu.source
        BY <3>7 DEF DeleteSound
      <4>1. CASE \E j \in DOMAIN slice : ids[i] = slice[j]
        BY <3>4, <4>1
      <4>2. CASE \E j \in DOMAIN mu.ids : ids[i] = mu.ids[j]
        <5>1. PICK j \in DOMAIN mu.ids : ids[i] = mu.ids[j]
          BY <4>2
        <5>2. ids[i] \in Live(db)
          BY <3>2
        <5>3. db.entries[ids[i]].source = mu.source
          BY <2>1, <5>1, <5>2 DEF IndInv, DeleteSound
        <5> QED
          BY <3>2, <5>3
      <4> QED
        BY <3>5, <4>1, <4>2
    <3>9. PendingFresh'
      BY <2>1, <3>2 DEF IndInv, PendingFresh
    <3> QED
      BY <1>0, <2>1, <3>2, <3>7, <3>8, <3>9 DEF IndInv
  <2>3. CASE id \notin Live(db)
    <3>1. mu' = [mu EXCEPT !.i = @ + 1] /\ UNCHANGED db
      BY <1>8, <2>3 DEF DeleteNext
    <3>2. mu' \in DeleteLoop /\ mu'.kind = "delete" /\ mu'.source = mu.source /\ mu'.ids = mu.ids
      BY <2>0, <2>1, <3>1 DEF DeleteLoop
    <3>3. DeleteSound' /\ PendingFresh' /\ Capacity' /\ AlwaysEvictable'
      BY <2>1, <3>1, <3>2 DEF IndInv, DeleteSound, PendingFresh, Capacity, AlwaysEvictable
    <3> QED
      BY <1>0, <2>1, <3>1, <3>2, <3>3 DEF IndInv
  <2> QED
    BY <2>2, <2>3
<1>9. ASSUME DeleteDone PROVE IndInv'
  <2>1. /\ mu.kind = "delete" /\ mu' = Free /\ UNCHANGED <<phase, batch, now>>
        /\ db' = [db EXCEPT !.sourceIndex[mu.source] = <<>>]
    BY <1>9 DEF DeleteDone
  <2>2. mu.source \in Sources
    BY <1>0, <2>1 DEF Free, CleanupLoop, DeleteLoop
  <2>3. /\ DOMAIN db = {"entries", "timeIndex", "sourceIndex", "levelIndex", "keywordIndex"}
        /\ db.sourceIndex \in [Sources -> Seq(Ids)]
    BY <1>0 DEF StoreInv, StoreType
  <2>4. /\ DOMAIN db' = DOMAIN db
        /\ db'.entries = db.entries /\ db'.timeIndex = db.timeIndex
        /\ db'.levelIndex = db.levelIndex /\ db'.keywordIndex = db.keywordIndex
        /\ db'.sourceIndex = [db.sourceIndex EXCEPT ![mu.source] = <<>>]
    BY <2>1, <2>3
  <2>5. <<>> \in Seq(Ids) /\ DOMAIN <<>> = {}
    OBVIOUS
  <2>6. /\ db'.sourceIndex \in [Sources -> Seq(Ids)]
        /\ \A s \in Sources :
             db'.sourceIndex[s] = IF s = mu.source THEN <<>> ELSE db.sourceIndex[s]
    BY <2>2, <2>3, <2>4, <2>5
  <2>7. Live(db') = Live(db)
    BY <2>4 DEF Live
  <2>8. SourceSound(db')
    BY <1>0, <2>4, <2>5, <2>6, <2>7 DEF StoreInv, SourceSound, NoDuplicates
  <2>9. StoreType(db')
    BY <1>0, <2>4, <2>6, <2>7 DEF StoreInv, StoreType
  <2>10. TimeSound(db') /\ TimeSorted(db') /\ LevelsExact(db') /\ KeywordsExact(db')
    BY <1>0, <2>4, <2>7 DEF StoreInv, TimeSound, TimeSorted, LevelsExact, KeywordsExact
  <2>11. StoreInv(db')
    BY <2>8, <2>9, <2>10 DEF StoreInv
  <2>12. PendingFresh' /\ DeleteSound' /\ Capacity' /\ AlwaysEvictable'
    BY <2>1, <2>4, <2>7
       DEF IndInv, PendingFresh, DeleteSound, Free, Capacity, AlwaysEvictable, Evictable, Full
  <2> QED
    BY <1>0, <2>1, <2>9, <2>11, <2>12 DEF IndInv
<1>10. ASSUME Cleanup PROVE IndInv'
  <2>1. mu' \in CleanupLoop /\ mu'.kind = "cleanup" /\ UNCHANGED <<db, phase, batch, now>>
    BY <1>0, <1>10, BoundsAssumption DEF Cleanup, CleanupLoop, Times
  <2> QED
    BY <1>0, <2>1 DEF IndInv, PendingFresh, DeleteSound, Capacity, AlwaysEvictable
<1>11. ASSUME CleanupNext PROVE IndInv'
  <2>1. PICK id \in Live(db) : db' = RemoveEntry(db, id)
    BY <1>11 DEF CleanupNext
  <2>2. mu.kind = "cleanup" /\ UNCHANGED <<phase, batch, mu, now>>
    BY <1>11 DEF CleanupNext
  <2>3. /\ StoreInv(db)' /\ StoreType(db)' /\ Capacity' /\ AlwaysEvictable'
        /\ Live(db)' \subseteq Live(db)
    BY <2>1, RemovalStep
  <2>4. PendingFresh' /\ DeleteSound'
    BY <2>2, <2>3 DEF IndInv, PendingFresh, DeleteSound
  <2> QED
    BY <1>0, <2>2, <2>3, <2>4 DEF IndInv
<1>12. ASSUME CleanupDone PROVE IndInv'
  <2>1. mu' = Free /\ UNCHANGED <<db, phase, batch, now>>
    BY <1>12 DEF CleanupDone
  <2> QED
    BY <1>0, <2>1 DEF IndInv, PendingFresh, DeleteSound, Capacity, AlwaysEvictable, Free
<1>13. ASSUME Tick PROVE IndInv'
  <2>1. now' \in Times /\ UNCHANGED <<db, phase, batch, mu>>
    BY <1>0, <1>13, BoundsAssumption DEF Tick, Times
  <2> QED
    BY <1>0, <2>1 DEF IndInv, PendingFresh, DeleteSound, Capacity, AlwaysEvictable
<1>14. CASE UNCHANGED vars
  BY <1>0, <1>14 DEF IndInv, PendingFresh, DeleteSound, Capacity, AlwaysEvictable, vars
<1> QED
  BY <1>1, <1>2, <1>3, <1>4, <1>5, <1>6, <1>7, <1>8, <1>9, <1>10, <1>11, <1>12, <1>13, <1>14
     DEF Next, Store

-----------------------------------------------------------------------------
(* What holds in every reachable state.                                     *)

(* The invariant is inductive, so it always holds. *)
THEOREM AlwaysIndInv == Spec => []IndInv
<1> QED
  BY InitIndInv, NextIndInv, PTL DEF Spec

(* Every variable of the log store and its clients keeps its type, for any  *)
(* number of clients, sources, entries and any capacity.                    *)
THEOREM TypeCorrect == Spec => []TypeOK
<1>1. IndInv => TypeOK
  BY DEF IndInv
<1> QED
  BY <1>1, AlwaysIndInv, PTL

(* The store never holds more than maxEntries entries                       *)
(* (memory_log_store.go:57), whatever evictOldest hides.                    *)
THEOREM CapacityHolds == Spec => []Capacity
<1>1. IndInv => Capacity
  BY DEF IndInv
<1> QED
  BY <1>1, AlwaysIndInv, PTL

(* A full store has an entry in timeIndex to evict                          *)
(* (memory_log_store.go:288 never returns early).                           *)
THEOREM EvictionFindsVictim == Spec => []AlwaysEvictable
<1>1. IndInv => AlwaysEvictable
  BY DEF IndInv
<1> QED
  BY <1>1, AlwaysIndInv, PTL

(* timeIndex lists live entries, once each: insertTimeIndex                 *)
(* (memory_log_store.go:303) never dereferences nil.                        *)
THEOREM TimeIndexIsSound == Spec => []TimeIndexSound
<1>1. IndInv => TimeIndexSound
  BY DEF IndInv, StoreInv, TimeIndexSound
<1> QED
  BY <1>1, AlwaysIndInv, PTL

(* The positions of timeIndex that Query counts are ids that Count counts,  *)
(* each once: Query never reports more (memory_log_store.go:113-183).       *)
THEOREM QueryCountsNoMore == Spec => []QueryNeverOvercounts
<1>1. ASSUME StoreInv(db), IsFiniteSet(Live(db)), NEW s, NEW l, NEW from
      PROVE  QueryTotal(db, s, l, from, now) <= Count(db, s, l, from, now)
  <2> DEFINE Picked(id) == Selected(db.entries[id], s, l, from, now)
  <2> DEFINE S == {i \in DOMAIN db.timeIndex :
                     db.timeIndex[i] \in Live(db) /\ Picked(db.timeIndex[i])}
  <2> DEFINE T == {id \in Live(db) : Picked(id)}
  <2> HIDE DEF Picked
  <2>1. IsFiniteSet(T)
    BY <1>1, FS_Subset
  <2>2. \A i, j \in DOMAIN db.timeIndex : db.timeIndex[i] = db.timeIndex[j] => i = j
    BY <1>1 DEF StoreInv, TimeSound, NoDuplicates
  <2>3. [i \in S |-> db.timeIndex[i]] \in Injection(S, T)
    BY <2>2 DEF Injection, IsInjective
  <2>4. Cardinality(S) <= Cardinality(T)
    BY <2>1, <2>3, FS_Injection
  <2> QED
    BY <2>4 DEF QueryTotal, Count, Picked
<1>2. IndInv => QueryNeverOvercounts
  <2> SUFFICES ASSUME IndInv PROVE QueryNeverOvercounts
    OBVIOUS
  <2>1. StoreInv(db) /\ IsFiniteSet(Live(db))
    BY DEF IndInv, StoreInv, StoreType
  <2> QED
    BY <1>1, <2>1 DEF QueryNeverOvercounts
<1> QED
  BY <1>2, AlwaysIndInv, PTL

(* timeIndex stays in timestamp order under concurrent, out-of-order        *)
(* arrivals (memory_log_store.go:15, 300-311).                              *)
THEOREM TimeIndexIsSorted == Spec => []TimeIndexSorted
<1>1. IndInv => TimeIndexSorted
  BY DEF IndInv, StoreInv, TimeIndexSorted
<1> QED
  BY <1>1, AlwaysIndInv, PTL

(* sourceIndex lists only live entries of its source, also in the middle of *)
(* DeleteBySource (memory_log_store.go:222-242).                            *)
THEOREM SourceIndexIsSound == Spec => []SourceIndexSound
<1>1. IndInv => SourceIndexSound
  BY DEF IndInv, StoreInv, SourceIndexSound
<1> QED
  BY <1>1, AlwaysIndInv, PTL

(* levelIndex and keywordIndex hold exactly the live entries, repeated      *)
(* keywords included (memory_log_store.go:72-78, 337-363).                  *)
THEOREM LevelAndKeywordIndicesAreExact == Spec => []LevelAndKeywordIndexExact
<1>1. IndInv => LevelAndKeywordIndexExact
  BY DEF IndInv, StoreInv, LevelAndKeywordIndexExact
<1> QED
  BY <1>1, AlwaysIndInv, PTL

(* DeleteBySource removes no entry of another source, although the slice it *)
(* ranges over shifts under it (memory_log_store.go:232-238).               *)
THEOREM OtherSourcesAreKept == Spec => OtherSourcesSurvive
<1>1. IndInv /\ [Next]_vars =>
        [DeleteNext => \A id \in Live(db) \ Live(db)' : db.entries[id].source = mu.source]_vars
  <2> SUFFICES ASSUME IndInv, DeleteNext, NEW x \in Live(db) \ Live(db)'
               PROVE  db.entries[x].source = mu.source
    BY DEF vars
  <2>0. mu \in DeleteLoop /\ mu.ids \in Seq(Ids) /\ mu.i \in Nat \ {0} /\ StoreInv(db)
    BY DEF IndInv, TypeOK, DeleteNext, Free, CleanupLoop, DeleteLoop
  <2> DEFINE id == mu.ids[mu.i]
  <2>1. CASE id \in Live(db) /\ db' = RemoveEntry(db, id)
    <3>1. Live(db)' = Live(db) \ {id}
      <4> HIDE DEF id
      <4> QED
        BY <2>0, <2>1, RemoveEntryCorrect
    <3>2. x = id
      BY <3>1
    <3>3. mu.kind = "delete" /\ mu.i <= Len(mu.ids)
      BY DEF DeleteNext
    <3>4. CASE mu.i \in DOMAIN mu.ids
      BY <2>1, <3>2, <3>3, <3>4 DEF IndInv, DeleteSound
    <3>5. mu.i # 0
      BY <2>0
    <3> QED
      BY <2>0, <3>3, <3>4, <3>5, LenProperties
  <2>2. CASE UNCHANGED db
    BY <2>2
  <2> QED
    BY <2>1, <2>2 DEF DeleteNext
<1> QED
  BY <1>1, AlwaysIndInv, PTL DEF Spec, OtherSourcesSurvive

(* A store at capacity evicts one entry, and none that Query can see is     *)
(* older (memory_log_store.go:286-297).                                     *)
THEOREM OldestVisibleIsEvicted == Spec => EvictsOldestVisible
<1>1. IndInv /\ [Next]_vars =>
        [\A c \in Clients : StoreEvicting(c) =>
           /\ Cardinality(Live(db) \ Live(db)') = 1
           /\ \A x \in Live(db) \ Live(db)', i \in DOMAIN db.timeIndex :
                db.entries[x].ts <= db.entries[db.timeIndex[i]].ts]_vars
  <2> SUFFICES ASSUME IndInv, NEW c \in Clients, StoreEvicting(c)
               PROVE  /\ Cardinality(Live(db) \ Live(db)') = 1
                      /\ \A x \in Live(db) \ Live(db)', i \in DOMAIN db.timeIndex :
                           db.entries[x].ts <= db.entries[db.timeIndex[i]].ts
    BY DEF vars
  <2> DEFINE d == EvictOldest(db)
             e == Head(batch[c])
             h == Head(db.timeIndex)
  <2>1. StoreInv(db) /\ db.timeIndex # <<>> /\ ~EvictPanics(db)
    BY DEF IndInv, AlwaysEvictable, Evictable, StoreEvicting
  <2>2. /\ StoreInv(d) /\ h \in Live(db) /\ Live(d) = Live(db) \ {h}
        /\ \A i \in DOMAIN db.timeIndex : db.entries[h].ts <= db.entries[db.timeIndex[i]].ts
    BY <2>1, RemoveOldestCorrect, EvictOldestCorrect
  <2>3. batch[c] \in Seq(Entry) /\ batch[c] # <<>>
    BY DEF IndInv, TypeOK, StoreEvicting, Storing
  <2>4. e \in Entry /\ 1 \in DOMAIN batch[c] /\ e = batch[c][1]
    BY <2>3, HeadTailProperties, LenProperties
  <2>5. e.id \notin Live(db)
    BY <2>4 DEF IndInv, PendingFresh
  <2>6. PICK pos \in InsertPositions(d, e) : db' = Insert(d, e, pos)
    BY DEF StoreEvicting
  <2>7. Live(db') = Live(d) \cup {e.id}
    <3> HIDE DEF d, e
    <3> QED
      BY <2>2, <2>4, <2>5, <2>6, InsertCorrect
  <2>8. Live(db) \ Live(db)' = {h}
    BY <2>2, <2>5, <2>7
  <2> QED
    BY <2>2, <2>8, FS_Singleton
<1> QED
  BY <1>1, AlwaysIndInv, PTL DEF Spec, EvictsOldestVisible

-----------------------------------------------------------------------------
(* Hidden entries.                                                          *)

(* An insertion hides no entry and shows none. *)
LEMMA InsertKeepsHidden ==
  ASSUME NEW d, StoreInv(d), NEW e \in Entry, e.id \notin Live(d),
         NEW pos \in InsertPositions(d, e)
  PROVE  Hidden(d) \subseteq Hidden(Insert(d, e, pos))
<1> DEFINE r == Insert(d, e, pos)
           s == d.timeIndex
           t == InsertAt(s, pos + 1, e.id)
<1>1. Live(r) = Live(d) \cup {e.id}
  BY InsertCorrect
<1>2. s \in Seq(Ids) /\ e.id \in Ids /\ pos \in 0..Len(s) /\ Len(s) \in Nat
  BY LenProperties DEF StoreInv, StoreType, Entry, InsertPositions
<1>3. r.timeIndex = t
  BY DEF Insert
<1> HIDE DEF r, s
<1>4. /\ t \in Seq(Ids) /\ Len(t) = Len(s) + 1
      /\ \A i \in 1..pos : t[i] = s[i]
      /\ t[pos + 1] = e.id
      /\ \A i \in (pos + 2)..(Len(s) + 1) : t[i] = s[i - 1]
  <2> DEFINE id == e.id
             p == pos + 1
  <2>1. p \in 1..(Len(s) + 1) /\ id \in Ids /\ p - 1 = pos /\ p + 1 = pos + 2
    BY <1>2
  <2>2. t = InsertAt(s, p, id)
    OBVIOUS
  <2> HIDE DEF id, p, t
  <2>3. /\ InsertAt(s, p, id) \in Seq(Ids) /\ Len(InsertAt(s, p, id)) = Len(s) + 1
        /\ \A i \in 1..(p - 1) : InsertAt(s, p, id)[i] = s[i]
        /\ InsertAt(s, p, id)[p] = id
        /\ \A i \in (p + 1)..(Len(s) + 1) : InsertAt(s, p, id)[i] = s[i - 1]
    <3>1. s \in Seq(Ids) /\ p \in 1..(Len(s) + 1) /\ id \in Ids
      BY <1>2, <2>1
    <3> QED
      BY <3>1, InsertAtProperties
  <2> QED
    BY <2>1, <2>2, <2>3 DEF id, p
<1> HIDE DEF t
<1>5. ASSUME NEW i \in DOMAIN t PROVE t[i] = e.id \/ \E j \in DOMAIN s : t[i] = s[j]
  <2>1. i \in 1..(Len(s) + 1) /\ DOMAIN s = 1..Len(s)
    BY <1>2, <1>4, LenProperties
  <2>2. CASE i \in 1..pos
    BY <1>2, <1>4, <2>1, <2>2
  <2>3. CASE i = pos + 1
    BY <1>4, <2>3
  <2>4. CASE i \in (pos + 2)..(Len(s) + 1)
    <3>1. i - 1 \in 1..Len(s)
      BY <1>2, <2>4
    <3> QED
      BY <1>4, <2>1, <2>4, <3>1
  <2> QED
    BY <1>2, <2>1, <2>2, <2>3, <2>4
<1> SUFFICES ASSUME NEW x \in Hidden(d) PROVE x \in Hidden(r)
  BY DEF r
<1>6. x \in Live(d) /\ x # e.id /\ \A j \in DOMAIN s : x # s[j]
  BY DEF Hidden, s
<1> QED
  BY <1>1, <1>3, <1>5, <1>6 DEF Hidden

(* An eviction takes a visible entry and hides one at most: what was hidden *)
(* stays so, and if nothing is left in timeIndex, everything is hidden.     *)
LEMMA EvictionKeepsHidden ==
  ASSUME NEW d, StoreInv(d), d.timeIndex # <<>>
  PROVE  /\ Hidden(d) \subseteq Hidden(RemoveOldest(d))
         /\ Hidden(d) \subseteq Hidden(EvictOldest(d)) \/ EvictPanics(d)
         /\ EvictPanics(d) => Hidden(RemoveOldest(d)) = Live(RemoveOldest(d))
<1> DEFINE m == RemoveOldest(d)
           h == Head(d.timeIndex)
           s == m.timeIndex
<1>1. StoreInv(m) /\ h \in Live(d) /\ m = RemoveEntry(d, h) /\ Live(m) = Live(d) \ {h}
  BY RemoveOldestCorrect
<1>2. s = DropFirst(d.timeIndex, h)
  BY <1>1, RemoveEntryCorrect
<1>3. d.timeIndex \in Seq(Ids) /\ NoDuplicates(d.timeIndex)
  BY DEF StoreInv, StoreType, TimeSound
<1>4. h = d.timeIndex[1] /\ 1 \in DOMAIN d.timeIndex
  BY <1>3, HeadTailProperties, LenProperties
<1> HIDE DEF m, h
<1>5. \A i \in DOMAIN s : \E j \in DOMAIN d.timeIndex : s[i] = d.timeIndex[j]
  BY <1>2, <1>3, DropFirstProperties
<1>6. ASSUME NEW x \in Hidden(d) PROVE x \in Live(m) /\ x \notin {s[i] : i \in DOMAIN s}
  BY <1>1, <1>4, <1>5 DEF Hidden
<1>7. Hidden(d) \subseteq Hidden(m)
  BY <1>6 DEF Hidden
<1>8. ASSUME s # <<>> PROVE Hidden(d) \subseteq Hidden(EvictOldest(d))
  <2> DEFINE r == EvictOldest(d)
  <2>1. r = [m EXCEPT !.timeIndex = Tail(@)]
    BY DEF EvictOldest, m
  <2>2. DOMAIN m = {"entries", "timeIndex", "sourceIndex", "levelIndex", "keywordIndex"}
    BY <1>1 DEF StoreInv, StoreType
  <2> HIDE DEF r
  <2>3. r.timeIndex = Tail(s) /\ Live(r) = Live(m)
    BY <2>1, <2>2 DEF Live
  <2>4. s \in Seq(Ids)
    BY <1>1 DEF StoreInv, StoreType
  <2>5. \A i \in DOMAIN Tail(s) : i + 1 \in DOMAIN s /\ Tail(s)[i] = s[i + 1]
    <3> HIDE DEF s
    <3> QED
      BY <1>8, <2>4, HeadTailProperties, LenProperties
  <2>6. \A i \in DOMAIN r.timeIndex : \E j \in DOMAIN s : r.timeIndex[i] = s[j]
    BY <2>3, <2>5
  <2>7. Hidden(d) \subseteq Hidden(r)
    BY <1>6, <2>3, <2>6 DEF Hidden
  <2> QED
    BY <2>7 DEF r
<1>9. EvictPanics(d) <=> s = <<>>
  BY DEF EvictPanics, m
<1>10. s = <<>> => Hidden(m) = Live(m)
  BY DEF Hidden
<1> QED
  BY <1>7, <1>8, <1>9, <1>10 DEF m

(* A Store shows no hidden entry again and evicts none, and an entry given  *)
(* to it is lost only when all that is left is hidden                       *)
(* (memory_log_store.go:286-297).                                           *)
THEOREM HiddenOnlyGrows == Spec => HiddenOnlyGrow
<1>1. IndInv /\ [Next]_vars =>
        [\A c \in Clients : Store(c) =>
           /\ Hidden(db) \subseteq Hidden(db)'
           /\ Head(batch[c]).id \in Live(db)' \/ Hidden(db)' = Live(db)']_vars
  <2> SUFFICES ASSUME IndInv, NEW c \in Clients, Store(c)
               PROVE  /\ Hidden(db) \subseteq Hidden(db')
                      /\ Head(batch[c]).id \in Live(db') \/ Hidden(db') = Live(db')
    BY DEF vars
  <2> DEFINE e == Head(batch[c])
  <2>1. StoreInv(db) /\ (Full(db) => db.timeIndex # <<>>)
    BY DEF IndInv, AlwaysEvictable, Evictable
  <2>2. Storing(c) /\ batch[c] \in Seq(Entry) /\ batch[c] # <<>>
    BY DEF IndInv, TypeOK, Store, StoreWithRoom, StoreEvicting, StorePanics, Storing
  <2>3. e \in Entry /\ 1 \in DOMAIN batch[c] /\ e = batch[c][1]
    BY <2>2, HeadTailProperties, LenProperties
  <2>4. e.id \notin Live(db)
    BY <2>3 DEF IndInv, PendingFresh
  <2> HIDE DEF e
  <2>5. CASE StoreWithRoom(c)
    <3>1. PICK pos \in InsertPositions(db, e) : db' = Insert(db, e, pos)
      BY <2>5 DEF StoreWithRoom, e
    <3>2. Hidden(db) \subseteq Hidden(db') /\ e.id \in Live(db')
      BY <2>1, <2>3, <2>4, <3>1, InsertKeepsHidden, InsertCorrect
    <3> QED
      BY <3>2 DEF e
  <2>6. CASE StoreEvicting(c)
    <3> DEFINE d == EvictOldest(db)
    <3>1. db.timeIndex # <<>> /\ ~EvictPanics(db)
      BY <2>1, <2>6 DEF StoreEvicting
    <3>2. PICK pos \in InsertPositions(d, e) : db' = Insert(d, e, pos)
      BY <2>6 DEF StoreEvicting, e
    <3>3. StoreInv(d) /\ Live(d) \subseteq Live(db) /\ Hidden(db) \subseteq Hidden(d)
      BY <2>1, <3>1, EvictOldestCorrect, EvictionKeepsHidden
    <3> HIDE DEF d
    <3>4. Hidden(d) \subseteq Hidden(db') /\ e.id \in Live(db')
      BY <2>3, <2>4, <3>2, <3>3, InsertKeepsHidden, InsertCorrect
    <3> QED
      BY <3>3, <3>4 DEF e
  <2>7. CASE StorePanics(c)
    <3>1. db.timeIndex # <<>> /\ EvictPanics(db) /\ db' = RemoveOldest(db)
      BY <2>7 DEF StorePanics, EvictPanics
    <3> QED
      BY <2>1, <3>1, EvictionKeepsHidden
  <2> QED
    BY <2>5, <2>6, <2>7 DEF Store
<1> QED
  BY <1>1, AlwaysIndInv, PTL DEF Spec, HiddenOnlyGrow

-----------------------------------------------------------------------------
(* The bounded log.                                                         *)

LEMMA SameSequence ==
  ASSUME NEW S, NEW s \in Seq(S), NEW t \in Seq(S), Len(s) = Len(t),
         \A i \in 1..Len(s) : s[i] = t[i]
  PROVE  s = t
<1>1. /\ s = [i \in 1..Len(s) |-> s[i]]
      /\ t = [i \in 1..Len(t) |-> t[i]]
  BY LenProperties
<1> QED
  BY <1>1

LEMMA RemoveFirstIsTail ==
  ASSUME NEW S, NEW s \in Seq(S), s # <<>>
  PROVE  RemoveAt(s, 1) = Tail(s)
<1>1. Len(s) \in Nat /\ Len(s) >= 1
  BY LenProperties, EmptySeq
<1>2. /\ Tail(s) \in Seq(S) /\ Len(Tail(s)) = Len(s) - 1
      /\ \A i \in 1..(Len(s) - 1) : Tail(s)[i] = s[i + 1]
  BY HeadTailProperties
<1>3. /\ RemoveAt(s, 1) \in Seq(S) /\ Len(RemoveAt(s, 1)) = Len(s) - 1
      /\ \A i \in 1..(Len(s) - 1) : RemoveAt(s, 1)[i] = s[i + 1]
  BY <1>1, RemoveAtProperties
<1> QED
  BY <1>2, <1>3, SameSequence

(* What DropFirst does to a sequence without duplicates. *)
LEMMA DropFirstIs ==
  ASSUME NEW S, NEW s \in Seq(S), NEW e, NoDuplicates(s)
  PROVE  /\ \A p \in DOMAIN s : s[p] = e => DropFirst(s, e) = RemoveAt(s, p)
         /\ (\A p \in DOMAIN s : s[p] # e) => DropFirst(s, e) = s
<1>0. Len(s) \in Nat /\ DOMAIN s = 1..Len(s)
  BY LenProperties
<1>1. ASSUME NEW p \in DOMAIN s, s[p] = e
      PROVE  DropFirst(s, e) = RemoveAt(s, p)
  <2> DEFINE first(i) == s[i] = e /\ \A j \in 1..(i-1) : s[j] # e
             q == CHOOSE i \in DOMAIN s : first(i)
  <2>1. first(p)
    BY <1>0, <1>1 DEF NoDuplicates
  <2>2. q \in DOMAIN s /\ first(q)
    BY <2>1
  <2>3. q = p
    <3>1. q \in DOMAIN s /\ s[q] = e
      BY <2>2
    <3> HIDE DEF q
    <3> QED
      BY <1>1, <3>1 DEF NoDuplicates
  <2>4. DropFirst(s, e) = RemoveAt(s, q)
    BY <1>1 DEF DropFirst
  <2> HIDE DEF q
  <2> QED
    BY <2>3, <2>4
<1>2. (\A p \in DOMAIN s : s[p] # e) => DropFirst(s, e) = s
  BY DEF DropFirst
<1> QED
  BY <1>1, <1>2

(* The entries that are shown, by their positions and by their identifiers. *)
LEMMA TimelineIs ==
  ASSUME NEW d, StoreInv(d)
  PROVE  /\ Timeline(d) \in Seq(Entry)
         /\ Len(Timeline(d)) = Len(d.timeIndex) /\ Len(d.timeIndex) \in Nat
         /\ d.timeIndex \in Seq(Ids) /\ DOMAIN d.timeIndex = 1..Len(d.timeIndex)
         /\ \A i \in 1..Len(d.timeIndex) :
              /\ d.timeIndex[i] \in Live(d)
              /\ Timeline(d)[i] = d.entries[d.timeIndex[i]]
<1> DEFINE s == d.timeIndex
           n == Len(s)
<1>1. s \in Seq(Ids) /\ n \in Nat /\ DOMAIN s = 1..n
  BY LenProperties DEF StoreInv, StoreType
<1>2. \A i \in 1..n : s[i] \in Live(d) /\ d.entries[s[i]] \in Entry
  BY <1>1 DEF StoreInv, StoreType, TimeSound
<1>3. Timeline(d) = [i \in 1..n |-> d.entries[s[i]]]
  BY <1>1 DEF Timeline
<1> HIDE DEF s, n
<1>4. Timeline(d) \in [1..n -> Entry]
  BY <1>2, <1>3
<1>5. Timeline(d) \in Seq(Entry) /\ Len(Timeline(d)) = n
  BY <1>1, <1>4
<1> QED
  BY <1>1, <1>2, <1>3, <1>5 DEF s, n

(* Everything that is stored is shown or hidden. *)
LEMMA AllIsStored ==
  ASSUME NEW d, StoreInv(d)
  PROVE  LET stored == {Timeline(d)[i] : i \in DOMAIN Timeline(d)} \cup HiddenEntries(d) IN
         /\ stored = {d.entries[x] : x \in Live(d)}
         /\ IsFiniteSet(stored) /\ Cardinality(stored) = Cardinality(Live(d))
<1> DEFINE shown == {Timeline(d)[i] : i \in DOMAIN Timeline(d)}
           stored == {d.entries[x] : x \in Live(d)}
           n == Len(d.timeIndex)
<1>1. /\ DOMAIN Timeline(d) = 1..n /\ DOMAIN d.timeIndex = 1..n
      /\ \A i \in 1..n : d.timeIndex[i] \in Live(d) /\ Timeline(d)[i] = d.entries[d.timeIndex[i]]
  BY TimelineIs, LenProperties
<1> HIDE DEF n
<1>2. shown \cup HiddenEntries(d) = stored
  <2>1. shown = {d.entries[d.timeIndex[i]] : i \in 1..n}
    BY <1>1
  <2>2. Hidden(d) = Live(d) \ {d.timeIndex[i] : i \in 1..n}
    BY <1>1 DEF Hidden
  <2>3. \A x \in Live(d) : x \in Hidden(d) \/ \E i \in 1..n : x = d.timeIndex[i]
    BY <2>2
  <2>4. ASSUME NEW e \in stored PROVE e \in shown \cup HiddenEntries(d)
    <3>1. PICK x \in Live(d) : e = d.entries[x]
      OBVIOUS
    <3> QED
      BY <2>1, <2>3, <3>1 DEF HiddenEntries
  <2>5. ASSUME NEW e \in shown \cup HiddenEntries(d) PROVE e \in stored
    BY <1>1, <2>1, <2>2 DEF HiddenEntries
  <2> QED
    BY <2>4, <2>5
<1>3. IsFiniteSet(stored) /\ Cardinality(stored) = Cardinality(Live(d))
  <2> DEFINE f == [x \in Live(d) |-> d.entries[x]]
  <2>1. \A x \in Live(d) : d.entries[x].id = x
    BY DEF StoreInv, StoreType
  <2>2. \A x, y \in Live(d) : f[x] = f[y] => x = y
    BY <2>1
  <2>3. f \in [Live(d) -> stored] /\ \A e \in stored : \E x \in Live(d) : f[x] = e
    OBVIOUS
  <2>4. f \in Bijection(Live(d), stored)
    BY <2>2, <2>3 DEF Bijection, Injection, IsInjective, Surjection
  <2>5. ExistsBijection(Live(d), stored) /\ IsFiniteSet(Live(d))
    BY <2>4 DEF ExistsBijection, StoreInv, StoreType
  <2> HIDE DEF stored, f
  <2> QED
    BY <2>5, FS_Bijection
<1> QED
  BY <1>2, <1>3

(* A removed entry goes from the log, or from what is hidden. *)
LEMMA RemovalShows ==
  ASSUME NEW d, StoreInv(d), NEW id \in Live(d)
  PROVE  LET r == RemoveEntry(d, id) IN
         /\ \A p \in 1..Len(d.timeIndex) : d.timeIndex[p] = id =>
              /\ Timeline(r) = RemoveAt(Timeline(d), p)
              /\ HiddenEntries(r) = HiddenEntries(d)
         /\ (\A p \in 1..Len(d.timeIndex) : d.timeIndex[p] # id) =>
              /\ Timeline(r) = Timeline(d)
              /\ d.entries[id] \in HiddenEntries(d)
              /\ HiddenEntries(r) = HiddenEntries(d) \ {d.entries[id]}
<1> DEFINE r == RemoveEntry(d, id)
           s == d.timeIndex
           t == r.timeIndex
<1>1. /\ StoreInv(r) /\ Live(r) = Live(d) \ {id} /\ t = DropFirst(s, id)
      /\ \A x \in Live(r) : r.entries[x] = d.entries[x]
  BY RemoveEntryCorrect
<1>2. /\ Timeline(d) \in Seq(Entry) /\ Len(Timeline(d)) = Len(s) /\ Len(s) \in Nat
      /\ s \in Seq(Ids) /\ DOMAIN s = 1..Len(s)
      /\ \A i \in 1..Len(s) : s[i] \in Live(d) /\ Timeline(d)[i] = d.entries[s[i]]
  BY TimelineIs
<1> HIDE DEF r
<1>3. /\ Timeline(r) \in Seq(Entry) /\ Len(Timeline(r)) = Len(t) /\ Len(t) \in Nat
      /\ DOMAIN t = 1..Len(t)
      /\ \A i \in 1..Len(t) : t[i] \in Live(r) /\ Timeline(r)[i] = r.entries[t[i]]
  BY <1>1, TimelineIs
<1>4. NoDuplicates(s)
  BY DEF StoreInv, TimeSound
<1>5. \A x \in Live(d) : d.entries[x].id = x
  BY DEF StoreInv, StoreType
<1> HIDE DEF s, t
<1>6. ASSUME NEW p \in 1..Len(s), s[p] = id
      PROVE  Timeline(r) = RemoveAt(Timeline(d), p) /\ HiddenEntries(r) = HiddenEntries(d)
  <2>1. /\ t = RemoveAt(s, p)
    BY <1>1, <1>2, <1>4, <1>6, DropFirstIs
  <2>2. /\ Len(t) = Len(s) - 1
        /\ \A i \in 1..(Len(s) - 1) : t[i] = IF i < p THEN s[i] ELSE s[i+1]
    BY <1>2, <2>1, RemoveAtProperties
  <2> DEFINE u == RemoveAt(Timeline(d), p)
  <2>3. /\ u \in Seq(Entry) /\ Len(u) = Len(s) - 1
        /\ \A i \in 1..(Len(s) - 1) : u[i] = IF i < p THEN Timeline(d)[i] ELSE Timeline(d)[i+1]
    <3> DEFINE l == Timeline(d)
    <3>1. l \in Seq(Entry) /\ Len(l) = Len(s) /\ p \in 1..Len(l)
      BY <1>2
    <3>2. u = RemoveAt(l, p)
      OBVIOUS
    <3> HIDE DEF l, u
    <3>3. /\ u \in Seq(Entry) /\ Len(u) = Len(s) - 1
          /\ \A i \in 1..(Len(s) - 1) : u[i] = IF i < p THEN l[i] ELSE l[i+1]
      BY <3>1, <3>2, RemoveAtProperties
    <3> QED
      BY <3>3 DEF l
  <2> HIDE DEF u
  <2>4. ASSUME NEW i \in 1..(Len(s) - 1) PROVE Timeline(r)[i] = u[i]
    <3>1. i \in 1..Len(t) /\ i \in 1..Len(s) /\ i + 1 \in 1..Len(s)
      BY <1>2, <2>2
    <3>2. Timeline(r)[i] = d.entries[t[i]]
      BY <1>1, <1>3, <3>1
    <3>3. CASE i < p
      BY <1>2, <2>2, <2>3, <3>1, <3>2, <3>3
    <3>4. CASE ~(i < p)
      BY <1>2, <2>2, <2>3, <3>1, <3>2, <3>4
    <3> QED
      BY <3>3, <3>4
  <2>5. Timeline(r) = u
    BY <1>3, <2>2, <2>3, <2>4, SameSequence
  <2>6. {t[i] : i \in DOMAIN t} = {s[i] : i \in DOMAIN s} \ {id}
    <3>1. ASSUME NEW i \in DOMAIN t PROVE t[i] \in {s[j] : j \in DOMAIN s} \ {id}
      <4>1. i \in 1..(Len(s) - 1) /\ i \in 1..Len(s) /\ i + 1 \in 1..Len(s)
        BY <1>2, <1>3, <2>2
      <4>2. t[i] # id
        BY <1>1, <1>3
      <4> QED
        BY <1>2, <2>2, <4>1, <4>2
    <3>2. ASSUME NEW j \in DOMAIN s, s[j] # id PROVE \E i \in DOMAIN t : t[i] = s[j]
      <4>1. j \in 1..Len(s) /\ j # p
        BY <1>2, <1>6, <3>2
      <4>2. CASE j < p
        <5>1. j \in 1..(Len(s) - 1)
          BY <1>2, <4>1, <4>2
        <5> QED
          BY <1>3, <2>2, <4>2, <5>1
      <4>3. CASE j > p
        <5>1. j - 1 \in 1..(Len(s) - 1) /\ ~(j - 1 < p) /\ (j - 1) + 1 = j
          BY <1>2, <4>1, <4>3
        <5>2. t[j - 1] = s[j]
          BY <2>2, <5>1
        <5> QED
          BY <1>3, <2>2, <5>1, <5>2
      <4> QED
        BY <1>2, <4>1, <4>2, <4>3
    <3> QED
      BY <3>1, <3>2
  <2>7. Hidden(r) = Hidden(d)
    <3>1. id \in {s[i] : i \in DOMAIN s}
      BY <1>2, <1>6
    <3> QED
      BY <1>1, <2>6, <3>1 DEF Hidden, s, t
  <2>8. \A x \in Hidden(r) : x \in Live(r)
    BY DEF Hidden
  <2> QED
    BY <1>1, <2>5, <2>7, <2>8 DEF HiddenEntries, u
<1>7. ASSUME \A p \in 1..Len(s) : s[p] # id
      PROVE  /\ Timeline(r) = Timeline(d)
             /\ d.entries[id] \in HiddenEntries(d)
             /\ HiddenEntries(r) = HiddenEntries(d) \ {d.entries[id]}
  <2>1. t = s
    BY <1>1, <1>2, <1>4, <1>7, DropFirstIs
  <2>2. \A i \in 1..Len(s) : Timeline(r)[i] = Timeline(d)[i]
    BY <1>1, <1>2, <1>3, <2>1
  <2>3. Timeline(r) = Timeline(d)
    BY <1>2, <1>3, <2>1, <2>2, SameSequence
  <2>4. Hidden(r) = Hidden(d) \ {id} /\ id \in Hidden(d)
    BY <1>1, <1>2, <1>7, <2>1 DEF Hidden, s, t
  <2>5. \A x \in Hidden(d) : x \in Live(d)
    BY DEF Hidden
  <2>6. HiddenEntries(r) = {d.entries[x] : x \in Hidden(d) \ {id}}
    BY <1>1, <2>4, <2>5 DEF HiddenEntries
  <2>7. \A x \in Hidden(d) \ {id} : d.entries[x] # d.entries[id]
    BY <1>5, <2>4, <2>5
  <2> QED
    BY <2>3, <2>4, <2>6, <2>7 DEF HiddenEntries
<1> QED
  BY <1>6, <1>7 DEF r, s

(* An entry that is stored appears in its place, and hides nothing. *)
LEMMA InsertionShows ==
  ASSUME NEW d, StoreInv(d), NEW e \in Entry, e.id \notin Live(d),
         NEW pos \in InsertPositions(d, e)
  PROVE  LET r == Insert(d, e, pos) IN
         /\ pos + 1 \in DOMAIN Timeline(r)
         /\ Timeline(r)[pos + 1] = e
         /\ Timeline(r) = InsertAt(Timeline(d), pos + 1, e)
         /\ \A j \in DOMAIN Timeline(r) : /\ j < pos + 1 => Timeline(r)[j].ts <= e.ts
                                          /\ j > pos + 1 => e.ts < Timeline(r)[j].ts
         /\ HiddenEntries(r) = HiddenEntries(d)
<1> DEFINE r == Insert(d, e, pos)
           s == d.timeIndex
           t == r.timeIndex
           l == Timeline(d)
           u == Timeline(r)
           n == Len(s)
           p == pos + 1
<1>1. /\ StoreInv(r) /\ Live(r) = Live(d) \cup {e.id}
      /\ r.entries[e.id] = e
      /\ \A x \in Live(d) : r.entries[x] = d.entries[x]
  <2>1. StoreInv(r) /\ Live(r) = Live(d) \cup {e.id}
    BY InsertCorrect
  <2>2. r.entries = [x \in Live(d) \cup {e.id} |-> IF x = e.id THEN e ELSE d.entries[x]]
    BY DEF Insert
  <2> QED
    BY <2>1, <2>2
<1>2. t = InsertAt(s, pos + 1, e.id)
  BY DEF Insert
<1>3. /\ l \in Seq(Entry) /\ Len(l) = n /\ n \in Nat /\ s \in Seq(Ids) /\ DOMAIN s = 1..n
      /\ \A i \in 1..n : s[i] \in Live(d) /\ l[i] = d.entries[s[i]]
  BY TimelineIs
<1> HIDE DEF r
<1>4. /\ u \in Seq(Entry) /\ Len(u) = Len(t) /\ DOMAIN t = 1..Len(t)
      /\ \A i \in 1..Len(t) : t[i] \in Live(r) /\ u[i] = r.entries[t[i]]
  BY <1>1, TimelineIs
<1>5. /\ pos \in 0..n /\ e.id \in Ids /\ e.ts \in Int
      /\ pos < n => d.entries[s[pos + 1]].ts > e.ts
      /\ pos > 0 => d.entries[s[pos]].ts <= e.ts
  BY BoundsAssumption DEF Entry, InsertPositions, Times
<1>6. /\ \A i \in 1..n : d.entries[s[i]].ts \in Int
      /\ \A i, j \in 1..n : i < j => d.entries[s[i]].ts <= d.entries[s[j]].ts
  <2>1. \A x \in Live(d) : d.entries[x].ts \in Int
    BY BoundsAssumption DEF StoreInv, StoreType, Entry, Times
  <2>2. TimeSorted(d)
    BY DEF StoreInv
  <2> QED
    BY <1>3, <2>1, <2>2 DEF TimeSorted
<1>7. p \in 1..(n + 1) /\ p - 1 = pos
  BY <1>3, <1>5
<1> HIDE DEF s, t, l, u, n, p
<1>8. /\ Len(t) = n + 1 /\ t[p] = e.id
      /\ \A i \in 1..(p - 1) : t[i] = s[i]
      /\ \A i \in (p + 1)..(n + 1) : t[i] = s[i - 1]
  <2> DEFINE id == e.id
  <2>1. t = InsertAt(s, p, id) /\ id \in Ids /\ p \in 1..(Len(s) + 1) /\ Len(s) = n
    BY <1>2, <1>3, <1>5, <1>7 DEF n, p
  <2> HIDE DEF id
  <2>2. /\ Len(InsertAt(s, p, id)) = Len(s) + 1
        /\ InsertAt(s, p, id)[p] = id
        /\ \A i \in 1..(p - 1) : InsertAt(s, p, id)[i] = s[i]
        /\ \A i \in (p + 1)..(Len(s) + 1) : InsertAt(s, p, id)[i] = s[i - 1]
    <3>1. s \in Seq(Ids) /\ p \in 1..(Len(s) + 1) /\ id \in Ids
      BY <1>3, <2>1
    <3> QED
      BY ONLY <3>1, InsertAtProperties
  <2> QED
    BY <2>1, <2>2 DEF id
<1>9. /\ InsertAt(l, p, e) \in Seq(Entry) /\ Len(InsertAt(l, p, e)) = n + 1
      /\ InsertAt(l, p, e)[p] = e
      /\ \A i \in 1..(p - 1) : InsertAt(l, p, e)[i] = l[i]
      /\ \A i \in (p + 1)..(n + 1) : InsertAt(l, p, e)[i] = l[i - 1]
  <2>1. p \in 1..(Len(l) + 1) /\ l \in Seq(Entry) /\ e \in Entry
    BY <1>3, <1>7
  <2>2. /\ InsertAt(l, p, e) \in Seq(Entry) /\ Len(InsertAt(l, p, e)) = Len(l) + 1
        /\ \A i \in 1..(p - 1) : InsertAt(l, p, e)[i] = l[i]
        /\ InsertAt(l, p, e)[p] = e
        /\ \A i \in (p + 1)..(Len(l) + 1) : InsertAt(l, p, e)[i] = l[i - 1]
    BY ONLY <2>1, InsertAtProperties
  <2>3. Len(l) = n
    BY <1>3
  <2> QED
    BY <2>2, <2>3
<1>10. u[p] = e
  BY <1>1, <1>3, <1>4, <1>7, <1>8
<1>11. ASSUME NEW i \in 1..(p - 1) PROVE u[i] = l[i] /\ i \in 1..n
  <2>1. i \in 1..n /\ i \in 1..(n + 1)
    BY <1>3, <1>7
  <2>2. t[i] = s[i] /\ s[i] \in Live(d)
    BY <1>3, <1>8, <2>1
  <2> QED
    BY <1>1, <1>3, <1>4, <1>8, <2>1, <2>2
<1>12. ASSUME NEW i \in (p + 1)..(n + 1) PROVE u[i] = l[i - 1] /\ i - 1 \in 1..n
  <2>1. i - 1 \in 1..n /\ i \in 1..(n + 1)
    BY <1>3, <1>7
  <2>2. t[i] = s[i - 1] /\ s[i - 1] \in Live(d)
    BY <1>3, <1>8, <2>1
  <2> QED
    BY <1>1, <1>3, <1>4, <1>8, <2>1, <2>2
<1>13. u = InsertAt(l, p, e)
  <2> DEFINE v == InsertAt(l, p, e)
  <2>1. ASSUME NEW i \in 1..(n + 1) PROVE u[i] = v[i]
    <3>1. i \in 1..(p - 1) \/ i = p \/ i \in (p + 1)..(n + 1)
      BY <1>3, <1>7
    <3> QED
      BY <1>9, <1>10, <1>11, <1>12, <3>1
  <2>2. v \in Seq(Entry) /\ Len(v) = n + 1 /\ Len(u) = n + 1
    BY <1>4, <1>8, <1>9
  <2> HIDE DEF v
  <2>3. u = v
    BY <1>4, <2>1, <2>2, SameSequence
  <2> QED
    BY <2>3 DEF v
<1>14. DOMAIN u = 1..(n + 1) /\ p \in DOMAIN u
  BY <1>3, <1>4, <1>7, <1>8, LenProperties
<1>15. ASSUME NEW j \in DOMAIN u, j < p PROVE u[j].ts <= e.ts
  <2>1. j \in 1..(p - 1) /\ u[j] = l[j] /\ l[j] = d.entries[s[j]] /\ j \in 1..n
    BY <1>3, <1>7, <1>11, <1>14, <1>15
  <2>2. pos \in 1..n /\ d.entries[s[pos]].ts <= e.ts /\ (j = pos \/ j < pos)
    BY <1>3, <1>5, <1>7, <2>1
  <2>3. d.entries[s[j]].ts <= d.entries[s[pos]].ts
    BY <1>6, <2>1, <2>2
  <2>4. d.entries[s[j]].ts \in Int /\ d.entries[s[pos]].ts \in Int
    BY <1>6, <2>1, <2>2
  <2> QED
    BY <1>5, <2>1, <2>2, <2>3, <2>4
<1>16. ASSUME NEW j \in DOMAIN u, j > p PROVE e.ts < u[j].ts
  <2> DEFINE k == j - 1
  <2>1. j \in (p + 1)..(n + 1)
    BY <1>3, <1>7, <1>14, <1>16
  <2>2. k \in 1..n /\ u[j] = l[k] /\ l[k] = d.entries[s[k]]
    BY <1>3, <1>12, <2>1
  <2>3. p \in 1..n /\ pos < n /\ (k = p \/ p < k)
    BY <1>3, <1>7, <2>1
  <2>4. d.entries[s[p]].ts > e.ts
    BY <1>5, <2>3 DEF p
  <2> HIDE DEF k
  <2>5. d.entries[s[p]].ts <= d.entries[s[k]].ts
    BY <1>6, <2>2, <2>3
  <2>6. d.entries[s[p]].ts \in Int /\ d.entries[s[k]].ts \in Int
    BY <1>6, <2>2, <2>3
  <2> QED
    BY <1>5, <2>2, <2>4, <2>5, <2>6
<1>17. HiddenEntries(r) = HiddenEntries(d)
  <2>1. {t[i] : i \in DOMAIN t} = {s[i] : i \in DOMAIN s} \cup {e.id}
    <3>1. ASSUME NEW i \in DOMAIN t PROVE t[i] \in {s[j] : j \in DOMAIN s} \cup {e.id}
      <4>1. i \in 1..(p - 1) \/ i = p \/ i \in (p + 1)..(n + 1)
        BY <1>3, <1>4, <1>7, <1>8
      <4>2. i \in 1..(p - 1) => i \in DOMAIN s
        BY <1>3, <1>7
      <4>3. i \in (p + 1)..(n + 1) => i - 1 \in DOMAIN s
        BY <1>3, <1>7
      <4> QED
        BY <1>8, <4>1, <4>2, <4>3
    <3>2. ASSUME NEW j \in DOMAIN s PROVE \E i \in DOMAIN t : t[i] = s[j]
      <4>1. j \in 1..n /\ (j \in 1..(p - 1) \/ j + 1 \in (p + 1)..(n + 1))
        BY <1>3, <1>7
      <4>2. CASE j \in 1..(p - 1)
        <5>1. j \in DOMAIN t
          BY <1>3, <1>4, <1>8, <4>1
        <5> QED
          BY <1>8, <4>2, <5>1
      <4>3. CASE j + 1 \in (p + 1)..(n + 1)
        <5>1. j + 1 \in DOMAIN t /\ (j + 1) - 1 = j
          BY <1>3, <1>4, <1>8, <4>1
        <5>2. t[j + 1] = s[j]
          BY <1>8, <4>3, <5>1
        <5> QED
          BY <5>1, <5>2
      <4> QED
        BY <4>1, <4>2, <4>3
    <3>3. \E i \in DOMAIN t : t[i] = e.id
      BY <1>3, <1>4, <1>7, <1>8
    <3> QED
      BY <3>1, <3>2, <3>3
  <2>2. Hidden(r) = Hidden(d)
    BY <1>1, <2>1 DEF Hidden, s, t
  <2>3. \A x \in Hidden(d) : x \in Live(d)
    BY DEF Hidden
  <2> QED
    BY <1>1, <2>2, <2>3 DEF HiddenEntries
<1> QED
  BY <1>10, <1>13, <1>14, <1>15, <1>16, <1>17 DEF r, u, l, p

(* An eviction: the oldest entry goes and the next is hidden; with a single *)
(* entry shown, that one goes and the eviction panics.                      *)
LEMMA EvictionShows ==
  ASSUME NEW d, StoreInv(d), d.timeIndex # <<>>
  PROVE  /\ EvictPanics(d) =>
              /\ Len(Timeline(d)) = 1
              /\ Timeline(RemoveOldest(d)) = <<>>
              /\ HiddenEntries(RemoveOldest(d)) = HiddenEntries(d)
         /\ ~EvictPanics(d) =>
              /\ Len(Timeline(d)) > 1
              /\ Timeline(EvictOldest(d)) = Tail(Tail(Timeline(d)))
              /\ HiddenEntries(EvictOldest(d)) = HiddenEntries(d) \cup {Timeline(d)[2]}
<1> DEFINE m == RemoveOldest(d)
           r == EvictOldest(d)
           h == Head(d.timeIndex)
           l == Timeline(d)
           k == Timeline(m)
           s == m.timeIndex
<1>1. h \in Live(d) /\ m = RemoveEntry(d, h) /\ StoreInv(m) /\ Live(m) = Live(d) \ {h}
  BY RemoveOldestCorrect
<1>2. /\ l \in Seq(Entry) /\ Len(l) = Len(d.timeIndex) /\ Len(l) \in Nat
      /\ d.timeIndex \in Seq(Ids) /\ DOMAIN d.timeIndex = 1..Len(l)
      /\ \A i \in 1..Len(l) : d.timeIndex[i] \in Live(d) /\ l[i] = d.entries[d.timeIndex[i]]
  BY TimelineIs
<1>3. Len(l) >= 1 /\ d.timeIndex[1] = h /\ l # <<>>
  BY <1>2
<1>4. k = RemoveAt(l, 1) /\ HiddenEntries(m) = HiddenEntries(d)
  <2> HIDE DEF h, l
  <2>1. 1 \in 1..Len(d.timeIndex)
    BY <1>2, <1>3
  <2> QED
    BY <1>1, <1>3, <2>1, RemovalShows DEF l
<1> HIDE DEF m, l, k
<1>5. k = Tail(l)
  BY <1>2, <1>3, <1>4, RemoveFirstIsTail
<1>6. /\ k \in Seq(Entry) /\ Len(k) = Len(l) - 1
      /\ \A i \in 1..(Len(l) - 1) : k[i] = l[i + 1]
  BY <1>2, <1>3, <1>5, HeadTailProperties
<1>7. /\ Len(k) = Len(s) /\ s \in Seq(Ids) /\ DOMAIN s = 1..Len(s) /\ Len(s) \in Nat
      /\ \A i \in 1..Len(s) : s[i] \in Live(m) /\ k[i] = m.entries[s[i]]
  BY <1>1, TimelineIs DEF k
<1>8. EvictPanics(d) <=> s = <<>>
  BY <1>2, <1>3 DEF EvictPanics, m
<1> HIDE DEF s
<1>9. CASE s = <<>>
  <2>1. Len(l) = 1
    BY <1>2, <1>6, <1>7, <1>9
  <2>2. k = <<>>
    BY <1>6, <1>7, <1>9
  <2> QED
    BY <1>4, <1>8, <1>9, <2>1, <2>2 DEF m, l, k
<1>10. CASE s # <<>>
  <2>1. Len(s) >= 1 /\ Len(l) > 1
    BY <1>2, <1>6, <1>7, <1>10
  <2>2. r.timeIndex = Tail(s) /\ r.entries = m.entries
    <3>1. DOMAIN m = {"entries", "timeIndex", "sourceIndex", "levelIndex", "keywordIndex"}
      BY <1>1 DEF StoreInv, StoreType
    <3>2. r = [m EXCEPT !.timeIndex = Tail(s)]
      BY <1>2, <1>3 DEF EvictOldest, m, s
    <3> HIDE DEF r
    <3> QED
      BY <3>1, <3>2
  <2>3. ~EvictPanics(d)
    BY <1>8, <1>10
  <2>4. StoreInv(r)
    BY <2>3, EvictOldestCorrect
  <2> HIDE DEF r
  <2> DEFINE u == Timeline(r)
  <2>5. /\ u \in Seq(Entry) /\ Len(u) = Len(Tail(s))
        /\ DOMAIN Tail(s) = 1..Len(Tail(s))
        /\ \A i \in 1..Len(Tail(s)) : u[i] = m.entries[Tail(s)[i]]
    <3> DEFINE q == r.timeIndex
    <3>1. /\ u \in Seq(Entry) /\ Len(u) = Len(q) /\ DOMAIN q = 1..Len(q)
          /\ \A i \in 1..Len(q) : u[i] = r.entries[q[i]]
      BY <2>4, TimelineIs
    <3>2. q = Tail(s) /\ r.entries = m.entries
      BY <2>2
    <3> HIDE DEF q, u
    <3> QED
      BY <3>1, <3>2
  <2>6. /\ Len(Tail(s)) = Len(s) - 1
        /\ \A i \in 1..(Len(s) - 1) : Tail(s)[i] = s[i + 1]
    BY <1>7, <1>10, HeadTailProperties
  <2>7. /\ k # <<>> /\ Tail(k) \in Seq(Entry) /\ Len(Tail(k)) = Len(s) - 1
        /\ \A i \in 1..(Len(s) - 1) : Tail(k)[i] = k[i + 1]
    <3>1. k # <<>>
      BY <1>6, <1>7, <2>1
    <3> QED
      BY <1>6, <1>7, <3>1, HeadTailProperties
  <2> HIDE DEF u
  <2>8. ASSUME NEW i \in 1..(Len(s) - 1) PROVE u[i] = Tail(k)[i]
    <3>1. i + 1 \in 1..Len(s)
      BY <1>7
    <3> QED
      BY <1>7, <2>5, <2>6, <2>7, <3>1
  <2>9. u = Tail(k)
    BY <2>5, <2>6, <2>7, <2>8, SameSequence
  <2>10. Live(r) = Live(m) /\ s[1] \in Live(m) /\ l[2] = m.entries[s[1]]
    <3>1. k[1] = l[2]
      BY <1>6, <2>1, <1>2
    <3> QED
      BY <1>7, <2>1, <2>2, <3>1 DEF Live
  <2>11. NoDuplicates(s)
    BY <1>1 DEF StoreInv, TimeSound, s
  <2>12. {Tail(s)[i] : i \in DOMAIN Tail(s)} = {s[i] : i \in DOMAIN s} \ {s[1]}
    <3>1. ASSUME NEW i \in DOMAIN Tail(s) PROVE Tail(s)[i] \in {s[j] : j \in DOMAIN s} \ {s[1]}
      <4>1. i \in 1..(Len(s) - 1) /\ i + 1 \in 1..Len(s) /\ i + 1 # 1 /\ 1 \in 1..Len(s)
        BY <1>7, <2>1, <2>5, <2>6
      <4>2. Tail(s)[i] = s[i + 1]
        BY <2>6, <4>1
      <4> DEFINE j == i + 1
      <4> HIDE DEF j
      <4>3. j \in DOMAIN s /\ 1 \in DOMAIN s /\ j # 1 /\ Tail(s)[i] = s[j]
        BY <1>7, <4>1, <4>2 DEF j
      <4> QED
        BY <2>11, <4>3 DEF NoDuplicates
    <3>2. ASSUME NEW j \in DOMAIN s, s[j] # s[1] PROVE \E i \in DOMAIN Tail(s) : Tail(s)[i] = s[j]
      <4>1. j # 1 /\ j \in 1..Len(s)
        BY <1>7, <3>2
      <4>2. j - 1 \in 1..(Len(s) - 1) /\ (j - 1) + 1 = j
        BY <1>7, <4>1
      <4>3. Tail(s)[j - 1] = s[j]
        BY <2>6, <4>2
      <4> QED
        BY <2>5, <2>6, <4>2, <4>3
    <3> QED
      BY <3>1, <3>2
  <2>13. Hidden(r) = Hidden(m) \cup {s[1]}
    <3>1. /\ Hidden(r) = Live(m) \ ({s[i] : i \in DOMAIN s} \ {s[1]})
          /\ Hidden(m) = Live(m) \ {s[i] : i \in DOMAIN s}
      BY <2>2, <2>10, <2>12 DEF Hidden, s
    <3> QED
      BY <2>10, <3>1
  <2>14. HiddenEntries(r) = HiddenEntries(m) \cup {l[2]}
    BY <2>2, <2>10, <2>13 DEF HiddenEntries
  <2> QED
    BY <1>4, <1>5, <2>1, <2>3, <2>9, <2>14 DEF r, l, u
<1> QED
  BY <1>9, <1>10

-----------------------------------------------------------------------------
(* Every step of the store is a step of the bounded log, or a stutter.      *)

ViewStep == View!Next \/ UNCHANGED <<Timeline(db), HiddenEntries(db)>>

LEMMA InitView == Init => View!Init
<1> SUFFICES ASSUME Init PROVE View!Init
  OBVIOUS
<1>1. db.timeIndex = <<>> /\ Live(db) = {}
  BY DEF Init, EmptyStore, Live
<1>2. Timeline(db) = <<>>
  BY <1>1 DEF Timeline
<1>3. HiddenEntries(db) = {}
  BY <1>1 DEF HiddenEntries, Hidden
<1> QED
  BY <1>2, <1>3 DEF View!Init

LEMMA ViewIsFull ==
  ASSUME IndInv
  PROVE  View!Full <=> Full(db)
<1>1. StoreInv(db) /\ Cardinality(Live(db)) <= MaxEntries
  BY DEF IndInv, Capacity
<1>2. View!Cardinality(View!Stored) = Cardinality(Live(db))
  <2>1. Cardinality(View!Stored) = Cardinality(Live(db))
    BY <1>1, AllIsStored DEF View!Stored, View!Shown
  <2>2. View!Cardinality(View!Stored) = Cardinality(View!Stored)
    BY DEF View!Cardinality, Cardinality
  <2> QED
    BY <2>1, <2>2
<1>3. Cardinality(Live(db)) \in Nat /\ MaxEntries \in Nat
  BY <1>1, FS_CardinalityType, CapacityAssumption DEF StoreInv, StoreType
<1> DEFINE n == Cardinality(Live(db))
<1>4. (View!Full <=> n = MaxEntries) /\ (Full(db) <=> n >= MaxEntries)
  BY <1>2 DEF View!Full, Full
<1>5. n \in Nat /\ MaxEntries \in Nat /\ n <= MaxEntries
  BY <1>1, <1>3
<1> HIDE DEF n
<1> QED
  BY <1>4, <1>5

LEMMA ArrivalShows ==
  ASSUME StoreInv(db), NEW d, StoreInv(d), Live(d) \subseteq Live(db),
         NEW e \in Entry, e.id \notin Live(db),
         NEW pos \in InsertPositions(d, e), db' = Insert(d, e, pos)
  PROVE  View!Arrives(Timeline(d)) /\ HiddenEntries(db') = HiddenEntries(d)
<1> DEFINE u == Timeline(db')
           i == pos + 1
<1>1. e.id \notin Live(d)
  OBVIOUS
<1>2. /\ i \in DOMAIN u /\ u[i] = e /\ u = InsertAt(Timeline(d), i, e)
      /\ \A j \in DOMAIN u : (j < i => u[j].ts <= e.ts) /\ (j > i => e.ts < u[j].ts)
      /\ HiddenEntries(db') = HiddenEntries(d)
  BY <1>1, InsertionShows
<1>3. \A x \in View!Stored : x.id # e.id
  <2>1. View!Stored = {db.entries[x] : x \in Live(db)}
    BY AllIsStored DEF View!Stored, View!Shown
  <2>2. \A x \in Live(db) : db.entries[x].id = x
    BY DEF StoreInv, StoreType
  <2> QED
    BY <2>1, <2>2
<1>4. InsertAt(Timeline(d), i, e) = View!InsertAt(Timeline(d), i, e)
  BY DEF InsertAt, View!InsertAt
<1> HIDE DEF u, i
<1>5. \E k \in DOMAIN u :
        /\ u[k] \in Entry
        /\ \A x \in View!Stored : x.id # u[k].id
        /\ u = View!InsertAt(Timeline(d), k, u[k])
        /\ \A j \in DOMAIN u : (j < k => u[j].ts <= u[k].ts) /\ (j > k => u[k].ts < u[j].ts)
  BY <1>2, <1>3, <1>4
<1> QED
  BY <1>2, <1>5 DEF View!Arrives, u

LEMMA RemovalIsShown ==
  ASSUME StoreInv(db), NEW id \in Live(db), db' = RemoveEntry(db, id)
  PROVE  View!Take \/ View!TakeHidden
<1> DEFINE l == Timeline(db)
<1>1. CASE \E p \in 1..Len(db.timeIndex) : db.timeIndex[p] = id
  <2>1. PICK p \in 1..Len(db.timeIndex) : db.timeIndex[p] = id
    BY <1>1
  <2>2. Timeline(db') = RemoveAt(l, p) /\ HiddenEntries(db') = HiddenEntries(db)
    BY <2>1, RemovalShows
  <2>3. p \in DOMAIN l
    BY TimelineIs, LenProperties
  <2>4. RemoveAt(l, p) = View!RemoveAt(l, p)
    BY DEF RemoveAt, View!RemoveAt
  <2> QED
    BY <2>2, <2>3, <2>4 DEF View!Take
<1>2. CASE \A p \in 1..Len(db.timeIndex) : db.timeIndex[p] # id
  <2>1. /\ Timeline(db') = Timeline(db) /\ db.entries[id] \in HiddenEntries(db)
        /\ HiddenEntries(db') = HiddenEntries(db) \ {db.entries[id]}
    BY <1>2, RemovalShows
  <2> QED
    BY <2>1 DEF View!TakeHidden
<1> QED
  BY <1>1, <1>2

LEMMA StepIsShown == IndInv /\ [Next]_vars => ViewStep
<1> SUFFICES ASSUME IndInv, [Next]_vars PROVE ViewStep
  OBVIOUS
<1>1. StoreInv(db) /\ (Full(db) => db.timeIndex # <<>>)
  BY DEF IndInv, AlwaysEvictable, Evictable
<1>2. ASSUME NEW c \in Clients, Store(c) PROVE ViewStep
  <2> DEFINE e == Head(batch[c])
  <2>1. batch[c] \in Seq(Entry) /\ batch[c] # <<>>
    BY <1>2 DEF IndInv, TypeOK, Store, StoreWithRoom, StoreEvicting, StorePanics, Storing
  <2>2. e \in Entry /\ 1 \in DOMAIN batch[c] /\ e = batch[c][1]
    BY <2>1, HeadTailProperties, LenProperties
  <2>3. e.id \notin Live(db)
    BY <2>2 DEF IndInv, PendingFresh
  <2> HIDE DEF e
  <2>4. CASE StoreWithRoom(c)
    <3>1. PICK pos \in InsertPositions(db, e) : db' = Insert(db, e, pos)
      BY <2>4 DEF StoreWithRoom, e
    <3>2. View!Arrives(Timeline(db)) /\ HiddenEntries(db') = HiddenEntries(db)
      BY <1>1, <2>2, <2>3, <3>1, ArrivalShows
    <3>3. ~View!Full
      BY <2>4, ViewIsFull DEF StoreWithRoom
    <3>4. View!Put
      BY <3>2, <3>3 DEF View!Put
    <3> QED
      BY <3>4 DEF ViewStep, View!Next
  <2>5. CASE StoreEvicting(c)
    <3> DEFINE d == EvictOldest(db)
               rest == Timeline(d)
    <3>1. db.timeIndex # <<>> /\ ~EvictPanics(db) /\ View!Full
      BY <1>1, <2>5, ViewIsFull DEF StoreEvicting
    <3>2. /\ Len(Timeline(db)) > 1 /\ rest = Tail(Tail(Timeline(db)))
          /\ HiddenEntries(d) = HiddenEntries(db) \cup {Timeline(db)[2]}
      BY <1>1, <3>1, EvictionShows
    <3>3. StoreInv(d) /\ Live(d) \subseteq Live(db)
      BY <1>1, <3>1, EvictOldestCorrect
    <3>4. PICK pos \in InsertPositions(d, e) : db' = Insert(d, e, pos)
      BY <2>5 DEF StoreEvicting, e
    <3> HIDE DEF d
    <3>5. View!Arrives(rest) /\ HiddenEntries(db') = HiddenEntries(d)
      BY <1>1, <2>2, <2>3, <3>3, <3>4, ArrivalShows
    <3> HIDE DEF rest
    <3>6. View!PutEvicting
      BY <3>1, <3>2, <3>5 DEF View!PutEvicting
    <3> QED
      BY <3>6 DEF ViewStep, View!Next
  <2>6. CASE StorePanics(c)
    <3>1. db.timeIndex # <<>> /\ EvictPanics(db) /\ db' = RemoveOldest(db) /\ View!Full
      BY <2>6, ViewIsFull DEF StorePanics, EvictPanics
    <3>2. /\ Len(Timeline(db)) = 1 /\ Timeline(db') = <<>>
          /\ HiddenEntries(db') = HiddenEntries(db)
      BY <1>1, <3>1, EvictionShows
    <3>3. View!Lose
      BY <3>1, <3>2 DEF View!Lose
    <3> QED
      BY <3>3 DEF ViewStep, View!Next
  <2> QED
    BY <1>2, <2>4, <2>5, <2>6 DEF Store
<1>3. ASSUME NEW id \in Live(db), db' = RemoveEntry(db, id) PROVE ViewStep
  BY <1>1, <1>3, RemovalIsShown DEF ViewStep, View!Next
<1>4. ASSUME db' = db PROVE ViewStep
  BY <1>4 DEF ViewStep
<1>5. ASSUME DeleteNext PROVE ViewStep
  <2>1. db' = db \/ \E id \in Live(db) : db' = RemoveEntry(db, id)
    BY <1>5 DEF DeleteNext
  <2> QED
    BY <2>1, <1>3, <1>4
<1>6. ASSUME DeleteDone PROVE ViewStep
  <2>1. DOMAIN db = {"entries", "timeIndex", "sourceIndex", "levelIndex", "keywordIndex"}
    BY <1>1 DEF StoreInv, StoreType
  <2>2. db'.entries = db.entries /\ db'.timeIndex = db.timeIndex
    BY <1>6, <2>1 DEF DeleteDone
  <2>3. Timeline(db') = Timeline(db) /\ HiddenEntries(db') = HiddenEntries(db)
    BY <2>2 DEF Timeline, HiddenEntries, Hidden, Live
  <2> QED
    BY <2>3 DEF ViewStep
<1>7. ASSUME CleanupNext PROVE ViewStep
  <2>1. PICK id \in Live(db) : db' = RemoveEntry(db, id)
    BY <1>7 DEF CleanupNext
  <2> QED
    BY <2>1, <1>3
<1>8. ASSUME NEW id \in Ids, DeleteByID(id) PROVE ViewStep
  BY <1>3, <1>8 DEF DeleteByID
<1>9. CASE UNCHANGED vars
  BY <1>4, <1>9 DEF vars
<1>10. ASSUME NEW c \in Clients, Stamp(c) \/ RejectBatch(c) PROVE ViewStep
  BY <1>4, <1>10 DEF Stamp, RejectBatch
<1>11. ASSUME NEW s \in Sources, DeleteBySource(s) PROVE ViewStep
  BY <1>4, <1>11 DEF DeleteBySource
<1>12. ASSUME Cleanup \/ CleanupDone \/ Tick PROVE ViewStep
  BY <1>4, <1>12 DEF Cleanup, CleanupDone, Tick
<1> QED
  BY <1>2, <1>5, <1>6, <1>7, <1>8, <1>9, <1>10, <1>11, <1>12 DEF Next

(* To its users the store is a bounded log, whatever its indices, locks and *)
(* loops do in between (memory_log_store.go:47-101, 206-311).               *)
THEOREM StoreIsBoundedLog == Spec => ImplementsBoundedLog
<1>1. IndInv /\ [Next]_vars => [View!Next]_View!logVars
  BY StepIsShown DEF ViewStep, View!logVars
<1> QED
  BY <1>1, InitView, AlwaysIndInv, PTL DEF Spec, ImplementsBoundedLog, View!Spec
=============================================================================
