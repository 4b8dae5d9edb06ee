-------------------------- MODULE AlertStoreProofs --------------------------
(***************************************************************************)
(* Proofs about AlertStore, for every value of its constants.  Every step  *)
(* changes the store in one of three ways (an event is put in, taken out   *)
(* or replaced by itself with another status), so the inductive invariant  *)
(* IndInv is preserved by three lemmas and the actions that use them.      *)
(***************************************************************************)
EXTENDS AlertStore, TLAPS

(* What holds of the store at time t. *)
StoreInv(a, t) ==
  /\ StoreType(a)
  /\ Exact(a)
  /\ \A id \in Live(a) : Timed(a.events[id], t)

(* An event in flight has a new id and is not resolved. *)
FiringFresh ==
  /\ \A w \in Evaluators : firing[w] # None =>
       /\ firing[w] \in Event
       /\ firing[w].id \notin Live(adb)
       /\ Timed(firing[w], now)
  /\ \A v, w \in Evaluators :
       firing[v] # None /\ firing[w] # None /\ firing[v].id = firing[w].id => v = w

IndInv == TypeOK /\ StoreInv(adb, now) /\ FiringFresh

(* Nil is no time, and time is an integer. *)
LEMMA TimesAreIntegers == Times \subseteq Int /\ Nil \in Int /\ Nil \notin Times
BY ConfigAssumption DEF Times, Nil

(* An event in the store is not a stand-in for no event. *)
LEMMA EventIsSome == None \notin Event
<1>1. DOMAIN None = {"status"}
  BY DEF None
<1>2. \A e \in Event : "id" \in DOMAIN e
  BY DEF Event
<1> QED
  BY <1>1, <1>2

(* Storing a new event keeps both indices exact. *)
LEMMA PutCorrect ==
  ASSUME NEW a, NEW t, StoreInv(a, t), NEW e \in Event, e.id \notin Live(a), Timed(e, t)
  PROVE  StoreInv(PutEvent(a, e), t) /\ Live(PutEvent(a, e)) = Live(a) \cup {e.id}
<1> DEFINE r == PutEvent(a, e)
<1>1. e.id \in Ids /\ e.rule \in Rules /\ e.source \in Sources
  BY DEF Event
<1>2. /\ DOMAIN r = {"events", "ruleIndex", "sourceIndex"}
      /\ r.events = [x \in Live(a) \cup {e.id} |-> IF x = e.id THEN e ELSE a.events[x]]
      /\ r.ruleIndex = [a.ruleIndex EXCEPT ![e.rule][e.id] = @ + 1]
      /\ r.sourceIndex = [a.sourceIndex EXCEPT ![e.source][e.id] = @ + 1]
  BY DEF PutEvent
<1> HIDE DEF r
<1>3. /\ Live(r) = Live(a) \cup {e.id} /\ r.events[e.id] = e
      /\ \A x \in Live(a) : x # e.id /\ r.events[x] = a.events[x]
  BY <1>2 DEF Live
<1>4. /\ a.ruleIndex \in [Rules -> [Ids -> Nat]] /\ a.sourceIndex \in [Sources -> [Ids -> Nat]]
      /\ Live(a) \subseteq Ids
      /\ \A id \in Live(a) : a.events[id] \in Event /\ a.events[id].id = id /\ Timed(a.events[id], t)
      /\ Exact(a)
  BY DEF StoreInv, StoreType
<1>5. /\ r.ruleIndex \in [Rules -> [Ids -> Nat]]
      /\ \A q \in Rules, x \in Ids : r.ruleIndex[q][x] =
           IF q = e.rule /\ x = e.id THEN a.ruleIndex[q][x] + 1 ELSE a.ruleIndex[q][x]
  BY <1>1, <1>2, <1>4
<1>6. /\ r.sourceIndex \in [Sources -> [Ids -> Nat]]
      /\ \A q \in Sources, x \in Ids : r.sourceIndex[q][x] =
           IF q = e.source /\ x = e.id THEN a.sourceIndex[q][x] + 1 ELSE a.sourceIndex[q][x]
  BY <1>1, <1>2, <1>4
<1>7. /\ \A q \in Rules : a.ruleIndex[q][e.id] = 0
      /\ \A q \in Sources : a.sourceIndex[q][e.id] = 0
  BY <1>1, <1>4 DEF Exact
<1>8. Exact(r)
  <2>1. ASSUME NEW q \in Rules, NEW x \in Ids
        PROVE  r.ruleIndex[q][x] = IF x \in Live(r) /\ r.events[x].rule = q THEN 1 ELSE 0
    <3>1. CASE x = e.id
      BY <1>1, <1>3, <1>5, <1>7, <3>1
    <3>2. CASE x # e.id
      <4>1. a.ruleIndex[q][x] = IF x \in Live(a) /\ a.events[x].rule = q THEN 1 ELSE 0
        BY <1>4 DEF Exact
      <4> QED
        BY <1>3, <1>5, <3>2, <4>1
    <3> QED
      BY <3>1, <3>2
  <2>2. ASSUME NEW q \in Sources, NEW x \in Ids
        PROVE  r.sourceIndex[q][x] = IF x \in Live(r) /\ r.events[x].source = q THEN 1 ELSE 0
    <3>1. CASE x = e.id
      BY <1>1, <1>3, <1>6, <1>7, <3>1
    <3>2. CASE x # e.id
      <4>1. a.sourceIndex[q][x] = IF x \in Live(a) /\ a.events[x].source = q THEN 1 ELSE 0
        BY <1>4 DEF Exact
      <4> QED
        BY <1>3, <1>6, <3>2, <4>1
    <3> QED
      BY <3>1, <3>2
  <2> QED
    BY <2>1, <2>2 DEF Exact
<1>9. StoreType(r)
  <2>1. Live(r) \subseteq Ids
    BY <1>1, <1>3, <1>4
  <2>2. \A id \in Live(r) : r.events[id] \in Event /\ r.events[id].id = id
    BY <1>3, <1>4
  <2> QED
    BY <1>2, <1>5, <1>6, <2>1, <2>2 DEF StoreType
<1>10. \A id \in Live(r) : Timed(r.events[id], t)
  BY <1>3, <1>4
<1> QED
  BY <1>3, <1>8, <1>9, <1>10 DEF StoreInv, r

(* Taking an event out keeps both indices exact. *)
LEMMA RemoveCorrect ==
  ASSUME NEW a, NEW t, StoreInv(a, t), NEW id \in Live(a)
  PROVE  /\ StoreInv(RemoveEvent(a, id), t)
         /\ Live(RemoveEvent(a, id)) = Live(a) \ {id}
         /\ \A x \in Live(a) \ {id} : RemoveEvent(a, id).events[x] = a.events[x]
<1> DEFINE r == RemoveEvent(a, id)
           e == a.events[id]
<1>1. /\ a.ruleIndex \in [Rules -> [Ids -> Nat]] /\ a.sourceIndex \in [Sources -> [Ids -> Nat]]
      /\ Live(a) \subseteq Ids
      /\ \A x \in Live(a) : a.events[x] \in Event /\ a.events[x].id = x /\ Timed(a.events[x], t)
      /\ Exact(a)
  BY DEF StoreInv, StoreType
<1>2. e \in Event /\ e.id = id /\ id \in Ids /\ e.rule \in Rules /\ e.source \in Sources
  BY <1>1 DEF Event
<1>3. /\ DOMAIN r = {"events", "ruleIndex", "sourceIndex"}
      /\ r.events = [x \in Live(a) \ {id} |-> a.events[x]]
      /\ r.ruleIndex = [a.ruleIndex EXCEPT ![e.rule][id] = Unlist(@)]
      /\ r.sourceIndex = [a.sourceIndex EXCEPT ![e.source][id] = Unlist(@)]
  BY DEF RemoveEvent
<1> HIDE DEF r
<1>4. /\ Live(r) = Live(a) \ {id}
      /\ \A x \in Live(a) \ {id} : r.events[x] = a.events[x]
      /\ \A x \in Live(a) : x \in Live(r) <=> x # id
  BY <1>3 DEF Live
<1>5. a.ruleIndex[e.rule][id] = 1 /\ a.sourceIndex[e.source][id] = 1
  BY <1>1, <1>2 DEF Exact
<1>6. Unlist(1) = 0
  BY DEF Unlist
<1>7. /\ r.ruleIndex = [a.ruleIndex EXCEPT ![e.rule][id] = 0]
      /\ r.sourceIndex = [a.sourceIndex EXCEPT ![e.source][id] = 0]
  <2>1. Unlist(a.ruleIndex[e.rule][id]) = 0 /\ Unlist(a.sourceIndex[e.source][id]) = 0
    BY <1>5, <1>6
  <2> QED
    BY <1>3, <2>1
<1> HIDE DEF e
<1>8. /\ r.ruleIndex \in [Rules -> [Ids -> Nat]]
      /\ \A q \in Rules, x \in Ids : r.ruleIndex[q][x] =
           IF q = e.rule /\ x = id THEN 0 ELSE a.ruleIndex[q][x]
  BY <1>1, <1>2, <1>7
<1>9. /\ r.sourceIndex \in [Sources -> [Ids -> Nat]]
      /\ \A q \in Sources, x \in Ids : r.sourceIndex[q][x] =
           IF q = e.source /\ x = id THEN 0 ELSE a.sourceIndex[q][x]
  BY <1>1, <1>2, <1>7
<1>10. Exact(r)
  <2>1. ASSUME NEW q \in Rules, NEW x \in Ids
        PROVE  r.ruleIndex[q][x] = IF x \in Live(r) /\ r.events[x].rule = q THEN 1 ELSE 0
    <3>1. a.ruleIndex[q][x] = IF x \in Live(a) /\ a.events[x].rule = q THEN 1 ELSE 0
      BY <1>1 DEF Exact
    <3>2. CASE x = id
      BY <1>4, <1>8, <3>1, <3>2 DEF e
    <3>3. CASE x # id
      BY <1>4, <1>8, <3>1, <3>3
    <3> QED
      BY <3>2, <3>3
  <2>2. ASSUME NEW q \in Sources, NEW x \in Ids
        PROVE  r.sourceIndex[q][x] = IF x \in Live(r) /\ r.events[x].source = q THEN 1 ELSE 0
    <3>1. a.sourceIndex[q][x] = IF x \in Live(a) /\ a.events[x].source = q THEN 1 ELSE 0
      BY <1>1 DEF Exact
    <3>2. CASE x = id
      BY <1>4, <1>9, <3>1, <3>2 DEF e
    <3>3. CASE x # id
      BY <1>4, <1>9, <3>1, <3>3
    <3> QED
      BY <3>2, <3>3
  <2> QED
    BY <2>1, <2>2 DEF Exact
<1>11. StoreType(r)
  BY <1>1, <1>3, <1>4, <1>8, <1>9 DEF StoreType
<1>12. \A x \in Live(r) : Timed(r.events[x], t)
  BY <1>1, <1>4
<1> QED
  BY <1>4, <1>10, <1>11, <1>12 DEF StoreInv, r

(* Replacing an event by one of the same identity, rule and source leaves   *)
(* the indices exact.                                                       *)
LEMMA SetCorrect ==
  ASSUME NEW a, NEW t, StoreInv(a, t), NEW id \in Live(a), NEW e \in Event, Timed(e, t),
         e.id = id, e.rule = a.events[id].rule, e.source = a.events[id].source
  PROVE  /\ StoreInv(SetEvent(a, id, e), t)
         /\ Live(SetEvent(a, id, e)) = Live(a)
         /\ \A x \in Live(a) : SetEvent(a, id, e).events[x] = IF x = id THEN e ELSE a.events[x]
<1> DEFINE r == SetEvent(a, id, e)
<1>1. /\ DOMAIN a = {"events", "ruleIndex", "sourceIndex"}
      /\ a.ruleIndex \in [Rules -> [Ids -> Nat]] /\ a.sourceIndex \in [Sources -> [Ids -> Nat]]
      /\ Live(a) \subseteq Ids
      /\ \A x \in Live(a) : a.events[x] \in Event /\ a.events[x].id = x /\ Timed(a.events[x], t)
      /\ Exact(a)
  BY DEF StoreInv, StoreType
<1>2. /\ DOMAIN r = {"events", "ruleIndex", "sourceIndex"}
      /\ r.events = [x \in Live(a) |-> IF x = id THEN e ELSE a.events[x]]
      /\ r.ruleIndex = a.ruleIndex /\ r.sourceIndex = a.sourceIndex
  BY <1>1 DEF SetEvent
<1> HIDE DEF r
<1>3. Live(r) = Live(a) /\ \A x \in Live(a) : r.events[x] = IF x = id THEN e ELSE a.events[x]
  BY <1>2 DEF Live
<1>4. Exact(r)
  BY <1>1, <1>2, <1>3 DEF Exact
<1>5. StoreType(r)
  BY <1>1, <1>2, <1>3 DEF StoreType
<1>6. \A x \in Live(r) : Timed(r.events[x], t)
  BY <1>1, <1>3
<1> QED
  BY <1>3, <1>4, <1>5, <1>6 DEF StoreInv, r

(* Time only makes the store and the events in flight older. *)
LEMMA LaterIsFine ==
  ASSUME NEW e \in Event, NEW t \in Times, NEW u \in Times, t <= u, Timed(e, t)
  PROVE  Timed(e, u)
<1>1. e.triggered \in Times /\ e.resolved \in Times \cup {Nil}
  BY DEF Event
<1>2. e.triggered \in Int /\ e.resolved \in Int /\ t \in Int /\ u \in Int
  BY <1>1, TimesAreIntegers
<1> QED
  BY <1>2 DEF Timed

(* What resolving and acknowledging do to one event. *)
LEMMA EventUpdates ==
  ASSUME NEW e \in Event, NEW t \in Times, Timed(e, t)
  PROVE  /\ ResolvedAt(e, t) \in Event /\ Timed(ResolvedAt(e, t), t)
         /\ Acknowledged(e) \in Event /\ Timed(Acknowledged(e), t)
         /\ \A f \in {ResolvedAt(e, t), Acknowledged(e)} :
              /\ f.id = e.id /\ f.rule = e.rule /\ f.source = e.source
              /\ e.resolved <= f.resolved
<1>1. e.triggered \in Times /\ e.resolved \in Times \cup {Nil} /\ RESOLVED \in Statuses /\ ACKNOWLEDGED \in Statuses
  BY DEF Event, Statuses
<1>2. e.triggered \in Int /\ e.resolved \in Int /\ t \in Int /\ t # Nil /\ Nil <= t
  BY <1>1, ConfigAssumption DEF Times, Nil
<1>3. /\ ResolvedAt(e, t) \in Event
      /\ ResolvedAt(e, t).triggered = e.triggered /\ ResolvedAt(e, t).resolved = t
      /\ ResolvedAt(e, t).id = e.id /\ ResolvedAt(e, t).rule = e.rule
      /\ ResolvedAt(e, t).source = e.source
  BY <1>1 DEF ResolvedAt, Event
<1>4. /\ Acknowledged(e) \in Event
      /\ Acknowledged(e).triggered = e.triggered /\ Acknowledged(e).resolved = e.resolved
      /\ Acknowledged(e).id = e.id /\ Acknowledged(e).rule = e.rule
      /\ Acknowledged(e).source = e.source /\ Acknowledged(e).status = ACKNOWLEDGED
  BY <1>1 DEF Acknowledged, Event
<1>5. e.resolved <= t
  BY <1>2 DEF Timed
<1>6. Timed(ResolvedAt(e, t), t)
  BY <1>2, <1>3 DEF Timed
<1>7. Timed(Acknowledged(e), t)
  BY <1>2, <1>4 DEF Timed, ACKNOWLEDGED, RESOLVED
<1> QED
  BY <1>2, <1>3, <1>4, <1>5, <1>6, <1>7

-----------------------------------------------------------------------------
LEMMA InitIndInv == Init => IndInv
<1> SUFFICES ASSUME Init PROVE IndInv
  OBVIOUS
<1>1. Live(adb) = {}
  BY DEF Init, EmptyStore, Live
<1>2. StoreType(adb)
  BY <1>1 DEF Init, EmptyStore, StoreType
<1>3. Exact(adb)
  BY <1>1 DEF Init, EmptyStore, Exact
<1>4. now \in Times
  BY ConfigAssumption DEF Init, Times
<1>5. TypeOK
  BY <1>2, <1>4 DEF Init, TypeOK, Stopped, Free
<1>6. FiringFresh
  BY DEF Init, FiringFresh
<1> QED
  BY <1>1, <1>2, <1>3, <1>5, <1>6 DEF IndInv, StoreInv

(* A step that shrinks or keeps the set of stored events and nothing that is *)
(* in flight leaves what is in flight new.                                   *)
LEMMA FiringUntouched ==
  ASSUME IndInv, Live(adb)' \subseteq Live(adb), UNCHANGED <<firing, now>>
  PROVE  FiringFresh'
BY DEF IndInv, FiringFresh

(* A step that replaces an event by its resolved or acknowledged self. *)
LEMMA UpdateStep ==
  ASSUME IndInv, NEW id \in Live(adb), NEW f \in {ResolvedAt(adb.events[id], now), Acknowledged(adb.events[id])},
         adb' = SetEvent(adb, id, f), UNCHANGED <<firing, now>>
  PROVE  /\ StoreInv(adb, now)' /\ FiringFresh'
         /\ Live(adb)' = Live(adb)
         /\ \A x \in Live(adb) : adb.events[x].resolved <= adb'.events[x].resolved
<1>1. /\ StoreInv(adb, now) /\ now \in Times
      /\ \A x \in Live(adb) : adb.events[x] \in Event /\ adb.events[x].id = x /\ Timed(adb.events[x], now)
  BY DEF IndInv, TypeOK, StoreInv, StoreType
<1>2. /\ f \in Event /\ Timed(f, now) /\ f.id = id /\ f.rule = adb.events[id].rule
      /\ f.source = adb.events[id].source /\ adb.events[id].resolved <= f.resolved
  BY <1>1, EventUpdates
<1>3. /\ StoreInv(SetEvent(adb, id, f), now)
      /\ Live(SetEvent(adb, id, f)) = Live(adb)
      /\ \A x \in Live(adb) : SetEvent(adb, id, f).events[x] = IF x = id THEN f ELSE adb.events[x]
  BY <1>1, <1>2, SetCorrect
<1>4. StoreInv(adb, now)' /\ Live(adb)' = Live(adb)
  BY <1>3
<1>5. \A x \in Live(adb) : adb.events[x].resolved <= adb'.events[x].resolved
  <2> SUFFICES ASSUME NEW x \in Live(adb)
               PROVE  adb.events[x].resolved <= adb'.events[x].resolved
    OBVIOUS
  <2>1. CASE x = id
    BY <1>2, <1>3, <2>1
  <2>2. CASE x # id
    <3>1. adb.events[x].resolved \in Int
      BY <1>1, TimesAreIntegers DEF Event
    <3> QED
      BY <1>3, <2>2, <3>1
  <2> QED
    BY <2>1, <2>2
<1> QED
  BY <1>4, <1>5, FiringUntouched

(* A step that takes an event out. *)
LEMMA RemovalStep ==
  ASSUME IndInv, NEW id \in Live(adb), adb' = RemoveEvent(adb, id), UNCHANGED <<firing, now>>
  PROVE  /\ StoreInv(adb, now)' /\ FiringFresh'
         /\ Live(adb)' = Live(adb) \ {id}
         /\ \A x \in Live(adb)' : adb'.events[x] = adb.events[x]
<1>1. StoreInv(adb, now)
  BY DEF IndInv
<1>2. /\ StoreInv(RemoveEvent(adb, id), now)
      /\ Live(RemoveEvent(adb, id)) = Live(adb) \ {id}
      /\ \A x \in Live(adb) \ {id} : RemoveEvent(adb, id).events[x] = adb.events[x]
  BY <1>1, RemoveCorrect
<1> QED
  BY <1>2, FiringUntouched

(* Every step preserves IndInv, moves resolution times only forward, and    *)
(* cleans up only what was resolved.                                        *)
LEMMA NextIndInv ==
  ASSUME IndInv, [Next]_avars
  PROVE  /\ IndInv'
         /\ \A id \in Live(adb) \cap Live(adb)' : adb.events[id].resolved <= adb'.events[id].resolved
<1> USE DEF IndInv
<1>0. /\ TypeOK /\ StoreInv(adb, now) /\ FiringFresh /\ now \in Times
      /\ \A x \in Live(adb) :
           /\ adb.events[x] \in Event /\ Timed(adb.events[x], now)
           /\ adb.events[x].resolved \in Int
      /\ StoreType(adb) /\ Live(adb) \subseteq Ids
  <2>1. \A x \in Live(adb) : adb.events[x] \in Event /\ Timed(adb.events[x], now)
    BY DEF StoreInv, StoreType
  <2> QED
    BY <2>1, TimesAreIntegers DEF TypeOK, Event, StoreType
<1>1. ASSUME NEW w \in Evaluators, NewAlertEvent(w)
      PROVE  IndInv' /\ UNCHANGED adb
  <2>1. PICK id \in Ids, r \in Rules, s \in Sources :
          /\ Fresh(id)
          /\ firing' = [firing EXCEPT ![w] =
               [id |-> id, rule |-> r, source |-> s, triggered |-> now,
                resolved |-> Nil, status |-> FIRED]]
    BY <1>1 DEF NewAlertEvent
  <2> DEFINE e == [id |-> id, rule |-> r, source |-> s, triggered |-> now,
                   resolved |-> Nil, status |-> FIRED]
  <2>2. e \in Event /\ e.id = id /\ Timed(e, now)
    BY <1>0, TimesAreIntegers DEF Event, Statuses, Timed, FIRED, RESOLVED
  <2>3. UNCHANGED <<adb, resolver, amu, now>>
    BY <1>1 DEF NewAlertEvent
  <2> HIDE DEF e
  <2>4. firing' = [firing EXCEPT ![w] = e] /\ DOMAIN firing = Evaluators
    BY <1>0, <2>1 DEF TypeOK, e
  <2>5. id \notin Live(adb) /\ \A v \in Evaluators : firing[v] # None => firing[v].id # id
    BY <2>1 DEF Fresh
  <2>6. TypeOK'
    BY <1>0, <2>2, <2>3, <2>4 DEF TypeOK
  <2>7. \A v \in Evaluators : firing'[v] = IF v = w THEN e ELSE firing[v]
    BY <2>4
  <2>8. FiringFresh'
    BY <1>0, <2>2, <2>3, <2>5, <2>7 DEF FiringFresh
  <2> QED
    BY <1>0, <2>3, <2>6, <2>8
<1>2. ASSUME NEW w \in Evaluators, Store(w)
      PROVE  IndInv' /\ \A x \in Live(adb) : adb'.events[x] = adb.events[x]
  <2> DEFINE e == firing[w]
  <2>1. /\ firing[w] # None /\ adb' = PutEvent(adb, firing[w])
        /\ firing' = [firing EXCEPT ![w] = None] /\ UNCHANGED <<resolver, amu, now>>
    BY <1>2 DEF Store
  <2>2. e \in Event /\ e.id \notin Live(adb) /\ Timed(e, now)
    BY <1>0, <2>1 DEF FiringFresh
  <2>3. StoreInv(adb, now)' /\ Live(adb)' = Live(adb) \cup {e.id}
    BY <1>0, <2>1, <2>2, PutCorrect
  <2>4. \A x \in Live(adb) : adb'.events[x] = adb.events[x]
    BY <2>1, <2>2 DEF PutEvent, Live
  <2>5. \A v \in Evaluators : firing'[v] = IF v = w THEN None ELSE firing[v]
    BY <1>0, <2>1 DEF TypeOK
  <2>6. FiringFresh'
    BY <1>0, <2>1, <2>3, <2>5 DEF FiringFresh
  <2>7. TypeOK'
    BY <1>0, <2>1, <2>3, <2>5 DEF TypeOK, StoreInv
  <2> QED
    BY <2>3, <2>4, <2>6, <2>7
<1>3. ASSUME NEW id \in Ids, Acknowledge(id)
      PROVE  /\ IndInv'
             /\ \A x \in Live(adb) : adb.events[x].resolved <= adb'.events[x].resolved
  <2>1. /\ id \in Live(adb) /\ adb' = SetEvent(adb, id, Acknowledged(adb.events[id]))
        /\ UNCHANGED <<firing, resolver, amu, now>>
    BY <1>3 DEF Acknowledge
  <2>2. /\ StoreInv(adb, now)' /\ FiringFresh'
        /\ \A x \in Live(adb) : adb.events[x].resolved <= adb'.events[x].resolved
    BY <1>0, <2>1, UpdateStep
  <2> QED
    BY <1>0, <2>1, <2>2 DEF TypeOK, StoreInv
<1>4. ASSUME NEW id \in Ids, Resolve(id)
      PROVE  /\ IndInv'
             /\ \A x \in Live(adb) : adb.events[x].resolved <= adb'.events[x].resolved
  <2>1. /\ id \in Live(adb) /\ adb' = SetEvent(adb, id, ResolvedAt(adb.events[id], now))
        /\ UNCHANGED <<firing, resolver, amu, now>>
    BY <1>4 DEF Resolve
  <2>2. /\ StoreInv(adb, now)' /\ FiringFresh'
        /\ \A x \in Live(adb) : adb.events[x].resolved <= adb'.events[x].resolved
    BY <1>0, <2>1, UpdateStep
  <2> QED
    BY <1>0, <2>1, <2>2 DEF TypeOK, StoreInv
<1>5. ASSUME NEW id \in Ids, Delete(id)
      PROVE  IndInv' /\ \A x \in Live(adb)' : adb'.events[x] = adb.events[x]
  <2>1. /\ id \in Live(adb) /\ adb' = RemoveEvent(adb, id)
        /\ UNCHANGED <<firing, resolver, amu, now>>
    BY <1>5 DEF Delete
  <2>2. /\ StoreInv(adb, now)' /\ FiringFresh'
        /\ \A x \in Live(adb)' : adb'.events[x] = adb.events[x]
    BY <1>0, <2>1, RemovalStep
  <2> QED
    BY <1>0, <2>1, <2>2 DEF TypeOK, StoreInv
<1>6. ASSUME StartAutoResolve
      PROVE  IndInv' /\ UNCHANGED adb
  <2>1. resolver' = [scanning |-> TRUE, todo |-> Snapshot(adb)] /\ UNCHANGED <<adb, firing, amu, now>>
    BY <1>6 DEF StartAutoResolve
  <2>2. Snapshot(adb) \subseteq Ids
    BY <1>0 DEF Snapshot, ListActive
  <2> QED
    BY <1>0, <2>1, <2>2 DEF TypeOK, FiringFresh
<1>7. ASSUME NEW id \in Ids, AutoResolve(id)
      PROVE  /\ IndInv'
             /\ \A x \in Live(adb) : adb.events[x].resolved <= adb'.events[x].resolved
  <2>1. resolver' = [resolver EXCEPT !.todo = @ \ {id}] /\ UNCHANGED <<firing, amu, now>>
    BY <1>7 DEF AutoResolve
  <2>2. resolver' \in [scanning : BOOLEAN, todo : SUBSET Ids]
    BY <1>0, <2>1 DEF TypeOK
  <2>3. CASE UNCHANGED adb
    BY <1>0, <2>1, <2>2, <2>3 DEF TypeOK, FiringFresh
  <2>4. CASE id \in Live(adb) /\ adb' = SetEvent(adb, id, ResolvedAt(adb.events[id], now))
    <3>1. /\ StoreInv(adb, now)' /\ FiringFresh'
          /\ \A x \in Live(adb) : adb.events[x].resolved <= adb'.events[x].resolved
      BY <1>0, <2>1, <2>4, UpdateStep
    <3> QED
      BY <1>0, <2>1, <2>2, <3>1 DEF TypeOK, StoreInv
  <2> QED
    BY <1>7, <2>3, <2>4 DEF AutoResolve
<1>8. ASSUME FinishAutoResolve
      PROVE  IndInv' /\ UNCHANGED adb
  BY <1>0, <1>8 DEF FinishAutoResolve, TypeOK, FiringFresh, Stopped
<1>9. ASSUME Cleanup
      PROVE  IndInv' /\ UNCHANGED adb
  <2>1. amu' \in CleanupLoop /\ UNCHANGED <<adb, firing, resolver, now>>
    <3>1. now - Retention \in Int
      BY <1>0, TimesAreIntegers, ConfigAssumption
    <3> QED
      BY <1>9, <3>1 DEF Cleanup, CleanupLoop
  <2> QED
    BY <1>0, <2>1 DEF TypeOK, FiringFresh
<1>10. ASSUME CleanupNext
       PROVE  IndInv' /\ \A x \in Live(adb)' : adb'.events[x] = adb.events[x]
  <2>1. PICK id \in Live(adb) : adb' = RemoveEvent(adb, id)
    BY <1>10 DEF CleanupNext
  <2>2. UNCHANGED <<firing, resolver, amu, now>>
    BY <1>10 DEF CleanupNext
  <2>3. /\ StoreInv(adb, now)' /\ FiringFresh'
        /\ \A x \in Live(adb)' : adb'.events[x] = adb.events[x]
    BY <1>0, <2>1, <2>2, RemovalStep
  <2> QED
    BY <1>0, <2>2, <2>3 DEF TypeOK, StoreInv
<1>11. ASSUME CleanupDone
       PROVE  IndInv' /\ UNCHANGED adb
  BY <1>0, <1>11 DEF CleanupDone, TypeOK, FiringFresh
<1>12. ASSUME Tick
       PROVE  IndInv' /\ UNCHANGED adb
  <2>1. now' \in Times /\ now <= now' /\ UNCHANGED <<adb, firing, resolver, amu>>
    BY <1>0, <1>12, ConfigAssumption DEF Tick, Times
  <2>2. \A e \in Event : Timed(e, now) => Timed(e, now')
    BY <1>0, <2>1, LaterIsFine
  <2>3. StoreInv(adb, now)'
    BY <1>0, <2>1, <2>2 DEF StoreInv
  <2>4. FiringFresh'
    BY <1>0, <2>1, <2>2 DEF FiringFresh
  <2> QED
    BY <1>0, <2>1, <2>3, <2>4 DEF TypeOK
<1>13. ASSUME UNCHANGED avars
       PROVE  IndInv' /\ UNCHANGED adb
  BY <1>0, <1>13 DEF avars, TypeOK, FiringFresh
<1>14. ASSUME \A x \in Live(adb) \cap Live(adb)' : adb'.events[x] = adb.events[x]
       PROVE  \A id \in Live(adb) \cap Live(adb)' : adb.events[id].resolved <= adb'.events[id].resolved
  BY <1>0, <1>14
<1> HIDE DEF IndInv
<1> QED
  BY <1>1, <1>2, <1>3, <1>4, <1>5, <1>6, <1>7, <1>8, <1>9, <1>10, <1>11, <1>12, <1>13, <1>14
     DEF Next

(* What cleanup takes out was resolved: it is either past the retention     *)
(* with a resolution time, or no longer active, which is RESOLVED.          *)
LEMMA CleanupStep ==
  ASSUME IndInv, CleanupNext, NEW id \in Live(adb) \ Live(adb)'
  PROVE  adb.events[id].resolved # Nil
<1>1. PICK x \in Live(adb) : Removable(adb.events[x], amu.cutoff) /\ adb' = RemoveEvent(adb, x)
  BY DEF CleanupNext
<1>2. Live(adb)' = Live(adb) \ {x}
  BY <1>1, RemovalStep DEF CleanupNext
<1>3. id = x
  BY <1>2
<1>4. adb.events[x] \in Event /\ Timed(adb.events[x], now)
  BY DEF IndInv, StoreInv, StoreType
<1>5. CASE adb.events[x].resolved # Nil
  BY <1>3, <1>5
<1>6. CASE ~IsActive(adb.events[x])
  <2>1. adb.events[x].status = RESOLVED
    BY <1>4, <1>6 DEF Event, Statuses, IsActive
  <2> QED
    BY <1>3, <1>4, <2>1 DEF Timed
<1> QED
  BY <1>1, <1>5, <1>6 DEF Removable

-----------------------------------------------------------------------------
(* IndInv holds in every reachable state, for every number of evaluations,  *)
(* events, rules and sources (memory_alert_store.go, alert_service.go).     *)
THEOREM AlwaysIndInv == Spec => []IndInv
<1>1. IndInv /\ [Next]_avars => IndInv'
  BY NextIndInv
<1> QED
  BY <1>1, InitIndInv, PTL DEF Spec

(* The types of the store's fields and of the tasks that work on it. *)
THEOREM TypeCorrect == Spec => []TypeOK
<1>1. IndInv => TypeOK
  BY DEF IndInv
<1> QED
  BY <1>1, AlwaysIndInv, PTL

(* Both removal paths leave the two indices exact (memory_alert_store.go:77-*)
(* 114, 160-197, 241-265).                                                  *)
THEOREM IndicesAreExact == Spec => []IndicesExact
<1>1. IndInv => IndicesExact
  BY DEF IndInv, StoreInv, IndicesExact
<1> QED
  BY <1>1, AlwaysIndInv, PTL

(* triggered <= resolved <= now, and RESOLVED means a time was recorded     *)
(* (alert_event.go:107-111).                                                *)
THEOREM ResolutionIsInOrder == Spec => []ResolvedInOrder
<1>1. IndInv => ResolvedInOrder
  BY DEF IndInv, StoreInv, ResolvedInOrder
<1> QED
  BY <1>1, AlwaysIndInv, PTL

(* No interleaving of users and the auto-resolve task moves a resolution    *)
(* time back or clears it (alert_service.go:192-198).                       *)
THEOREM ResolutionOnlyMovesForward == Spec => ResolutionMovesForward
<1>1. IndInv /\ [Next]_avars =>
        [\A id \in Live(adb) \cap Live(adb)' :
           adb.events[id].resolved <= adb'.events[id].resolved]_avars
  BY NextIndInv
<1> QED
  BY <1>1, AlwaysIndInv, PTL DEF Spec, ResolutionMovesForward

(* Cleanup takes out only what was resolved (memory_alert_store.go:212-220).*)
THEOREM CleanupOnlyTakesResolved == Spec => CleanupSparesUnresolved
<1>1. IndInv /\ [Next]_avars =>
        [CleanupNext => \A id \in Live(adb) \ Live(adb)' : adb.events[id].resolved # Nil]_avars
  BY CleanupStep
<1> QED
  BY <1>1, AlwaysIndInv, PTL DEF Spec, CleanupSparesUnresolved
=============================================================================
