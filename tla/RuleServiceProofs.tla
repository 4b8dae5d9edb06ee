--------------------------- MODULE RuleServiceProofs ---------------------------
(***************************************************************************)
(* Proofs about RuleService, for every value of its constants.             *)
(*                                                                         *)
(* IndInv adds to the checked properties what the requests in progress     *)
(* know: an update writes only fields its body gives, a request inside     *)
(* store.Update works on a stored rule, and a creation has compared its    *)
(* name with every stored rule that is neither ahead of it nor a rival.    *)
(***************************************************************************)
EXTENDS RuleService, TLAPS

Positive(r) == r.name # "" /\ r.window > 0 /\ r.threshold > 0

(* What a request may be, when D are the rules ever stored and R the stored. *)
ReqOK(r, D, R) ==
  \/ r = Idle
  \/ r \in Creating /\ Valid(r.rule) /\ r.todo \subseteq D
  \/ r \in Updating /\ r.id \in D /\ \A f \in r.left : Given(r.patch, f)
  \/ r \in Saving /\ r.id \in D
  \/ r \in Reindexing /\ r.id \in R

ObjectsOK ==
  /\ rules \subseteq DOMAIN obj /\ DOMAIN obj \subseteq Ids
  /\ \A id \in DOMAIN obj : obj[id] \in Rule /\ Positive(obj[id])

RequestsOK ==
  /\ DOMAIN req = Requests
  /\ \A q \in Requests : ReqOK(req[q], DOMAIN obj, rules)

OneInside ==
  \A p, q \in Requests : req[p].op = "reindex" /\ req[q].op = "reindex" => p = q

(* Only a request about to append an id may leave it listed nowhere. *)
Appending(q, id) == req[q].op = "reindex" /\ req[q].step = "append" /\ req[q].id = id
Listed(id) ==
  \/ \E k \in Keys : sourceIndex[k][id] > 0
  \/ \E q \in Requests : Appending(q, id)

Compared(q) ==
  req[q].op = "create" =>
    \A id \in rules \ (req[q].todo \cup rivals[q]) : obj[id].name # req[q].rule.name

IndexType == sourceIndex \in [Keys -> [Ids -> Nat]]
RivalsType == rivals \in [Requests -> SUBSET Ids]

IndInv ==
  /\ ObjectsOK /\ IndexType /\ RivalsType
  /\ RequestsOK /\ OneInside
  /\ \A id \in rules : Listed(id)
  /\ \A q \in Requests : Compared(q)

-----------------------------------------------------------------------------
(* The operation of a request tells its shape. *)
LEMMA RequestShape ==
  ASSUME NEW r, NEW D, NEW R, ReqOK(r, D, R)
  PROVE  /\ r.op \in {"idle", "create", "update", "save", "reindex"}
         /\ r.op = "idle" => r = Idle
         /\ r.op = "create" => r \in Creating /\ Valid(r.rule) /\ r.todo \subseteq D
         /\ r.op = "update" => r \in Updating /\ r.id \in D /\ \A f \in r.left : Given(r.patch, f)
         /\ r.op = "save" => r \in Saving /\ r.id \in D
         /\ r.op = "reindex" => r \in Reindexing /\ r.id \in R
<1>1. CASE r = Idle
  BY <1>1 DEF Idle
<1>2. CASE r \in Creating /\ Valid(r.rule) /\ r.todo \subseteq D
  BY <1>2 DEF Creating
<1>3. CASE r \in Updating /\ r.id \in D /\ \A f \in r.left : Given(r.patch, f)
  <2>1. r.op = "update"
    BY <1>3 DEF Updating
  <2> QED
    BY <1>3, <2>1
<1>4. CASE r \in Saving /\ r.id \in D
  BY <1>4 DEF Saving
<1>5. CASE r \in Reindexing /\ r.id \in R
  BY <1>5 DEF Reindexing
<1> QED
  BY <1>1, <1>2, <1>3, <1>4, <1>5 DEF ReqOK

(* More rules may be stored under a request, and fewer while it is outside. *)
LEMMA RequestKept ==
  ASSUME NEW r, NEW D, NEW R, ReqOK(r, D, R), NEW E, D \subseteq E, NEW S,
         R \subseteq S \/ r.op # "reindex"
  PROVE  ReqOK(r, E, S)
<1>1. CASE r = Idle
  BY <1>1 DEF ReqOK
<1>2. CASE r \in Creating /\ Valid(r.rule) /\ r.todo \subseteq D
  BY <1>2 DEF ReqOK
<1>3. CASE r \in Updating /\ r.id \in D /\ \A f \in r.left : Given(r.patch, f)
  BY <1>3 DEF ReqOK
<1>4. CASE r \in Saving /\ r.id \in D
  BY <1>4 DEF ReqOK
<1>5. CASE r \in Reindexing /\ r.id \in R
  <2>1. r.op = "reindex"
    BY <1>5 DEF Reindexing
  <2> QED
    BY <1>5, <2>1 DEF ReqOK
<1> QED
  BY <1>1, <1>2, <1>3, <1>4, <1>5 DEF ReqOK

(* A write of a given field keeps a rule positive. *)
LEMMA WriteKeepsPositive ==
  ASSUME NEW r \in Rule, Positive(r), NEW p \in Patch, NEW f \in Fields, Given(p, f)
  PROVE  /\ Written(r, p, f) \in Rule /\ Positive(Written(r, p, f))
         /\ f # "name" => Written(r, p, f).name = r.name
<1>1. /\ Windows \subseteq Int /\ Thresholds \subseteq Int
  BY RuleAssumption
<1>2. CASE f = "name"
  BY <1>1, <1>2 DEF Written, ValueOf, Given, Rule, Patch, Positive
<1>3. CASE f = "source"
  BY <1>1, <1>3 DEF Written, ValueOf, Given, Rule, Patch, Positive
<1>4. CASE f = "window"
  BY <1>1, <1>4 DEF Written, ValueOf, Given, Rule, Patch, Positive
<1>5. CASE f = "threshold"
  BY <1>1, <1>5 DEF Written, ValueOf, Given, Rule, Patch, Positive
<1>6. CASE f = "enabled"
  <2> DEFINE on == ValueOf(p, f)
  <2>1. on \in BOOLEAN
    BY <1>6 DEF ValueOf
  <2> HIDE DEF on
  <2>2. [r EXCEPT !["enabled"] = on] \in Rule
    BY <2>1 DEF Rule
  <2>3. Written(r, p, f) = [r EXCEPT !["enabled"] = on]
    BY <1>6 DEF Written, on
  <2> QED
    BY <1>6, <2>2, <2>3 DEF Rule, Positive
<1> QED
  BY <1>2, <1>3, <1>4, <1>5, <1>6 DEF Fields

(* Listing an id under a source keeps what is listed, and lists the id. *)
LEMMA ListUnderLists ==
  ASSUME NEW index \in [Keys -> [Ids -> Nat]], NEW s \in EverySource, NEW id \in Ids
  PROVE  /\ ListUnder(index, s, id) \in [Keys -> [Ids -> Nat]]
         /\ \A k \in Keys, x \in Ids : index[k][x] > 0 => ListUnder(index, s, id)[k][x] > 0
         /\ \E k \in Keys : ListUnder(index, s, id)[k][id] > 0
<1>1. Key(s) \in Keys
  BY DEF Key, Keys, EverySource
<1> QED
  BY <1>1 DEF ListUnder

(* Unlisting an id touches no other id. *)
LEMMA UnlistUnderUnlists ==
  ASSUME NEW index \in [Keys -> [Ids -> Nat]], NEW s \in EverySource, NEW id \in Ids
  PROVE  /\ UnlistUnder(index, s, id) \in [Keys -> [Ids -> Nat]]
         /\ \A k \in Keys, x \in Ids : x # id => UnlistUnder(index, s, id)[k][x] = index[k][x]
<1>1. Key(s) \in Keys
  BY DEF Key, Keys, EverySource
<1> QED
  BY <1>1 DEF UnlistUnder, Unlist

(* When one request moves and stored rules stay, the others are as before. *)
LEMMA RequestMoves ==
  ASSUME IndInv, NEW q \in Requests, NEW r, req' = [req EXCEPT ![q] = r],
         DOMAIN obj \subseteq DOMAIN obj', rules \subseteq rules',
         ReqOK(r, DOMAIN obj', rules'),
         r.op = "reindex" => req[q].op = "reindex" \/ Unlocked
  PROVE  /\ RequestsOK' /\ OneInside'
         /\ req'[q] = r /\ \A p \in Requests : p # q => req'[p] = req[p]
<1>1. /\ DOMAIN req' = Requests /\ req'[q] = r
      /\ \A p \in Requests : p # q => req'[p] = req[p]
  BY DEF IndInv, RequestsOK
<1>2. \A p \in Requests : ReqOK(req'[p], DOMAIN obj', rules')
  <2> TAKE p \in Requests
  <2>1. CASE p = q
    BY <1>1, <2>1
  <2>2. CASE p # q
    <3>1. ReqOK(req[p], DOMAIN obj, rules)
      BY DEF IndInv, RequestsOK
    <3>2. ReqOK(req[p], DOMAIN obj', rules')
      BY <3>1, RequestKept
    <3> QED
      BY <1>1, <2>2, <3>2
  <2> QED
    BY <2>1, <2>2
<1>3. OneInside'
  BY <1>1 DEF IndInv, OneInside, Unlocked
<1> QED
  BY <1>1, <1>2, <1>3 DEF RequestsOK

-----------------------------------------------------------------------------
(* Steps of a creation. *)

LEMMA ListNamesStep ==
  ASSUME IndInv, NEW q \in Requests, ListNames(q)
  PROVE  IndInv'
<1> PICK id \in Ids, d \in Drafts :
      /\ Fresh(id) /\ Valid(d)
      /\ req' = [req EXCEPT ![q] =
           [op |-> "create", id |-> id, rule |-> d, todo |-> Namesakes(d)]]
  BY DEF ListNames
<1> DEFINE r == [op |-> "create", id |-> id, rule |-> d, todo |-> rules]
<1>1. UNCHANGED <<rules, obj, sourceIndex, rivals>> /\ req[q] = Idle
  BY DEF ListNames
<1>2. req' = [req EXCEPT ![q] = r]
  BY DEF Namesakes
<1>3. r \in Creating /\ r.op = "create" /\ r.todo = rules /\ r.rule = d
  BY RuleAssumption DEF Creating, IndInv, ObjectsOK
<1>4. ReqOK(r, DOMAIN obj', rules')
  BY <1>1, <1>3 DEF ReqOK, IndInv, ObjectsOK
<1> HIDE DEF r
<1>5. /\ RequestsOK' /\ OneInside'
      /\ req'[q] = r /\ \A p \in Requests : p # q => req'[p] = req[p]
  BY <1>1, <1>2, <1>3, <1>4, RequestMoves
<1>6. ObjectsOK' /\ IndexType' /\ RivalsType'
  BY <1>1 DEF IndInv, ObjectsOK, IndexType, RivalsType
<1>7. \A x \in rules' : Listed(x)'
  BY <1>1, <1>5 DEF IndInv, Listed, Appending, Idle
<1>8. \A p \in Requests : Compared(p)'
  BY <1>1, <1>3, <1>5 DEF IndInv, Compared
<1> QED
  BY <1>5, <1>6, <1>7, <1>8 DEF IndInv

LEMMA CompareNameStep ==
  ASSUME IndInv, NEW q \in Requests, CompareName(q)
  PROVE  IndInv'
<1> PICK id \in req[q].todo :
      \/ /\ obj[id].name # req[q].rule.name
         /\ req' = [req EXCEPT ![q].todo = @ \ {id}]
         /\ UNCHANGED rivals
      \/ /\ obj[id].name = req[q].rule.name
         /\ req' = [req EXCEPT ![q] = Idle]
         /\ rivals' = [rivals EXCEPT ![q] = {}]
  BY DEF CompareName
<1>1. UNCHANGED <<rules, obj, sourceIndex>> /\ req[q].op = "create"
  BY DEF CompareName
<1>2. req[q] \in Creating /\ Valid(req[q].rule) /\ req[q].todo \subseteq DOMAIN obj
  BY <1>1, RequestShape DEF IndInv, RequestsOK
<1>3. ObjectsOK' /\ IndexType' /\ RivalsType'
  BY <1>1 DEF IndInv, ObjectsOK, IndexType, RivalsType
<1>4. CASE /\ obj[id].name # req[q].rule.name
           /\ req' = [req EXCEPT ![q].todo = @ \ {id}]
           /\ UNCHANGED rivals
  <2> DEFINE r == [req[q] EXCEPT !.todo = @ \ {id}]
  <2>1. req' = [req EXCEPT ![q] = r]
    BY <1>4
  <2>2. /\ r \in Creating /\ r.op = "create" /\ r.rule = req[q].rule
        /\ r.todo = req[q].todo \ {id}
    BY <1>2 DEF Creating
  <2>3. ReqOK(r, DOMAIN obj', rules')
    BY <1>1, <1>2, <2>2 DEF ReqOK
  <2> HIDE DEF r
  <2>4. /\ RequestsOK' /\ OneInside'
        /\ req'[q] = r /\ \A p \in Requests : p # q => req'[p] = req[p]
    BY <1>1, <2>1, <2>2, <2>3, RequestMoves
  <2>5. \A x \in rules' : Listed(x)'
    BY <1>1, <2>4 DEF IndInv, Listed, Appending
  <2>6. \A p \in Requests : Compared(p)'
    BY <1>1, <1>4, <2>2, <2>4 DEF IndInv, Compared
  <2> QED
    BY <1>3, <2>4, <2>5, <2>6 DEF IndInv
<1>5. CASE /\ obj[id].name = req[q].rule.name
           /\ req' = [req EXCEPT ![q] = Idle]
           /\ rivals' = [rivals EXCEPT ![q] = {}]
  <2>1. ReqOK(Idle, DOMAIN obj', rules') /\ Idle.op = "idle"
    BY DEF ReqOK, Idle
  <2>2. /\ RequestsOK' /\ OneInside'
        /\ req'[q] = Idle /\ \A p \in Requests : p # q => req'[p] = req[p]
    BY <1>1, <1>5, <2>1, RequestMoves
  <2>3. \A x \in rules' : Listed(x)'
    BY <1>1, <2>2 DEF IndInv, Listed, Appending
  <2>4. \A p \in Requests : Compared(p)'
    BY <1>1, <1>5, <2>1, <2>2 DEF IndInv, RivalsType, Compared
  <2> QED
    BY <1>3, <2>2, <2>3, <2>4 DEF IndInv
<1> QED
  BY <1>4, <1>5

LEMMA CreateStep ==
  ASSUME IndInv, NEW q \in Requests, Create(q)
  PROVE  IndInv'
<1> DEFINE id == req[q].id
           d == req[q].rule
<1>1. /\ req[q].op = "create" /\ req[q].todo = {} /\ Unlocked
      /\ rules' = rules \cup {id}
      /\ obj' = [x \in DOMAIN obj \cup {id} |-> IF x = id THEN d ELSE obj[x]]
      /\ sourceIndex' = ListUnder(sourceIndex, d.source, id)
      /\ rivals' = [Rivalled(id) EXCEPT ![q] = {}]
      /\ req' = [req EXCEPT ![q] = Idle]
  BY DEF Create
<1>2. req[q] \in Creating /\ Valid(d)
  BY <1>1, RequestShape DEF IndInv, RequestsOK
<1>3. id \in Ids /\ d \in Rule /\ Positive(d) /\ d.source \in EverySource
  BY <1>2 DEF Creating, Valid, Positive, Rule
<1> HIDE DEF id, d
<1>4. /\ DOMAIN obj' = DOMAIN obj \cup {id} /\ obj'[id] = d
      /\ \A x \in DOMAIN obj : x # id => obj'[x] = obj[x]
  BY <1>1
<1>5. ObjectsOK'
  BY <1>1, <1>3, <1>4 DEF IndInv, ObjectsOK
<1>6. ReqOK(Idle, DOMAIN obj', rules') /\ Idle.op = "idle"
  BY DEF ReqOK, Idle
<1>7. /\ RequestsOK' /\ OneInside'
      /\ req'[q] = Idle /\ \A p \in Requests : p # q => req'[p] = req[p]
  BY <1>1, <1>4, <1>6, RequestMoves
<1>8. /\ IndexType' /\ \E k \in Keys : sourceIndex'[k][id] > 0
      /\ \A k \in Keys, x \in Ids : sourceIndex[k][x] > 0 => sourceIndex'[k][x] > 0
  BY <1>1, <1>3, ListUnderLists DEF IndInv, IndexType
<1>9. RivalsType'
  BY <1>1, <1>3 DEF IndInv, RivalsType, Rivalled
<1>10. \A x \in rules' : Listed(x)'
  <2> TAKE x \in rules'
  <2>1. CASE x = id
    BY <1>8, <2>1 DEF Listed
  <2>2. CASE x # id
    <3>1. x \in rules /\ x \in Ids
      BY <1>1, <2>2 DEF IndInv, ObjectsOK
    <3>2. Listed(x)
      BY <3>1 DEF IndInv
    <3>3. \E k \in Keys : sourceIndex[k][x] > 0
      BY <1>1, <3>2 DEF Listed, Appending, Unlocked
    <3> QED
      BY <1>8, <3>1, <3>3 DEF Listed
  <2> QED
    BY <2>1, <2>2
<1>11. \A p \in Requests : Compared(p)'
  <2> SUFFICES ASSUME NEW p \in Requests, req'[p].op = "create",
                      NEW x \in rules', x \notin req'[p].todo \cup rivals'[p]
               PROVE  obj'[x].name # req'[p].rule.name
    BY DEF Compared
  <2>1. p # q /\ req'[p] = req[p]
    BY <1>6, <1>7
  <2>2. rivals'[p] = rivals[p] \cup {id}
    BY <1>1, <2>1 DEF IndInv, RivalsType, Rivalled
  <2>3. x # id /\ x \in rules /\ obj'[x] = obj[x]
    BY <1>1, <1>4, <2>2 DEF IndInv, ObjectsOK
  <2>4. Compared(p)
    BY DEF IndInv
  <2> QED
    BY <2>1, <2>2, <2>3, <2>4 DEF Compared
<1> QED
  BY <1>5, <1>7, <1>8, <1>9, <1>10, <1>11 DEF IndInv

-----------------------------------------------------------------------------
(* Steps of an update. *)

LEMMA GetByIDStep ==
  ASSUME IndInv, NEW q \in Requests, GetByID(q)
  PROVE  IndInv'
<1> PICK id \in rules, b \in Patches :
      req' = [req EXCEPT ![q] = [op |-> "update", id |-> id, patch |-> b,
                                 left |-> {f \in Fields : Given(b, f)}]]
  BY DEF GetByID
<1> DEFINE r == [op |-> "update", id |-> id, patch |-> b,
                 left |-> {f \in Fields : Given(b, f)}]
<1>1. UNCHANGED <<rules, obj, sourceIndex, rivals>> /\ req[q] = Idle
  BY DEF GetByID
<1>2. r \in Updating /\ r.op = "update" /\ r.id = id /\ \A f \in r.left : Given(r.patch, f)
  BY RuleAssumption DEF Updating, IndInv, ObjectsOK
<1>3. ReqOK(r, DOMAIN obj', rules')
  BY <1>1, <1>2 DEF ReqOK, IndInv, ObjectsOK
<1>4. req' = [req EXCEPT ![q] = r]
  OBVIOUS
<1> HIDE DEF r
<1>5. /\ RequestsOK' /\ OneInside'
      /\ req'[q] = r /\ \A p \in Requests : p # q => req'[p] = req[p]
  BY <1>1, <1>2, <1>3, <1>4, RequestMoves
<1>6. ObjectsOK' /\ IndexType' /\ RivalsType'
  BY <1>1 DEF IndInv, ObjectsOK, IndexType, RivalsType
<1>7. \A x \in rules' : Listed(x)'
  BY <1>1, <1>5 DEF IndInv, Listed, Appending, Idle
<1>8. \A p \in Requests : Compared(p)'
  BY <1>1, <1>2, <1>5 DEF IndInv, Compared
<1> QED
  BY <1>5, <1>6, <1>7, <1>8 DEF IndInv

LEMMA WriteFieldStep ==
  ASSUME IndInv, NEW q \in Requests, WriteField(q)
  PROVE  IndInv'
<1> PICK f \in req[q].left :
      /\ obj' = [obj EXCEPT ![req[q].id] = Written(@, req[q].patch, f)]
      /\ rivals' = IF f = "name" THEN Rivalled(req[q].id) ELSE rivals
      /\ req' = [req EXCEPT ![q].left = @ \ {f}]
  BY DEF WriteField
<1> DEFINE id == req[q].id
           b == req[q].patch
           r == [req[q] EXCEPT !.left = @ \ {f}]
           new == Written(obj[id], b, f)
<1>1. UNCHANGED <<rules, sourceIndex>> /\ req[q].op = "update"
  BY DEF WriteField
<1>2. req[q] \in Updating /\ id \in DOMAIN obj /\ \A g \in req[q].left : Given(b, g)
  BY <1>1, RequestShape DEF IndInv, RequestsOK
<1>3. b \in Patch /\ f \in Fields /\ Given(b, f)
  BY <1>2 DEF Updating
<1>4. obj[id] \in Rule /\ Positive(obj[id]) /\ id \in Ids
  BY <1>2 DEF IndInv, ObjectsOK
<1>5. new \in Rule /\ Positive(new) /\ (f # "name" => new.name = obj[id].name)
  BY <1>3, <1>4, WriteKeepsPositive
<1>6. obj' = [obj EXCEPT ![id] = new] /\ req' = [req EXCEPT ![q] = r]
  OBVIOUS
<1>7. r \in Updating /\ r.op = "update" /\ r.id = id /\ \A g \in r.left : Given(r.patch, g)
  BY <1>2 DEF Updating
<1>8. rivals' = IF f = "name" THEN Rivalled(id) ELSE rivals
  OBVIOUS
<1> HIDE DEF id, b, r, new
<1>9. /\ DOMAIN obj' = DOMAIN obj /\ obj'[id] = new
      /\ \A x \in DOMAIN obj : x # id => obj'[x] = obj[x]
  BY <1>2, <1>6
<1>10. ReqOK(r, DOMAIN obj', rules')
  BY <1>2, <1>7, <1>9 DEF ReqOK
<1>11. /\ RequestsOK' /\ OneInside'
       /\ req'[q] = r /\ \A p \in Requests : p # q => req'[p] = req[p]
  BY <1>1, <1>6, <1>7, <1>9, <1>10, RequestMoves
<1>12. ObjectsOK'
  BY <1>1, <1>5, <1>9 DEF IndInv, ObjectsOK
<1>13. IndexType'
  BY <1>1 DEF IndInv, IndexType
<1>14. RivalsType'
  BY <1>4, <1>8 DEF IndInv, RivalsType, Rivalled
<1>15. \A x \in rules' : Listed(x)'
  BY <1>1, <1>11 DEF IndInv, Listed, Appending
<1>16. \A p \in Requests : Compared(p)'
  <2> SUFFICES ASSUME NEW p \in Requests, req'[p].op = "create",
                      NEW x \in rules', x \notin req'[p].todo \cup rivals'[p]
               PROVE  obj'[x].name # req'[p].rule.name
    BY DEF Compared
  <2>1. p # q /\ req'[p] = req[p]
    BY <1>7, <1>11
  <2>2. rivals[p] \subseteq rivals'[p] /\ (f = "name" => id \in rivals'[p])
    BY <1>8, <2>1 DEF IndInv, RivalsType, Rivalled
  <2>3. x \in rules /\ x \in DOMAIN obj /\ obj'[x].name = obj[x].name
    BY <1>1, <1>5, <1>9, <2>2 DEF IndInv, ObjectsOK
  <2>4. Compared(p)
    BY DEF IndInv
  <2> QED
    BY <2>1, <2>2, <2>3, <2>4 DEF Compared
<1> QED
  BY <1>11, <1>12, <1>13, <1>14, <1>15, <1>16 DEF IndInv

(* A request that goes from one step of an update to another and changes    *)
(* nothing else.                                                            *)
LEMMA UpdateMoves ==
  ASSUME IndInv, NEW q \in Requests, NEW r, req' = [req EXCEPT ![q] = r],
         UNCHANGED <<rules, obj, sourceIndex, rivals>>,
         req[q].op \in {"update", "save", "reindex"},
         \A id : ~Appending(q, id),
         ReqOK(r, DOMAIN obj, rules), r.op # "create",
         r.op = "reindex" => req[q].op = "reindex" \/ Unlocked
  PROVE  IndInv'
<1>1. /\ RequestsOK' /\ OneInside'
      /\ req'[q] = r /\ \A p \in Requests : p # q => req'[p] = req[p]
  BY RequestMoves
<1>2. ObjectsOK' /\ IndexType' /\ RivalsType'
  BY DEF IndInv, ObjectsOK, IndexType, RivalsType
<1>3. \A x \in rules' : Listed(x)'
  <2> TAKE x \in rules'
  <2>1. Listed(x)
    BY DEF IndInv
  <2>2. CASE \E k \in Keys : sourceIndex[k][x] > 0
    BY <2>2 DEF Listed
  <2>3. CASE \E p \in Requests : Appending(p, x)
    <3>1. PICK p \in Requests : Appending(p, x)
      BY <2>3
    <3>2. p # q
      BY <3>1
    <3> QED
      BY <1>1, <3>1, <3>2 DEF Listed, Appending
  <2> QED
    BY <2>1, <2>2, <2>3 DEF Listed
<1>4. \A p \in Requests : Compared(p)'
  BY <1>1 DEF IndInv, Compared
<1> QED
  BY <1>1, <1>2, <1>3, <1>4 DEF IndInv

LEMMA ValidateStep ==
  ASSUME IndInv, NEW q \in Requests, Validate(q)
  PROVE  IndInv'
<1> DEFINE r == IF Valid(obj[req[q].id]) THEN [op |-> "save", id |-> req[q].id] ELSE Idle
<1>1. /\ UNCHANGED <<rules, obj, sourceIndex, rivals>> /\ req[q].op = "update"
      /\ req' = [req EXCEPT ![q] = r]
  BY DEF Validate
<1>2. req[q].id \in DOMAIN obj /\ req[q].id \in Ids
  BY <1>1, RequestShape DEF IndInv, RequestsOK, ObjectsOK
<1>3. ReqOK(r, DOMAIN obj, rules) /\ r.op \in {"save", "idle"}
  BY <1>2 DEF ReqOK, Saving, Idle
<1> HIDE DEF r
<1> QED
  BY <1>1, <1>3, UpdateMoves DEF Appending

LEMMA UpdateStep ==
  ASSUME IndInv, NEW q \in Requests, Update(q)
  PROVE  IndInv'
<1> DEFINE id == req[q].id
           into == [op |-> "reindex", id |-> id, seen |-> obj[id].source, step |-> "compare"]
           r == IF StillStored(id) THEN into ELSE Idle
<1>1. /\ UNCHANGED <<rules, obj, sourceIndex, rivals>> /\ req[q].op = "save" /\ Unlocked
      /\ req' = [req EXCEPT ![q] = r]
  BY DEF Update
<1>2. id \in DOMAIN obj /\ id \in Ids /\ obj[id] \in Rule
  BY <1>1, RequestShape DEF IndInv, RequestsOK, ObjectsOK
<1>3. into \in Reindexing /\ into.op = "reindex" /\ into.id = id
  BY <1>2 DEF Reindexing, Rule
<1>4. Idle.op = "idle"
  BY DEF Idle
<1>5. ReqOK(r, DOMAIN obj, rules) /\ r.op \in {"reindex", "idle"}
  BY <1>3, <1>4 DEF ReqOK, StillStored
<1> HIDE DEF r
<1> QED
  BY <1>1, <1>5, UpdateMoves DEF Appending

LEMMA CompareSourceStep ==
  ASSUME IndInv, NEW q \in Requests, CompareSource(q)
  PROVE  IndInv'
<1>1. req[q].op = "reindex" /\ req[q].step = "compare"
  BY DEF CompareSource
<1>2. req[q] \in Reindexing /\ req[q].id \in rules
  BY <1>1, RequestShape DEF IndInv, RequestsOK
<1>3. UNCHANGED <<rules, obj, sourceIndex, rivals>>
  BY <1>2 DEF CompareSource
<1>4. CASE req' = [req EXCEPT ![q] = Idle]
  <2>1. ReqOK(Idle, DOMAIN obj, rules) /\ Idle.op = "idle"
    BY DEF ReqOK, Idle
  <2> QED
    BY <1>1, <1>3, <1>4, <2>1, UpdateMoves DEF Appending
<1>5. CASE req' = [req EXCEPT ![q].step = "remove"]
  <2> DEFINE r == [req[q] EXCEPT !.step = "remove"]
  <2>1. r \in Reindexing /\ r.op = "reindex" /\ r.id = req[q].id
    BY <1>2 DEF Reindexing
  <2>2. ReqOK(r, DOMAIN obj, rules)
    BY <1>2, <2>1 DEF ReqOK
  <2>3. req' = [req EXCEPT ![q] = r]
    BY <1>5
  <2> HIDE DEF r
  <2> QED
    BY <1>1, <1>3, <2>1, <2>2, <2>3, UpdateMoves DEF Appending
<1> QED
  BY <1>4, <1>5 DEF CompareSource

LEMMA RemoveOldSourceStep ==
  ASSUME IndInv, NEW q \in Requests, RemoveOldSource(q)
  PROVE  IndInv'
<1> DEFINE id == req[q].id
           r == [req[q] EXCEPT !.step = "append"]
<1>1. /\ req[q].op = "reindex" /\ req[q].step = "remove"
      /\ sourceIndex' = UnlistUnder(sourceIndex, obj[id].source, id)
      /\ req' = [req EXCEPT ![q] = r]
      /\ UNCHANGED <<rules, obj, rivals>>
  BY DEF RemoveOldSource
<1>2. req[q] \in Reindexing /\ id \in rules
  BY <1>1, RequestShape DEF IndInv, RequestsOK
<1>3. id \in Ids /\ obj[id].source \in EverySource
  BY <1>2 DEF IndInv, ObjectsOK, Rule
<1>4. r \in Reindexing /\ r.op = "reindex" /\ r.id = id /\ r.step = "append"
  BY <1>2 DEF Reindexing
<1>5. ReqOK(r, DOMAIN obj', rules')
  BY <1>1, <1>2, <1>4 DEF ReqOK
<1> HIDE DEF id, r
<1>6. /\ RequestsOK' /\ OneInside'
      /\ req'[q] = r /\ \A p \in Requests : p # q => req'[p] = req[p]
  BY <1>1, <1>5, RequestMoves
<1>7. /\ IndexType'
      /\ \A k \in Keys, x \in Ids : x # id => sourceIndex'[k][x] = sourceIndex[k][x]
  BY <1>1, <1>3, UnlistUnderUnlists DEF IndInv, IndexType
<1>8. ObjectsOK' /\ RivalsType'
  BY <1>1 DEF IndInv, ObjectsOK, RivalsType
<1>9. \A x \in rules' : Listed(x)'
  <2> TAKE x \in rules'
  <2>1. CASE x = id
    BY <1>4, <1>6, <2>1 DEF Listed, Appending
  <2>2. CASE x # id
    <3>1. x \in rules /\ x \in Ids /\ Listed(x)
      BY <1>1 DEF IndInv, ObjectsOK
    <3>2. CASE \E k \in Keys : sourceIndex[k][x] > 0
      BY <1>7, <2>2, <3>1, <3>2 DEF Listed
    <3>3. CASE \E p \in Requests : Appending(p, x)
      BY <1>1, <1>6, <3>3 DEF Listed, Appending
    <3> QED
      BY <3>1, <3>2, <3>3 DEF Listed
  <2> QED
    BY <2>1, <2>2
<1>10. \A p \in Requests : Compared(p)'
  BY <1>1, <1>4, <1>6 DEF IndInv, Compared
<1> QED
  BY <1>6, <1>7, <1>8, <1>9, <1>10 DEF IndInv

LEMMA AppendNewSourceStep ==
  ASSUME IndInv, NEW q \in Requests, AppendNewSource(q)
  PROVE  IndInv' /\ rules' = rules
<1> DEFINE id == req[q].id
<1>1. /\ req[q].op = "reindex" /\ req[q].step = "append"
      /\ sourceIndex' = ListUnder(sourceIndex, obj[id].source, id)
      /\ rules' = rules \cup {id}
      /\ req' = [req EXCEPT ![q] = Idle]
      /\ UNCHANGED <<obj, rivals>>
  BY DEF AppendNewSource
<1>2. id \in rules
  BY <1>1, RequestShape DEF IndInv, RequestsOK
<1>3. id \in Ids /\ obj[id].source \in EverySource /\ rules' = rules
  BY <1>1, <1>2 DEF IndInv, ObjectsOK, Rule
<1>4. ReqOK(Idle, DOMAIN obj', rules') /\ Idle.op = "idle"
  BY DEF ReqOK, Idle
<1>5. /\ RequestsOK' /\ OneInside'
      /\ req'[q] = Idle /\ \A p \in Requests : p # q => req'[p] = req[p]
  BY <1>1, <1>3, <1>4, RequestMoves
<1>6. /\ IndexType' /\ \E k \in Keys : sourceIndex'[k][id] > 0
      /\ \A k \in Keys, x \in Ids : sourceIndex[k][x] > 0 => sourceIndex'[k][x] > 0
  BY <1>1, <1>3, ListUnderLists DEF IndInv, IndexType
<1>7. ObjectsOK' /\ RivalsType'
  BY <1>1, <1>3 DEF IndInv, ObjectsOK, RivalsType
<1>8. \A x \in rules' : Listed(x)'
  <2> TAKE x \in rules'
  <2>1. CASE x = id
    BY <1>6, <2>1 DEF Listed
  <2>2. CASE x # id
    <3>1. x \in rules /\ x \in Ids /\ Listed(x)
      BY <1>3 DEF IndInv, ObjectsOK
    <3>2. CASE \E k \in Keys : sourceIndex[k][x] > 0
      BY <1>6, <3>1, <3>2 DEF Listed
    <3>3. CASE \E p \in Requests : Appending(p, x)
      <4>1. PICK p \in Requests : Appending(p, x)
        BY <3>3
      <4>2. p # q
        BY <2>2, <4>1 DEF Appending
      <4> QED
        BY <1>5, <4>1, <4>2 DEF Listed, Appending
    <3> QED
      BY <3>1, <3>2, <3>3 DEF Listed
  <2> QED
    BY <2>1, <2>2
<1>9. \A p \in Requests : Compared(p)'
  BY <1>1, <1>3, <1>4, <1>5 DEF IndInv, Compared
<1> QED
  BY <1>3, <1>5, <1>6, <1>7, <1>8, <1>9 DEF IndInv

-----------------------------------------------------------------------------
(* Operations in one critical section. *)

LEMMA DeleteStep ==
  ASSUME IndInv, NEW id \in Ids, Delete(id)
  PROVE  IndInv'
<1>1. /\ Unlocked /\ id \in rules
      /\ sourceIndex' = UnlistUnder(sourceIndex, obj[id].source, id)
      /\ rules' = rules \ {id}
      /\ UNCHANGED <<obj, req, rivals>>
  BY DEF Delete
<1>2. obj[id].source \in EverySource
  BY <1>1 DEF IndInv, ObjectsOK, Rule
<1>3. /\ IndexType'
      /\ \A k \in Keys, x \in Ids : x # id => sourceIndex'[k][x] = sourceIndex[k][x]
  BY <1>1, <1>2, UnlistUnderUnlists DEF IndInv, IndexType
<1>4. ObjectsOK' /\ RivalsType' /\ OneInside'
  BY <1>1 DEF IndInv, ObjectsOK, RivalsType, OneInside
<1>5. RequestsOK'
  <2>1. \A q \in Requests : ReqOK(req[q], DOMAIN obj, rules')
    BY <1>1, RequestKept DEF IndInv, RequestsOK, Unlocked
  <2> QED
    BY <1>1, <2>1 DEF IndInv, RequestsOK
<1>6. \A x \in rules' : Listed(x)'
  <2> TAKE x \in rules'
  <2>1. x \in rules /\ x \in Ids /\ x # id /\ Listed(x)
    BY <1>1 DEF IndInv, ObjectsOK
  <2>2. \E k \in Keys : sourceIndex[k][x] > 0
    BY <1>1, <2>1 DEF Listed, Appending, Unlocked
  <2> QED
    BY <1>3, <2>1, <2>2 DEF Listed
<1>7. \A p \in Requests : Compared(p)'
  BY <1>1 DEF IndInv, Compared
<1> QED
  BY <1>3, <1>4, <1>5, <1>6, <1>7 DEF IndInv

LEMMA SetEnabledStep ==
  ASSUME IndInv, NEW id \in Ids, NEW on \in BOOLEAN, SetEnabled(id, on)
  PROVE  IndInv'
<1> DEFINE new == [obj[id] EXCEPT !.enabled = on]
<1>1. /\ id \in rules /\ obj' = [obj EXCEPT ![id] = new]
      /\ UNCHANGED <<rules, sourceIndex, req, rivals>>
  BY DEF SetEnabled
<1>2. id \in DOMAIN obj /\ obj[id] \in Rule /\ Positive(obj[id])
  BY <1>1 DEF IndInv, ObjectsOK
<1>3. new \in Rule /\ Positive(new) /\ new.name = obj[id].name
  BY <1>2 DEF Rule, Positive
<1> HIDE DEF new
<1>4. /\ DOMAIN obj' = DOMAIN obj
      /\ \A x \in DOMAIN obj : obj'[x] = IF x = id THEN new ELSE obj[x]
  BY <1>1, <1>2
<1>5. ObjectsOK' /\ RivalsType' /\ OneInside' /\ IndexType'
  BY <1>1, <1>3, <1>4 DEF IndInv, ObjectsOK, RivalsType, OneInside, IndexType
<1>6. RequestsOK'
  BY <1>1, <1>4 DEF IndInv, RequestsOK
<1>7. \A x \in rules' : Listed(x)'
  BY <1>1 DEF IndInv, Listed, Appending
<1>8. \A p \in Requests : Compared(p)'
  BY <1>1, <1>3, <1>4 DEF IndInv, ObjectsOK, Compared
<1> QED
  BY <1>5, <1>6, <1>7, <1>8 DEF IndInv

-----------------------------------------------------------------------------
LEMMA InitIndInv == Init => IndInv
<1> SUFFICES ASSUME Init PROVE IndInv
  OBVIOUS
<1>1. ObjectsOK /\ IndexType /\ RivalsType
  BY DEF Init, ObjectsOK, IndexType, RivalsType
<1>2. RequestsOK /\ OneInside
  BY DEF Init, RequestsOK, ReqOK, OneInside, Idle
<1>3. (\A id \in rules : Listed(id)) /\ \A q \in Requests : Compared(q)
  BY DEF Init, Compared
<1> QED
  BY <1>1, <1>2, <1>3 DEF IndInv

(* Every step keeps the invariant. *)
LEMMA NextIndInv == IndInv /\ [Next]_rvars => IndInv'
<1> SUFFICES ASSUME IndInv, [Next]_rvars PROVE IndInv'
  OBVIOUS
<1>1. ASSUME NEW q \in Requests, ListNames(q) \/ CompareName(q) \/ Create(q) PROVE IndInv'
  BY <1>1, ListNamesStep, CompareNameStep, CreateStep
<1>2. ASSUME NEW q \in Requests, GetByID(q) \/ WriteField(q) \/ Validate(q) \/ Update(q)
      PROVE  IndInv'
  BY <1>2, GetByIDStep, WriteFieldStep, ValidateStep, UpdateStep
<1>3. ASSUME NEW q \in Requests,
             CompareSource(q) \/ RemoveOldSource(q) \/ AppendNewSource(q)
      PROVE  IndInv'
  BY <1>3, CompareSourceStep, RemoveOldSourceStep, AppendNewSourceStep
<1>4. ASSUME NEW id \in Ids, Delete(id) \/ Enable(id) \/ Disable(id) PROVE IndInv'
  BY <1>4, DeleteStep, SetEnabledStep DEF Enable, Disable
<1>5. CASE UNCHANGED rvars
  <2>1. ObjectsOK' /\ IndexType' /\ RivalsType'
    BY <1>5 DEF rvars, IndInv, ObjectsOK, IndexType, RivalsType
  <2>2. RequestsOK' /\ OneInside'
    BY <1>5 DEF rvars, IndInv, RequestsOK, OneInside
  <2>3. (\A id \in rules' : Listed(id)') /\ \A q \in Requests : Compared(q)'
    BY <1>5 DEF rvars, IndInv, Listed, Appending, Compared
  <2> QED
    BY <2>1, <2>2, <2>3 DEF IndInv
<1> QED
  BY <1>1, <1>2, <1>3, <1>4, <1>5 DEF Next

(* The inductive invariant holds throughout. *)
THEOREM AlwaysIndInv == Spec => []IndInv
BY InitIndInv, NextIndInv, PTL DEF Spec

(* Every variable keeps its type; one request at most is in store.Update.   *)
THEOREM TypeCorrect == Spec => []TypeOK
<1>1. IndInv => TypeOK
  <2> SUFFICES ASSUME IndInv PROVE TypeOK
    OBVIOUS
  <2>1. ASSUME NEW q \in Requests
        PROVE  /\ req[q] \in {Idle} \cup Creating \cup Updating \cup Saving \cup Reindexing
               /\ req[q].op = "create" => req[q].todo \subseteq DOMAIN obj
               /\ req[q].op \in {"update", "save", "reindex"} => req[q].id \in DOMAIN obj
    <3>1. ReqOK(req[q], DOMAIN obj, rules) /\ rules \subseteq DOMAIN obj
      BY DEF IndInv, RequestsOK, ObjectsOK
    <3>2. /\ req[q].op = "create" => req[q].todo \subseteq DOMAIN obj
          /\ req[q].op \in {"update", "save", "reindex"} => req[q].id \in DOMAIN obj
      BY <3>1, RequestShape
    <3> QED
      BY <3>1, <3>2 DEF ReqOK
  <2>2. DOMAIN req = Requests
    BY DEF IndInv, RequestsOK
  <2> QED
    BY <2>1, <2>2 DEF TypeOK, IndInv, ObjectsOK, IndexType, RivalsType, OneInside
<1> QED
  BY <1>1, AlwaysIndInv, PTL

(* Whatever updates are half done or were rejected, a stored rule has a     *)
(* name, a positive window and a positive threshold.                        *)
THEOREM StoredRulesStayPositive == Spec => []RulesStayPositive
<1>1. IndInv => RulesStayPositive
  BY DEF IndInv, ObjectsOK, Positive, RulesStayPositive
<1> QED
  BY <1>1, AlwaysIndInv, PTL

(* No race inside store.Update leaves a stored rule listed nowhere. *)
THEOREM EveryRuleIsListed == Spec => []EveryRuleListed
<1>1. IndInv => EveryRuleListed
  BY DEF IndInv, Listed, Appending, EveryRuleListed, Unlocked
<1> QED
  BY <1>1, AlwaysIndInv, PTL

(* The ids of rules being created are new, and each is for one request. *)
IdsNew ==
  /\ \A q \in Requests : req[q].op = "create" => req[q].id \notin DOMAIN obj
  /\ \A p, q \in Requests :
       req[p].op = "create" /\ req[q].op = "create" /\ req[p].id = req[q].id => p = q

(* Nothing but a listing takes an id, and nothing but Create uses one. *)
LEMMA IdsStayNew == IndInv /\ IdsNew /\ [Next]_rvars => IdsNew'
<1> SUFFICES ASSUME IndInv, IdsNew, [Next]_rvars PROVE IdsNew'
  OBVIOUS
<1>1. DOMAIN req = Requests
  BY DEF IndInv, RequestsOK
<1>2. ASSUME \A p \in Requests : req'[p].op = "create" =>
                 req[p].op = "create" /\ req'[p].id = req[p].id,
             DOMAIN obj' = DOMAIN obj
      PROVE  IdsNew'
  BY <1>2 DEF IdsNew
<1>3. ASSUME NEW q \in Requests, ListNames(q) PROVE IdsNew'
  <2> PICK id \in Ids, d \in Drafts :
        /\ Fresh(id)
        /\ req' = [req EXCEPT ![q] =
             [op |-> "create", id |-> id, rule |-> d, todo |-> Namesakes(d)]]
    BY <1>3 DEF ListNames
  <2>1. obj' = obj /\ req'[q].id = id /\ \A p \in Requests : p # q => req'[p] = req[p]
    BY <1>1, <1>3 DEF ListNames
  <2> QED
    BY <2>1 DEF IdsNew, Fresh
<1>4. ASSUME NEW q \in Requests, CompareName(q) PROVE IdsNew'
  <2>1. req[q] \in Creating /\ req[q].op = "create" /\ obj' = obj
    BY <1>4, RequestShape DEF IndInv, RequestsOK, CompareName
  <2>2. PICK x : req' = [req EXCEPT ![q].todo = @ \ {x}] \/ req' = [req EXCEPT ![q] = Idle]
    BY <1>4 DEF CompareName
  <2>3. CASE req' = [req EXCEPT ![q].todo = @ \ {x}]
    <3>1. req'[q].id = req[q].id
      BY <1>1, <2>1, <2>3 DEF Creating
    <3>2. \A p \in Requests : p # q => req'[p] = req[p]
      BY <1>1, <2>3
    <3> QED
      BY <1>2, <2>1, <3>1, <3>2
  <2>4. CASE req' = [req EXCEPT ![q] = Idle]
    BY <1>1, <1>2, <2>1, <2>4 DEF Idle
  <2> QED
    BY <2>2, <2>3, <2>4
<1>5. ASSUME NEW q \in Requests, Create(q) PROVE IdsNew'
  <2>1. /\ req' = [req EXCEPT ![q] = Idle] /\ req[q].op = "create"
        /\ DOMAIN obj' = DOMAIN obj \cup {req[q].id}
    BY <1>5 DEF Create
  <2>2. \A p \in Requests : req'[p].op = "create" => p # q /\ req'[p] = req[p]
    BY <1>1, <2>1 DEF Idle
  <2> QED
    BY <2>1, <2>2 DEF IdsNew
<1>6. ASSUME NEW q \in Requests, GetByID(q) PROVE IdsNew'
  BY <1>1, <1>2, <1>6 DEF GetByID
<1>7. ASSUME NEW q \in Requests, WriteField(q) PROVE IdsNew'
  <2>1. req[q] \in Updating /\ req[q].op = "update"
    BY <1>7, RequestShape DEF IndInv, RequestsOK, WriteField
  <2>2. PICK f : req' = [req EXCEPT ![q].left = @ \ {f}]
    BY <1>7 DEF WriteField
  <2>3. req'[q].op = "update" /\ DOMAIN obj' = DOMAIN obj
    BY <1>1, <1>7, <2>1, <2>2 DEF Updating, WriteField
  <2>4. \A p \in Requests : p # q => req'[p] = req[p]
    BY <1>1, <2>2
  <2> QED
    BY <1>2, <2>3, <2>4
<1>8. ASSUME NEW q \in Requests, Validate(q) \/ Update(q) \/ AppendNewSource(q) PROVE IdsNew'
  BY <1>1, <1>2, <1>8 DEF Validate, Update, AppendNewSource, Idle
<1>9. ASSUME NEW q \in Requests, CompareSource(q) \/ RemoveOldSource(q) PROVE IdsNew'
  <2>1. req[q] \in Reindexing /\ obj' = obj
    BY <1>9, RequestShape DEF IndInv, RequestsOK, CompareSource, RemoveOldSource
  <2>2. PICK s : req' = [req EXCEPT ![q].step = s] \/ req' = [req EXCEPT ![q] = Idle]
    BY <1>9 DEF CompareSource, RemoveOldSource
  <2>3. req'[q].op # "create" /\ \A p \in Requests : p # q => req'[p] = req[p]
    BY <1>1, <2>1, <2>2 DEF Reindexing, Idle
  <2> QED
    BY <1>2, <2>1, <2>3
<1>10. ASSUME NEW id \in Ids, Delete(id) \/ Enable(id) \/ Disable(id) PROVE IdsNew'
  BY <1>2, <1>10 DEF Delete, Enable, Disable, SetEnabled
<1>11. CASE UNCHANGED rvars
  BY <1>2, <1>11 DEF rvars
<1> QED
  BY <1>3, <1>4, <1>5, <1>6, <1>7, <1>8, <1>9, <1>10, <1>11 DEF Next

(* A deleted rule does not come back. *)
THEOREM DeletedStaysDeleted == Spec => NoResurrection
<1>1. IndInv /\ IdsNew /\ [Next]_rvars => [(DOMAIN obj \ rules) \cap rules' = {}]_rvars
  <2> SUFFICES ASSUME IndInv, IdsNew, Next PROVE (DOMAIN obj \ rules) \cap rules' = {}
    OBVIOUS
  <2>1. ASSUME NEW q \in Requests, Create(q) PROVE (DOMAIN obj \ rules) \cap rules' = {}
    BY <2>1 DEF IdsNew, Create
  <2>2. ASSUME NEW q \in Requests, CompareSource(q) PROVE rules' = rules
    <3>1. req[q].id \in rules
      BY <2>2, RequestShape DEF IndInv, RequestsOK, CompareSource
    <3> QED
      BY <2>2, <3>1 DEF CompareSource
  <2>3. ASSUME NEW q \in Requests, AppendNewSource(q) PROVE rules' = rules
    BY <2>3, AppendNewSourceStep
  <2>4. ASSUME NEW q \in Requests,
               \/ ListNames(q) \/ CompareName(q) \/ GetByID(q) \/ WriteField(q)
               \/ Validate(q) \/ Update(q) \/ RemoveOldSource(q)
        PROVE  rules' = rules
    BY <2>4 DEF ListNames, CompareName, GetByID, WriteField, Validate, Update, RemoveOldSource
  <2>5. ASSUME NEW id \in Ids, Delete(id) \/ Enable(id) \/ Disable(id)
        PROVE  rules' \subseteq rules
    BY <2>5 DEF Delete, Enable, Disable, SetEnabled
  <2> QED
    BY <2>1, <2>2, <2>3, <2>4, <2>5 DEF Next
<1> QED
  <2>1. Init => IdsNew
    BY DEF Init, IdsNew, Idle
  <2> QED
    BY <1>1, <2>1, AlwaysIndInv, IdsStayNew, PTL DEF Spec, NoResurrection

(* A rule gets a taken name only if the namesake was created or renamed     *)
(* after the names were listed.                                             *)
THEOREM DuplicatesNeedARival == Spec => DuplicateNeedsRival
<1> DEFINE Checked == \A q \in Requests : Create(q) =>
             \A id \in rules : obj[id].name = req[q].rule.name => id \in rivals[q]
<1>1. IndInv => [Checked]_rvars
  BY DEF IndInv, Compared, Create
<1> QED
  BY <1>1, AlwaysIndInv, PTL DEF DuplicateNeedsRival
=============================================================================
