------------------------------ MODULE RuleService ------------------------------
(***************************************************************************)
(* Alert rules: the in-memory rule store                                   *)
(* (internal/store/memory_rule_store.go) and the rule service in front of  *)
(* it (internal/service/rule_service.go).                                  *)
(*                                                                         *)
(* Every method of the store is one critical section, but the store hands  *)
(* out pointers: a creation compares names, and an update writes fields,   *)
(* in the stored rules with no lock at all.  So a creation is a listing,   *)
(* one comparison per rule and a store.Create; an update is a GetByID, one *)
(* write per field, a validation and a store.Update, whose reads of the    *)
(* source another update may separate.                                     *)
(*                                                                         *)
(* Left out: description, level, priority, tags and timestamps, which are  *)
(* written and validated like the fields kept here.                        *)
(***************************************************************************)
EXTENDS Integers

CONSTANTS
  Ids,        \* identifiers GenerateID can return
  Requests,   \* requests that run at the same time
  Names,      \* non-empty rule names
  Sources,    \* log sources, neither "" nor "*"
  Windows, Thresholds,  \* integers a request may carry
  MaxWindow,  \* the 1440 minutes of AlertRule.Validate
  Drafts,     \* the rules that requests create
  Patches     \* the bodies of updates

EveryName == Names \cup {""}
EverySource == Sources \cup {"", "*"}
Keys == Sources \cup {"*"}   \* keys of sourceIndex; nothing writes key ""

Rule == [name : EveryName, source : EverySource, window : Windows,
         threshold : Thresholds, enabled : BOOLEAN]

(* A zero value is a field the body omits; Enabled is a pointer, {} is nil. *)
Patch == [name : EveryName, source : EverySource, window : Windows,
          threshold : Thresholds, enabled : SUBSET BOOLEAN]

ASSUME RuleAssumption ==
  /\ "" \notin Names /\ Sources \cap {"", "*"} = {}
  /\ Windows \subseteq Int /\ Thresholds \subseteq Int /\ MaxWindow \in Nat
  /\ Drafts \subseteq Rule /\ Patches \subseteq Patch

VARIABLES
  rules,        \* the ids stored in MemoryRuleStore.rules
  obj,          \* the rule each pointer ever stored points to
  sourceIndex,  \* how often each key lists each id
  req,          \* where each request is
  rivals        \* history: rules created or renamed since a creation listed names
rvars == <<rules, obj, sourceIndex, req, rivals>>

Idle == [op |-> "idle"]
Creating == [op : {"create"}, id : Ids, rule : Rule, todo : SUBSET Ids]
Fields == {"name", "source", "window", "threshold", "enabled"}
Order == [name |-> 1, source |-> 2, window |-> 3, threshold |-> 4, enabled |-> 5]
(* left: the fields of the body that are still to be written. *)
Updating == [op : {"update"}, id : Ids, patch : Patch, left : SUBSET Fields]
(* Validated, about to call store.Update. *)
Saving == [op : {"save"}, id : Ids]
(* Inside store.Update, with the lock held. *)
Reindexing == [op : {"reindex"}, id : Ids, seen : EverySource,
               step : {"compare", "remove", "append"}]

Unlocked == \A q \in Requests : req[q].op # "reindex"

-----------------------------------------------------------------------------
Valid(r) ==
  /\ r.name # ""
  /\ r.window > 0 /\ r.window <= MaxWindow
  /\ r.threshold > 0

Key(s) == IF s = "" THEN "*" ELSE s

(* Fault: a rule of every source is not listed. *)
ListUnderSource(index, s, id) ==
  IF Key(s) = "*" THEN index ELSE [index EXCEPT ![Key(s)][id] = @ + 1]

ListUnder(index, s, id) == [index EXCEPT ![Key(s)][id] = @ + 1]

(* Fault: the id is taken to be there. *)
MinusOne(n) == n - 1

Unlist(n) == IF n > 0 THEN n - 1 ELSE 0

UnlistUnder(index, s, id) == [index EXCEPT ![Key(s)][id] = Unlist(@)]

(* Fault: zero values are written too. *)
EveryFieldGiven(p, f) == TRUE

(* The fields UpdateRule takes from a body. *)
Given(p, f) ==
  CASE f \in {"name", "source"} -> p[f] # ""
    [] f \in {"window", "threshold"} -> p[f] > 0
    [] OTHER -> TRUE

(* The handler leaves Enabled false when the body has none. *)
ValueOf(p, f) == IF f = "enabled" THEN TRUE \in p.enabled ELSE p[f]

Written(r, p, f) == [r EXCEPT ![f] = ValueOf(p, f)]

(* The specific part and the part for all sources of a listing. *)
ListBySource(s) ==
  IF s \in {"", "*"}
  THEN {id \in rules : obj[id].source \in {"", "*"}}
  ELSE {id \in rules : sourceIndex[s][id] + sourceIndex["*"][id] > 0}

GetEnabledRules == {id \in rules : obj[id].enabled}

-----------------------------------------------------------------------------
Init ==
  /\ rules = {}
  /\ obj = [x \in {} |-> x]
  /\ sourceIndex = [k \in Keys |-> [x \in Ids |-> 0]]
  /\ req = [q \in Requests |-> Idle]
  /\ rivals = [q \in Requests |-> {}]

(* GenerateID: an id that nothing refers to. *)
Fresh(id) ==
  /\ id \notin DOMAIN obj
  /\ \A q \in Requests : req[q].op = "create" => req[q].id # id

(* Fault: only rules of the same source are compared. *)
RulesOfItsSource(r) == {id \in rules : obj[id].source = r.source}

Namesakes(r) == rules

(* id gets a name while the creations in progress have their listing. *)
Rivalled(id) ==
  [p \in Requests |-> IF req[p].op = "create" THEN rivals[p] \cup {id} ELSE rivals[p]]

(* CreateRule up to the listing; an invalid draft changes nothing. *)
ListNames(q) ==
  /\ req[q] = Idle /\ Unlocked
  /\ \E id \in Ids, r \in Drafts :
       /\ Fresh(id) /\ Valid(r)
       /\ req' = [req EXCEPT ![q] =
            [op |-> "create", id |-> id, rule |-> r, todo |-> Namesakes(r)]]
  /\ UNCHANGED <<rules, obj, sourceIndex, rivals>>

(* One comparison with a listed rule, as it is now, perhaps deleted. *)
CompareName(q) ==
  /\ req[q].op = "create"
  /\ \E id \in req[q].todo :
       \/ /\ obj[id].name # req[q].rule.name
          /\ req' = [req EXCEPT ![q].todo = @ \ {id}]
          /\ UNCHANGED rivals
       \/ /\ obj[id].name = req[q].rule.name
          /\ req' = [req EXCEPT ![q] = Idle]
          /\ rivals' = [rivals EXCEPT ![q] = {}]
  /\ UNCHANGED <<rules, obj, sourceIndex>>

Create(q) ==
  /\ req[q].op = "create" /\ req[q].todo = {} /\ Unlocked
  /\ LET id == req[q].id IN
       /\ rules' = rules \cup {id}
       /\ obj' = [x \in DOMAIN obj \cup {id} |-> IF x = id THEN req[q].rule ELSE obj[x]]
       /\ sourceIndex' = ListUnder(sourceIndex, req[q].rule.source, id)
       /\ rivals' = [Rivalled(id) EXCEPT ![q] = {}]
  /\ req' = [req EXCEPT ![q] = Idle]

-----------------------------------------------------------------------------
(* UpdateRule *)

GetByID(q) ==
  /\ req[q] = Idle /\ Unlocked
  /\ \E id \in rules, p \in Patches :
       req' = [req EXCEPT ![q] = [op |-> "update", id |-> id, patch |-> p,
                                  left |-> {f \in Fields : Given(p, f)}]]
  /\ UNCHANGED <<rules, obj, sourceIndex, rivals>>

(* The next assignment through the pointer, whether or not the rule is      *)
(* still stored.                                                            *)
WriteField(q) ==
  /\ req[q].op = "update"
  /\ \E f \in req[q].left :
       /\ \A g \in req[q].left : Order[f] <= Order[g]
       /\ obj' = [obj EXCEPT ![req[q].id] = Written(@, req[q].patch, f)]
       /\ rivals' = IF f = "name" THEN Rivalled(req[q].id) ELSE rivals
       /\ req' = [req EXCEPT ![q].left = @ \ {f}]
  /\ UNCHANGED <<rules, sourceIndex>>

(* The service validates and then the store does: no state is between them  *)
(* that one validation at the right moment would miss.                      *)
Validate(q) ==
  /\ req[q].op = "update" /\ req[q].left = {}
  /\ req' = [req EXCEPT ![q] =
               IF Valid(obj[req[q].id]) THEN [op |-> "save", id |-> req[q].id] ELSE Idle]
  /\ UNCHANGED <<rules, obj, sourceIndex, rivals>>

(* Fault: the store does not ask whether the rule is there. *)
NeverGone(id) == TRUE

StillStored(id) == id \in rules

(* store.Update takes the lock and reads existing.Source. *)
Update(q) ==
  /\ req[q].op = "save" /\ Unlocked
  /\ LET id == req[q].id IN
       req' = [req EXCEPT ![q] =
                 IF StillStored(id)
                 THEN [op |-> "reindex", id |-> id, seen |-> obj[id].source,
                       step |-> "compare"]
                 ELSE Idle]
  /\ UNCHANGED <<rules, obj, sourceIndex, rivals>>

(* existing and rule are one object: the sources differ only if another     *)
(* update wrote the source between the two reads.                           *)
CompareSource(q) ==
  /\ req[q].op = "reindex" /\ req[q].step = "compare"
  /\ \/ /\ obj[req[q].id].source = req[q].seen
        /\ rules' = rules \cup {req[q].id}
        /\ req' = [req EXCEPT ![q] = Idle]
     \/ /\ obj[req[q].id].source # req[q].seen
        /\ req' = [req EXCEPT ![q].step = "remove"]
        /\ UNCHANGED rules
  /\ UNCHANGED <<obj, sourceIndex, rivals>>

RemoveOldSource(q) ==
  /\ req[q].op = "reindex" /\ req[q].step = "remove"
  /\ sourceIndex' = UnlistUnder(sourceIndex, obj[req[q].id].source, req[q].id)
  /\ req' = [req EXCEPT ![q].step = "append"]
  /\ UNCHANGED <<rules, obj, rivals>>

AppendNewSource(q) ==
  /\ req[q].op = "reindex" /\ req[q].step = "append"
  /\ sourceIndex' = ListUnder(sourceIndex, obj[req[q].id].source, req[q].id)
  /\ rules' = rules \cup {req[q].id}
  /\ req' = [req EXCEPT ![q] = Idle]
  /\ UNCHANGED <<obj, rivals>>

-----------------------------------------------------------------------------
Delete(id) ==
  /\ Unlocked /\ id \in rules
  /\ sourceIndex' = UnlistUnder(sourceIndex, obj[id].source, id)
  /\ rules' = rules \ {id}
  /\ UNCHANGED <<obj, req, rivals>>

SetEnabled(id, on) ==
  /\ Unlocked /\ id \in rules
  /\ obj' = [obj EXCEPT ![id].enabled = on]
  /\ UNCHANGED <<rules, sourceIndex, req, rivals>>

Enable(id) == SetEnabled(id, TRUE)
Disable(id) == SetEnabled(id, FALSE)

Next ==
  \/ \E q \in Requests :
       \/ ListNames(q) \/ CompareName(q) \/ Create(q)
       \/ GetByID(q) \/ WriteField(q) \/ Validate(q) \/ Update(q)
       \/ CompareSource(q) \/ RemoveOldSource(q) \/ AppendNewSource(q)
  \/ \E id \in Ids : Delete(id) \/ Enable(id) \/ Disable(id)

Spec == Init /\ [][Next]_rvars

-----------------------------------------------------------------------------
(* Properties.                                                              *)

(* Every variable keeps its type, what requests refer to has been stored,   *)
(* and one request at most is inside store.Update.                          *)
TypeOK ==
  /\ rules \subseteq DOMAIN obj /\ DOMAIN obj \subseteq Ids
  /\ \A id \in DOMAIN obj : obj[id] \in Rule
  /\ sourceIndex \in [Keys -> [Ids -> Nat]]
  /\ DOMAIN req = Requests
  /\ \A q \in Requests :
       /\ req[q] \in {Idle} \cup Creating \cup Updating \cup Saving \cup Reindexing
       /\ req[q].op = "create" => req[q].todo \subseteq DOMAIN obj
       /\ req[q].op \in {"update", "save", "reindex"} => req[q].id \in DOMAIN obj
  /\ \A p, q \in Requests : req[p].op = "reindex" /\ req[q].op = "reindex" => p = q
  /\ rivals \in [Requests -> SUBSET Ids]

(* Whatever an update has written so far, or left behind when it was        *)
(* rejected (rule_service.go:96-130), a stored rule has a name, a positive  *)
(* window and a positive threshold: of the limits of AlertRule.Validate,    *)
(* only the longest window can be overstepped.                              *)
RulesStayPositive ==
  \A id \in rules :
    /\ obj[id].name # ""
    /\ obj[id].window > 0 /\ obj[id].threshold > 0

(* Whatever races inside store.Update (memory_rule_store.go:141-161), a     *)
(* stored rule is listed under some source whenever the lock is free.       *)
EveryRuleListed ==
  Unlocked => \A id \in rules : \E k \in Keys : sourceIndex[k][id] > 0

(* A deleted rule does not come back through an update that fetched it      *)
(* before the deletion (memory_rule_store.go:135-138).                      *)
NoResurrection == [][(DOMAIN obj \ rules) \cap rules' = {}]_rvars

(* The check of rule_service.go:50-55 is not atomic with the creation, but  *)
(* it does catch every rule it listed: a rule is created under a taken name *)
(* only if the namesake was created or renamed after the listing.           *)
DuplicateNeedsRival ==
  [][\A q \in Requests : Create(q) =>
       \A id \in rules : obj[id].name = req[q].rule.name => id \in rivals[q]]_rvars

-----------------------------------------------------------------------------
(* What a comment promises and the code does not do.                        *)

(* "ListBySource lists the rules of the given source"                       *)
(* (memory_rule_store.go:80): with no update under way, every rule of a     *)
(* source is in its listing.                                                *)
ListsItsSource ==
  (\A q \in Requests : req[q].op \notin {"update", "save", "reindex"}) =>
    \A id \in rules : id \in ListBySource(obj[id].source)
=============================================================================
