----------------------------- MODULE AlertStore -----------------------------
(***************************************************************************)
(* Alert events: the in-memory alert store                                 *)
(* (internal/store/memory_alert_store.go), their life cycle                *)
(* (internal/model/alert_event.go) and the operations of the alert service *)
(* on stored events (internal/service/alert_service.go:136-223).           *)
(*                                                                         *)
(* Users acknowledge, resolve and delete events at any time.  The          *)
(* scheduler's auto-resolve task takes a snapshot of the active events and *)
(* resolves the expired ones one by one, without a lock in between; its    *)
(* cleanup task ranges over the map with the mutex held.                   *)
(***************************************************************************)
EXTENDS Integers, FiniteSets

CONSTANTS
  Ids,               \* identifiers GenerateID can return
  Evaluators,        \* running rule evaluations, each about to store an event
  Rules, Sources,    \* values of the two indexed fields
  EnableAutoResolve, \* config.Alert.EnableAutoResolve
  AutoResolveAfter,  \* config.Alert.AutoResolveAfter
  DefaultAfter,      \* the 15 minutes used when AutoResolveAfter <= 0
  Retention,         \* config.Alert.MaxEventsRetention
  MaxTime            \* bound: last value of the clock

ASSUME ConfigAssumption ==
  /\ EnableAutoResolve \in BOOLEAN
  /\ AutoResolveAfter \in Int /\ DefaultAfter \in Nat \ {0} /\ Retention \in Int
  /\ MaxTime \in Nat

VARIABLES
  adb,       \* the fields of MemoryAlertStore
  firing,    \* the event each evaluation has created and not yet stored
  resolver,  \* the auto-resolve task: its snapshot while it runs
  amu,       \* who holds the write lock across steps
  now        \* the wall clock
avars == <<adb, firing, resolver, amu, now>>

Times == 0..MaxTime
Nil == -1            \* a nil *time.Time
None == [status |-> "none"]   \* no event

FIRED == "FIRED"
RESOLVED == "RESOLVED"
ACKNOWLEDGED == "ACKNOWLEDGED"
Statuses == {FIRED, RESOLVED, ACKNOWLEDGED}

Event == [id : Ids, rule : Rules, source : Sources, triggered : Times,
          resolved : Times \cup {Nil}, status : Statuses]

Free == [kind |-> "free"]
CleanupLoop == [kind : {"cleanup"}, cutoff : Int]
Stopped == [scanning |-> FALSE, todo |-> {}]

Live(a) == DOMAIN a.events
IsActive(e) == e.status \in {FIRED, ACKNOWLEDGED}

EffectiveAfter == IF AutoResolveAfter <= 0 THEN DefaultAfter ELSE AutoResolveAfter

-----------------------------------------------------------------------------
(* Pure operations on the store.  The listings sort what they read from an  *)
(* index, so an index is kept as the number of times it lists each id.      *)

(* Fault: the event is stored under the id of its rule. *)
PutUnderRule(a, e) ==
  [a EXCEPT !.events = [x \in Live(a) \cup {e.rule} |-> IF x = e.rule THEN e ELSE @[x]]]

PutEvent(a, e) ==
  [events      |-> [x \in Live(a) \cup {e.id} |-> IF x = e.id THEN e ELSE a.events[x]],
   ruleIndex   |-> [a.ruleIndex EXCEPT ![e.rule][e.id] = @ + 1],
   sourceIndex |-> [a.sourceIndex EXCEPT ![e.source][e.id] = @ + 1]]

Unlist(n) == IF n > 0 THEN n - 1 ELSE 0

(* removeEvent, and the same code again in Delete. *)
RemoveEvent(a, id) ==
  LET e == a.events[id] IN
  [events      |-> [x \in Live(a) \ {id} |-> a.events[x]],
   ruleIndex   |-> [a.ruleIndex EXCEPT ![e.rule][id] = Unlist(@)],
   sourceIndex |-> [a.sourceIndex EXCEPT ![e.source][id] = Unlist(@)]]

SetEvent(a, id, e) ==
  [a EXCEPT !.events = [x \in Live(a) |-> IF x = id THEN e ELSE a.events[x]]]

(* Fault: acknowledging wipes the time of an earlier resolution. *)
AcknowledgedAnew(e) == [e EXCEPT !.status = ACKNOWLEDGED, !.resolved = Nil]

Acknowledged(e) == [e EXCEPT !.status = ACKNOWLEDGED]

(* Fault: the status changes and the time is not recorded. *)
ResolvedStatusOnly(e, t) == [e EXCEPT !.status = RESOLVED]

ResolvedAt(e, t) == [e EXCEPT !.status = RESOLVED, !.resolved = t]

ListByRule(a, r) == {id \in Live(a) : a.ruleIndex[r][id] > 0}
ListBySource(a, s) == {id \in Live(a) : a.sourceIndex[s][id] > 0}
ListActive(a) == {id \in Live(a) : IsActive(a.events[id])}
CountActive(a) == Cardinality(ListActive(a))

-----------------------------------------------------------------------------
EmptyStore ==
  [events      |-> [x \in {} |-> x],
   ruleIndex   |-> [r \in Rules |-> [x \in Ids |-> 0]],
   sourceIndex |-> [s \in Sources |-> [x \in Ids |-> 0]]]

Init ==
  /\ adb = EmptyStore
  /\ firing = [w \in Evaluators |-> None]
  /\ resolver = Stopped
  /\ amu = Free
  /\ now = 0

(* GenerateID: an id that nothing refers to. *)
Fresh(id) ==
  /\ id \notin Live(adb) \cup resolver.todo
  /\ \A w \in Evaluators : firing[w] # None => firing[w].id # id

(* NewAlertEvent, before alertStore.Store takes the lock. *)
NewAlertEvent(w) ==
  /\ firing[w] = None
  /\ \E id \in Ids, r \in Rules, s \in Sources :
       /\ Fresh(id)
       /\ firing' = [firing EXCEPT ![w] =
            [id |-> id, rule |-> r, source |-> s, triggered |-> now,
             resolved |-> Nil, status |-> FIRED]]
  /\ UNCHANGED <<adb, resolver, amu, now>>

Store(w) ==
  /\ amu = Free
  /\ firing[w] # None
  /\ adb' = PutEvent(adb, firing[w])
  /\ firing' = [firing EXCEPT ![w] = None]
  /\ UNCHANGED <<resolver, amu, now>>

Acknowledge(id) ==
  /\ amu = Free
  /\ id \in Live(adb)
  /\ adb' = SetEvent(adb, id, Acknowledged(adb.events[id]))
  /\ UNCHANGED <<firing, resolver, amu, now>>

Resolve(id) ==
  /\ amu = Free
  /\ id \in Live(adb)
  /\ adb' = SetEvent(adb, id, ResolvedAt(adb.events[id], now))
  /\ UNCHANGED <<firing, resolver, amu, now>>

Delete(id) ==
  /\ amu = Free
  /\ id \in Live(adb)
  /\ adb' = RemoveEvent(adb, id)
  /\ UNCHANGED <<firing, resolver, amu, now>>

-----------------------------------------------------------------------------
(* AutoResolveExpired *)

(* Fault: acknowledged alerts are left out of the scan. *)
FiredOnly(a) == {id \in Live(a) : a.events[id].status = FIRED}

Snapshot(a) == ListActive(a)

StartAutoResolve ==
  /\ EnableAutoResolve
  /\ amu = Free
  /\ ~resolver.scanning
  /\ resolver' = [scanning |-> TRUE, todo |-> Snapshot(adb)]
  /\ UNCHANGED <<adb, firing, amu, now>>

(* The listing hands out pointers: TriggeredAt is read without the lock,    *)
(* from an event that may have left the store.  It never changes, so a live *)
(* event stands for it.  Resolve on a deleted id fails and is skipped; the  *)
(* status is not looked at again.                                           *)
AutoResolve(id) ==
  /\ resolver.scanning
  /\ id \in resolver.todo
  /\ resolver' = [resolver EXCEPT !.todo = @ \ {id}]
  /\ \/ /\ id \in Live(adb)
        /\ now - adb.events[id].triggered > EffectiveAfter
        /\ amu = Free
        /\ adb' = SetEvent(adb, id, ResolvedAt(adb.events[id], now))
     \/ /\ id \in Live(adb)
        /\ now - adb.events[id].triggered <= EffectiveAfter
        /\ UNCHANGED adb
     \/ /\ id \notin Live(adb)
        /\ UNCHANGED adb
  /\ UNCHANGED <<firing, amu, now>>

FinishAutoResolve ==
  /\ resolver.scanning
  /\ resolver.todo = {}
  /\ resolver' = Stopped
  /\ UNCHANGED <<adb, firing, amu, now>>

-----------------------------------------------------------------------------
(* Cleanup: the map is ranged over in any order, with the lock held. *)

(* Fault: the age of an event is enough. *)
RemovableByAge(e, cutoff) == e.triggered < cutoff

Removable(e, cutoff) ==
  \/ e.resolved # Nil /\ e.resolved < cutoff
  \/ e.triggered < cutoff /\ ~IsActive(e)

Cleanup ==
  /\ amu = Free
  /\ Retention > 0
  /\ amu' = [kind |-> "cleanup", cutoff |-> now - Retention]
  /\ UNCHANGED <<adb, firing, resolver, now>>

CleanupNext ==
  /\ amu.kind = "cleanup"
  /\ \E id \in Live(adb) :
       /\ Removable(adb.events[id], amu.cutoff)
       /\ adb' = RemoveEvent(adb, id)
  /\ UNCHANGED <<firing, resolver, amu, now>>

CleanupDone ==
  /\ amu.kind = "cleanup"
  /\ \A id \in Live(adb) : ~Removable(adb.events[id], amu.cutoff)
  /\ amu' = Free
  /\ UNCHANGED <<adb, firing, resolver, now>>

Tick ==
  /\ now < MaxTime
  /\ now' = now + 1
  /\ UNCHANGED <<adb, firing, resolver, amu>>

Next ==
  \/ \E w \in Evaluators : NewAlertEvent(w) \/ Store(w)
  \/ \E id \in Ids : Acknowledge(id) \/ Resolve(id) \/ Delete(id) \/ AutoResolve(id)
  \/ StartAutoResolve \/ FinishAutoResolve
  \/ Cleanup \/ CleanupNext \/ CleanupDone
  \/ Tick

Spec == Init /\ [][Next]_avars

(* The auto-resolve ticker keeps firing and a Go mutex starves nobody, so a *)
(* step of the task that waits for the lock is taken if it can be taken     *)
(* again and again; a loop under the lock runs to its end; time passes.     *)
Fairness ==
  /\ SF_avars(StartAutoResolve)
  /\ \A id \in Ids : SF_avars(AutoResolve(id))
  /\ WF_avars(FinishAutoResolve)
  /\ WF_avars(CleanupNext) /\ WF_avars(CleanupDone)
  /\ WF_avars(Tick)

FairSpec == Spec /\ Fairness

-----------------------------------------------------------------------------
(* Properties.                                                              *)

(* Every variable keeps its type. *)
StoreType(a) ==
  /\ DOMAIN a = {"events", "ruleIndex", "sourceIndex"}
  /\ Live(a) \subseteq Ids
  /\ \A id \in Live(a) : a.events[id] \in Event /\ a.events[id].id = id
  /\ a.ruleIndex \in [Rules -> [Ids -> Nat]]
  /\ a.sourceIndex \in [Sources -> [Ids -> Nat]]

TypeOK ==
  /\ StoreType(adb)
  /\ \A w \in Evaluators : firing[w] = None \/ firing[w] \in Event
  /\ DOMAIN firing = Evaluators
  /\ resolver \in [scanning : BOOLEAN, todo : SUBSET Ids]
  /\ amu \in {Free} \cup CleanupLoop
  /\ now \in Times

(* Both indices list exactly the live events, once each, whichever of the   *)
(* two copies of the removal code took events out: ListByRule and           *)
(* ListBySource miss nothing (memory_alert_store.go:77-114).                *)
Exact(a) ==
  /\ \A r \in Rules, id \in Ids :
       a.ruleIndex[r][id] = IF id \in Live(a) /\ a.events[id].rule = r THEN 1 ELSE 0
  /\ \A s \in Sources, id \in Ids :
       a.sourceIndex[s][id] = IF id \in Live(a) /\ a.events[id].source = s THEN 1 ELSE 0
IndicesExact == Exact(adb)

(* A resolved event carries the time it was resolved, not before it was     *)
(* triggered and not in the future, although it may be stored after other   *)
(* events and resolved from a stale snapshot (alert_event.go:107-111).      *)
Timed(e, t) ==
  /\ e.status = RESOLVED => e.resolved # Nil
  /\ e.triggered <= t
  /\ e.resolved # Nil => e.triggered <= e.resolved /\ e.resolved <= t
ResolvedInOrder == \A id \in Live(adb) : Timed(adb.events[id], now)

(* The auto-resolve task may resolve again what a user resolved after its   *)
(* snapshot: the recorded time only moves forward and is never cleared      *)
(* (alert_service.go:192-198).                                              *)
ResolutionMovesForward ==
  [][\A id \in Live(adb) \cap Live(adb)' :
       adb.events[id].resolved <= adb'.events[id].resolved]_avars

(* Cleanup takes out only events that have been resolved at some time, by   *)
(* whatever branch (memory_alert_store.go:212-220).                         *)
CleanupSparesUnresolved ==
  [][CleanupNext => \A id \in Live(adb) \ Live(adb)' : adb.events[id].resolved # Nil]_avars

(* Every active alert older than AutoResolveAfter is resolved or removed in *)
(* the end, whatever users acknowledge, resolve and delete while a scan     *)
(* works through its snapshot (alert_service.go:175-204).                   *)
Overdue(id) ==
  /\ id \in ListActive(adb)
  /\ now - adb.events[id].triggered > EffectiveAfter
OverdueGetResolved == \A id \in Ids : Overdue(id) ~> ~Overdue(id)

-----------------------------------------------------------------------------
(* What a comment promises and the code does not do.                        *)

(* "ResolvedAt: empty means not resolved" (alert_event.go:28): an event that*)
(* counts as active has no ResolvedAt.                                      *)
ResolvedAtMeansResolved ==
  \A id \in Live(adb) : IsActive(adb.events[id]) => adb.events[id].resolved = Nil
=============================================================================
