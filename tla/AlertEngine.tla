----------------------------- MODULE AlertEngine -----------------------------
(***************************************************************************)
(* The alert engine: AlertService.EvaluateAllRules and EvaluateRule        *)
(* (internal/service/alert_service.go:39-106), run again and again by the  *)
(* scheduler's alert task.                                                 *)
(*                                                                         *)
(* A scan lists the stored rules and then works on them through pointers,  *)
(* without a lock: each read of a field is a step, and between two of them *)
(* requests write fields, delete and create rules (RuleService), entries   *)
(* arrive and disappear (LogStore), and time goes on.                      *)
(*                                                                         *)
(* Time is relative: an entry carries its age, and the current evaluation  *)
(* the time elapsed since it took `now`.                                   *)
(***************************************************************************)
EXTENDS Integers, FiniteSets

CONSTANTS
  Rules,       \* identifiers of rules
  LogIds,      \* identifiers of log entries
  Sources, Levels, \* what a rule may filter by, with "" for no filter
  LogKinds,    \* source and level of the entries that arrive
  Drafts,      \* for each identifier, the rules that requests may create
  Edits,       \* single writes of an update, an Enable or a Disable
  MaxWindow,   \* bound: the longest window of a rule
  MaxElapsed,  \* bound: the longest evaluation of one rule
  MaxDelay     \* bound: the age of an entry when it gets visible

NoOne == "nobody"   \* no rule is being evaluated

(* A window is a duration: a WindowMinutes that a rejected update left      *)
(* behind (rule_service.go:116) may be so large that the product with       *)
(* time.Minute wraps, and counts as a negative one here.                    *)
Windows == {w \in Int : w <= MaxWindow}

FieldType ==
  [enabled |-> BOOLEAN, source |-> Sources, level |-> Levels,
   window |-> Windows, threshold |-> Int]

RuleValues == [enabled : BOOLEAN, source : Sources, level : Levels,
               window : Windows, threshold : Int]

ASSUME EngineAssumption ==
  /\ MaxWindow \in Nat /\ MaxElapsed \in Nat /\ MaxDelay \in Nat
  /\ MaxDelay <= MaxWindow + MaxElapsed
  /\ "" \in Sources \cap Levels
  /\ LogKinds \subseteq [source : Sources, level : Levels]
  /\ Drafts \in [Rules -> SUBSET RuleValues]
  /\ \A e \in Edits :
       e.rule \in Rules /\ e.field \in DOMAIN FieldType /\ e.value \in FieldType[e.field]
  /\ IsFiniteSet(LogIds)
  /\ NoOne \notin Rules

VARIABLES
  rules,    \* what the rule pointers point to, with stored: is it in the map
  logs,     \* the entries that a Query sees
  scan,     \* the local variables of EvaluateAllRules and EvaluateRule
  awake,    \* history: rules enabled at some moment since the scan began
  touched,  \* history: has the rule been written since its evaluation began
  due       \* history: entries in the window when `now` was taken, still there
evars == <<rules, logs, scan, awake, touched, due>>

Ages == 0..(MaxWindow + MaxElapsed)
Absent == [age |-> -1]
NoRule == [stored |-> FALSE]
NoEvent == [made |-> FALSE]
Event(v, n) == [made |-> TRUE, source |-> v.source, level |-> v.level, count |-> n,
                threshold |-> v.threshold, window |-> v.window]

Stored == {r \in Rules : rules[r].stored}
Enabled == {r \in Rules : rules[r] # NoRule /\ rules[r].fields.enabled}

Idle == [stage |-> "idle", todo |-> {}, rule |-> NoOne, elapsed |-> 0, window |-> 0,
         source |-> "", level |-> "", total |-> 0, compared |-> 0,
         event |-> NoEvent, fired |-> {}]

Evaluating == scan.stage \in {"source", "level", "query", "compare", "make", "store"}
Counting == scan.stage \in {"source", "level", "query"}   \* now is taken, the query to come
Referenced(r) == r \in scan.todo \cup scan.fired \/ r = scan.rule

-----------------------------------------------------------------------------
(* The log query of an evaluation. *)

(* An empty filter means no filter; any other value, also the "*" under     *)
(* which the rule store files the rules of all sources, has to be equal.    *)
Passes(filter, value) == filter = "" \/ filter = value

(* Fault: the range is that of the moment of the query. *)
InRangeAtQuery(age, window, elapsed) == 0 <= age /\ age <= window

(* Timestamps from now - window to now, both included. *)
InRange(age, window, elapsed) == elapsed <= age /\ age <= window + elapsed

Matching(source, level, window, elapsed) ==
  {x \in LogIds :
     /\ logs[x] # Absent
     /\ Passes(source, logs[x].source) /\ Passes(level, logs[x].level)
     /\ InRange(logs[x].age, window, elapsed)}

Count(source, level, window, elapsed) ==
  Cardinality(Matching(source, level, window, elapsed))

-----------------------------------------------------------------------------
Init ==
  /\ rules = [r \in Rules |-> NoRule]
  /\ logs = [x \in LogIds |-> Absent]
  /\ scan = Idle
  /\ awake = {}
  /\ touched = FALSE
  /\ due = {}

(* The rest of the program. *)

CreateRule(r, v) ==
  /\ ~rules[r].stored /\ ~Referenced(r)
  /\ rules' = [rules EXCEPT ![r] = [stored |-> TRUE, fields |-> v]]
  /\ awake' = IF v.enabled THEN awake \cup {r} ELSE awake
  /\ UNCHANGED <<logs, scan, touched, due>>

(* One assignment through the pointer; the request may have fetched the     *)
(* rule before it was deleted.                                              *)
WriteField(e) ==
  LET r == e.rule IN
  /\ rules[r].stored \/ Referenced(r)
  /\ rules' = [rules EXCEPT ![r].fields = [@ EXCEPT ![e.field] = e.value]]
  /\ awake' = IF rules'[r].fields.enabled THEN awake \cup {r} ELSE awake
  /\ touched' = (touched \/ (r = scan.rule /\ Evaluating /\ e.field # "enabled"))
  /\ UNCHANGED <<logs, scan, due>>

DeleteRule(r) ==
  /\ rules[r].stored
  /\ rules' = [rules EXCEPT ![r].stored = FALSE]
  /\ UNCHANGED <<logs, scan, awake, touched, due>>

(* An entry gets visible up to MaxDelay after its timestamp was taken. *)
Arrive(x, k, age) ==
  /\ logs[x] = Absent
  /\ age <= MaxDelay
  /\ logs' = [logs EXCEPT ![x] = [age |-> age, source |-> k.source, level |-> k.level]]
  /\ UNCHANGED <<rules, scan, awake, touched, due>>

(* Deleted, cleaned up, evicted, or hidden by the eviction of another. *)
Disappear(x) ==
  /\ logs[x] # Absent
  /\ logs' = [logs EXCEPT ![x] = Absent]
  /\ due' = due \ {x}
  /\ UNCHANGED <<rules, scan, awake, touched>>

(* A minute passes.  Entries older than every window are forgotten. *)
Tick ==
  /\ Counting => scan.elapsed < MaxElapsed
  /\ logs' = [x \in LogIds |->
       IF logs[x] = Absent \/ logs[x].age + 1 \notin Ages THEN Absent
       ELSE [logs[x] EXCEPT !.age = @ + 1]]
  /\ scan' = IF Counting THEN [scan EXCEPT !.elapsed = @ + 1] ELSE scan
  /\ UNCHANGED <<rules, awake, touched, due>>

-----------------------------------------------------------------------------
(* The scan. *)

At(stage) == scan.stage = stage
Rule == rules[scan.rule].fields

(* Fault: the loop goes on with the event of the rule before. *)
ToLoopKeepingEvent(s) ==
  [Idle EXCEPT !.stage = "loop", !.todo = s.todo, !.fired = s.fired, !.event = s.event]

ToLoop(s) == [Idle EXCEPT !.stage = "loop", !.todo = s.todo, !.fired = s.fired]

(* ruleStore.List: the pointers of all stored rules. *)
List ==
  /\ At("idle")
  /\ scan' = [Idle EXCEPT !.stage = "loop", !.todo = Stored]
  /\ awake' = Enabled
  /\ UNCHANGED <<rules, logs, touched, due>>

(* Fault: the switch is taken for the presence in the map. *)
IsStoredRule(r) == rules[r].stored

IsEnabled(r) == rules[r].fields.enabled

SkipDisabled(r) ==
  /\ At("loop") /\ r \in scan.todo
  /\ ~IsEnabled(r)
  /\ scan' = [scan EXCEPT !.todo = @ \ {r}]
  /\ UNCHANGED <<rules, logs, awake, touched, due>>

CallEvaluateRule(r) ==
  /\ At("loop") /\ r \in scan.todo
  /\ IsEnabled(r)
  /\ scan' = [scan EXCEPT !.todo = @ \ {r}, !.rule = r, !.stage = "check"]
  /\ UNCHANGED <<rules, logs, awake, touched, due>>

GiveUpDisabled ==
  /\ At("check")
  /\ ~IsEnabled(scan.rule)
  /\ scan' = ToLoop(scan)
  /\ UNCHANGED <<rules, logs, awake, touched, due>>

CheckEnabled ==
  /\ At("check")
  /\ IsEnabled(scan.rule)
  /\ scan' = [scan EXCEPT !.stage = "window"]
  /\ UNCHANGED <<rules, logs, awake, touched, due>>

(* now := time.Now(), and windowStart from the rule's window. *)
OpenWindow ==
  /\ At("window")
  /\ scan' = [scan EXCEPT !.stage = "source", !.window = Rule.window, !.elapsed = 0]
  /\ touched' = FALSE
  /\ due' = {x \in LogIds : logs[x] # Absent /\ logs[x].age \in 0..Rule.window}
  /\ UNCHANGED <<rules, logs, awake>>

ReadSource ==
  /\ At("source")
  /\ scan' = [scan EXCEPT !.stage = "level", !.source = Rule.source]
  /\ UNCHANGED <<rules, logs, awake, touched, due>>

ReadLevel ==
  /\ At("level")
  /\ scan' = [scan EXCEPT !.stage = "query", !.level = Rule.level]
  /\ UNCHANGED <<rules, logs, awake, touched, due>>

(* Fault: a rule that fails ends the scan. *)
QueryFailsAndReturns ==
  /\ At("query")
  /\ scan.window < 0
  /\ scan' = [Idle EXCEPT !.fired = scan.fired]
  /\ due' = {}
  /\ UNCHANGED <<rules, logs, awake, touched>>

(* LogQuery.Validate: the start of the range is after its end. *)
QueryFails ==
  /\ At("query")
  /\ scan.window < 0
  /\ scan' = ToLoop(scan)
  /\ due' = {}
  /\ UNCHANGED <<rules, logs, awake, touched>>

Query ==
  /\ At("query")
  /\ scan.window >= 0
  /\ scan' = [scan EXCEPT !.stage = "compare", !.elapsed = 0,
                !.total = Count(scan.source, scan.level, scan.window, scan.elapsed)]
  /\ due' = {}
  /\ UNCHANGED <<rules, logs, awake, touched>>

(* Fault: any match will do. *)
MatchesAny(total, threshold) == total > 0

Fires(total, threshold) == total >= threshold

TooFew ==
  /\ At("compare")
  /\ ~Fires(scan.total, Rule.threshold)
  /\ scan' = ToLoop(scan)
  /\ UNCHANGED <<rules, logs, awake, touched, due>>

Reached ==
  /\ At("compare")
  /\ Fires(scan.total, Rule.threshold)
  /\ scan' = [scan EXCEPT !.stage = "make", !.compared = Rule.threshold]
  /\ UNCHANGED <<rules, logs, awake, touched, due>>

(* The constructor reads the rule again.  Its reads are one step: writes     *)
(* between them only mix values of a rule that is touched anyway.            *)
NewAlertEvent ==
  /\ At("make")
  /\ scan' = [scan EXCEPT !.stage = "store", !.event = Event(Rule, scan.total)]
  /\ UNCHANGED <<rules, logs, awake, touched, due>>

(* alertStore.Store; the event is appended to triggeredEvents. *)
StoreEvent ==
  /\ At("store")
  /\ scan' = [ToLoop(scan) EXCEPT !.fired = @ \cup {scan.rule}]
  /\ UNCHANGED <<rules, logs, awake, touched, due>>

EndScan ==
  /\ At("loop") /\ scan.todo = {}
  /\ scan' = [scan EXCEPT !.stage = "idle"]
  /\ UNCHANGED <<rules, logs, awake, touched, due>>

EvaluateRule ==
  \/ CheckEnabled \/ GiveUpDisabled
  \/ OpenWindow \/ ReadSource \/ ReadLevel
  \/ Query \/ QueryFails
  \/ Reached \/ TooFew
  \/ NewAlertEvent \/ StoreEvent

EvaluateAllRules ==
  \/ List \/ EndScan
  \/ \E r \in Rules : CallEvaluateRule(r) \/ SkipDisabled(r)
  \/ EvaluateRule

Requests ==
  \/ \E r \in Rules : DeleteRule(r) \/ \E v \in Drafts[r] : CreateRule(r, v)
  \/ \E e \in Edits : WriteField(e)

Entries ==
  \/ \E x \in LogIds, k \in LogKinds, age \in Ages : Arrive(x, k, age)
  \/ \E x \in LogIds : Disappear(x)

Next == EvaluateAllRules \/ Requests \/ Entries \/ Tick

Spec == Init /\ [][Next]_evars

(* The scheduler's task goes on: its ticker keeps firing and no step of a   *)
(* scan waits for anything but a mutex that is held for one operation.      *)
FairSpec == Spec /\ WF_evars(EvaluateAllRules)
-----------------------------------------------------------------------------
(* Properties *)

(* The variables have their types, and the locals of an evaluation are set  *)
(* exactly while one is under way.                                          *)
EventType == {NoEvent} \cup
  [made : {TRUE}, source : Sources, level : Levels, count : Nat, threshold : Int, window : Windows]

ScanType ==
  [stage : {"idle", "loop", "check", "window", "source", "level", "query", "compare",
            "make", "store"},
   todo : SUBSET Rules, rule : Rules \cup {NoOne}, elapsed : 0..MaxElapsed, window : Windows,
   source : Sources, level : Levels, total : Nat, compared : Int, event : EventType,
   fired : SUBSET Rules]

TypeOK ==
  /\ rules \in [Rules -> {NoRule} \cup [stored : BOOLEAN, fields : RuleValues]]
  /\ logs \in [LogIds -> {Absent} \cup [age : Ages, source : Sources, level : Levels]]
  /\ scan \in ScanType
  /\ awake \in SUBSET Rules /\ touched \in BOOLEAN /\ due \in SUBSET LogIds
  /\ (scan.rule = NoOne) <=> (scan.stage \in {"idle", "loop"})
  /\ (scan.event # NoEvent) <=> (scan.stage = "store")
  /\ \A r \in Rules : Referenced(r) => rules[r] # NoRule

(* An event reports a count that reached a threshold its rule had when the  *)
(* count was compared; and unless the rule was written while it was         *)
(* evaluated, the threshold, the filter and the window in the event are the *)
(* ones that were used.  (alert_service.go:53-68, alert_event.go:49: the    *)
(* rule is read again, without a lock, after the query.)                    *)
EventSaysWhatWasCounted ==
  LET e == scan.event IN
  At("store") =>
    /\ e.count >= scan.compared
    /\ ~touched =>
         /\ e.count >= e.threshold
         /\ e.source = scan.source /\ e.level = scan.level /\ e.window = scan.window

(* What the query asks for, of what was in the window at `now`. *)
WantedSinceNow == {x \in due : /\ Passes(scan.source, logs[x].source)
                               /\ Passes(scan.level, logs[x].level)}

CountsAll == scan'.total >= Cardinality(WantedSinceNow)

(* The count includes every entry that was visible in the rule's window     *)
(* when the evaluation took `now`, unless it was removed before the query,  *)
(* however much time went by until the store's lock was free                *)
(* (alert_service.go:49-60, memory_log_store.go:127-132: the query keeps    *)
(* to the range that was computed, not to the moment at which it runs).     *)
CountsWhatWasThere == [][Query => CountsAll]_evars

(* The number of entries that would make the rule fire if it were evaluated *)
(* at once.                                                                 *)
Ripe(r) ==
  /\ rules[r].stored
  /\ LET v == rules[r].fields IN
       /\ v.enabled
       /\ v.window >= 0
       /\ Count(v.source, v.level, v.window, 0) >= v.threshold

LeftAlone(r) == rules'[r] = rules[r]
NothingDisappears == \A x \in LogIds : ~Disappear(x)

(* A rule whose condition goes on to hold fires in scan after scan,         *)
(* whatever the other rules do and however many of them fail: a failed      *)
(* evaluation does not end the scan (alert_service.go:93-96).               *)
KeepsFiring ==
  \A r \in Rules :
    (<>[]Ripe(r) /\ <>[][LeftAlone(r) /\ NothingDisappears]_evars)
      => []<>(r \in scan.fired)

(* The engine implements AlertScan: a listed rule is dealt with when its    *)
(* evaluation, with all its steps, is over; a rule deleted during the scan  *)
(* may fire in it and never again; one that is disabled all through the     *)
(* scan stays silent.                                                       *)
Promise == INSTANCE AlertScan WITH
  stored  <- Stored,
  enabled <- Enabled,
  pending <- scan.todo \cup ({scan.rule} \ {NoOne}),
  fired   <- scan.fired

ImplementsAlertScan == Promise!Spec
=============================================================================
