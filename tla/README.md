# Verification of the log alert service

TLA+ models of the log alert service (`src/`, Go module `logalert`), the TLC
configurations that check them on small instances, and TLAPS proofs of what
matters most for every value of the constants. The program keeps everything in
memory: log entries, alert rules and alert events live in three stores behind
mutexes, an HTTP front end calls services that call the stores, and a scheduler
runs four periodic tasks on the same services.

## 1. Inventory

| Component | State | Operations | Correct when |
|---|---|---|---|
| Log store and log service (`internal/store/memory_log_store.go`, `internal/service/log_service.go`) | `entries` map, `timeIndex`, `sourceIndex`, `levelIndex`, `keywordIndex`, one RWMutex | CreateLog, CreateBatchLogs, Query, Count, DeleteByID, DeleteBySource, Cleanup, eviction when full | the capacity is a bound; the indices list what is stored, in time order; eviction and deletion take what they should and nothing else |
| Alert store, alert life cycle (`memory_alert_store.go`, `internal/model/alert_event.go`, `alert_service.go:136-223`) | `events` map, `ruleIndex`, `sourceIndex`; an event's status and ResolvedAt | Store, Acknowledge, Resolve, Delete, AutoResolveExpired, Cleanup | indices exact; times in order; cleanup spares unresolved events; overdue events get resolved |
| Alert engine (`alert_service.go:39-107`) | none of its own; reads rules and logs, writes events | EvaluateRule, EvaluateAllRules | an event says what was counted; the count is complete; every listed rule is dealt with once, a disabled one does not fire; a condition that holds goes on firing; a scan ends |
| Rule store and rule service (`memory_rule_store.go`, `rule_service.go`) | `rules` map, `sourceIndex` | Create, Update, Delete, Enable, Disable, listings | a taken name is refused; stored rules are valid, or at least, whatever an update leaves, have a name and positive limits; the index follows the rule; deleted rules stay deleted |
| Scheduler (`scheduler_service.go`) | `running`, `tickers`, `stopCh`, a WaitGroup, a mutex; goroutines, tickers, channels | Start, Stop, IsRunning, the task loops, the context watcher | Stop waits for every task; no double close, no WaitGroup panic; calls return |
| Log query and statistics (`query.go`, `memory_log_store.go:104-204`, `stats_service.go`, `statistics.go`) | none | validation, filter, sort, paging, counting, reports | pages, totals and reports agree with the stored entries and with each other, while entries come and go |
| Aggregation service (`aggregation_service.go`) | none | sums by source, level, hour; constructed nowhere | the same sums as the statistics |
| Window manager, cleanup service, rate limiter | window and counter maps | constructed nowhere | – |
| Server (`cmd/server/main.go`, `internal/handler/middleware.go`) | mux, root context | registration, listening, routing, shutdown | starts; routes reach their handlers; requests are answered also while it stops |
| Handlers (`internal/handler/*_handler.go`) | none | a handler for each route | the answer tells what was done |
| HTTP, JSON, time and concurrency utilities, configuration, logger, errors, web page | mostly none | decoding, encoding, formatting | – |

How they interact: HTTP goroutines and the scheduler's tasks call the services
concurrently; the only synchronisation is each store's mutex and the scheduler's
mutex and WaitGroup. Four things make this hard.

* **Gaps between locks.** An entry's timestamp is taken before the store's lock,
  `StoreBatch` locks once per entry, `AutoResolveExpired` works on a snapshot,
  the rule service changes a stored rule through its pointer.
* **Loops over what they change.** `DeleteBySource` ranges over a slice that the
  removal shifts; eviction edits `timeIndex` twice.
* **Pointers out of the locks.** Listings hand out the stored rules themselves, which a
  scan reads field by field while requests write them; a page or a report is computed
  from one moment of a log that has changed by the next.
* **Start, Stop and the context.** main's Stop races the watcher's Stop; a second
  Start races the first Stop; a select picks at random.

Nothing is persisted and nothing is sent over a network between parts, so there is
no crash recovery and no message loss to model. `PROJECT.json` lists every
component with its status and every hazard with its line and the properties aimed
at it; every one has a property.

## 2. Plan

In this order, most important first:

1. `LogStore`, `MCLogStore`, the abstract `BoundedLog` that it implements, `LogStoreProofs` –
   done.
2. `AlertStore`, `MCAlertStore`, `AlertStoreProofs` – done.
3. `Scheduler`, `MCScheduler`, `SchedulerProofs` – done.
4. `RuleService`, `MCRuleService`, `RuleServiceProofs` – done.
5. `AlertEngine`, `MCAlertEngine`, and the abstract `AlertScan` that it implements,
   `AlertEngineProofs` – done.
6. `LogQuery`, `Statistics` on top of it, and `LogReaders`, which composes both with a
   log that changes; `LogQueryProofs`, `LogReadersProofs` – done.
7. `HttpServer`, `MCHttpServer`, `HttpServerProofs`: registration, routing, handlers,
   shutdown – done.
8. Open: an abstract specification that `AlertStore` implements (a set of alerts with a
   life cycle), with the step simulation proved; that the steps of `RuleService` are among
   those that `AlertEngine` assumes of requests, which is by construction so far.

## 3. Modules and the code

### LogStore

One variable `db` holds the fields of `MemoryLogStore`. `timeIndex` and
`sourceIndex` are sequences because their order is used; `levelIndex` and
`keywordIndex` are kept as the number of times each id occurs, because the code
only appends to them and removes from them. `phase` and `batch` are the requests
in flight: `Stamp` is the part of CreateLog and CreateBatchLogs that fixes id and
time without a lock, `Store` is one call of `Store` under the lock, in three
alternatives (there is room; something is evicted; the eviction panics).
`RemoveEntry`, `Insert`, `EvictOldest` are the private methods. The two loops that
hold the lock, `DeleteBySource` and `Cleanup`, are a first step, a step per
iteration and a last step, with `mu` held throughout, so that the slice that
`DeleteBySource` ranges over (`mu.ids`) can be shifted by `Shifted` the way the
backing array is. The totals of `Query` and `Count` appear as `QueryTotal` and `Count`;
the rest of a query is in `LogQuery`.

`BoundedLog` is what the store is to its users: the sequence of the entries that queries
show and the set of those that only take up room. `LogStore!View` is the refinement
mapping: the log is `timeIndex` with every id replaced by its entry (`Timeline`), the rest
of the map is hidden. This log is the argument of every function of `LogQuery` and
`Statistics`, and what changes in `LogReaders`.

### AlertStore

`adb` holds the fields of `MemoryAlertStore`; the indices are again counts, because
the listings sort what they read. An evaluation creates an event (`NewAlertEvent`)
and stores it in a later step (`Store`); what makes it fire belongs to the engine.
Users call `Acknowledge`, `Resolve` and `Delete` at any time. `StartAutoResolve`,
`AutoResolve(id)` and `FinishAutoResolve` are the scan of `AutoResolveExpired`:
a snapshot, then one lock per alert, without looking at the status again. `Cleanup`
holds the lock from `Cleanup` to `CleanupDone`.

### Scheduler

Callers run programs, sequences of Start, Stop, Cancel and IsRunning;
`cmd/server/main.go` is `Start, Cancel, Stop`, with the readiness probe calling
IsRunning. A call is split where it does not hold the mutex: `BeginStart` sets
`running` and releases it, `Register` is the critical section of each start
function, `Launch` is `wg.Add` and the `go` statement, `EndStart` leaves a watcher
behind. `BeginStop` is everything up to `wg.Wait`, with `smu` held until `EndStop`.
`sync.WaitGroup` is modelled with its rule that a waiter which wakes to a counter
that has grown again panics (`Wait`, "released", `WaitPanics`); a panic there ends
the process, which is the step "dead". A ticker's channel holds one tick, also after
the ticker was stopped, and the select statement takes any case that is ready
(`Work`, `Exit`). What a task does when it ticks is one step here (`EndWork`).
`StopNothing` and `BeginStop` are also what a watcher does once the context is
cancelled.

### RuleService

`obj` is what the pointers in the store's map point to; a rule that is deleted stays
in `obj`, because requests that fetched it still hold the pointer. `rules` are the ids
the map holds, `sourceIndex` is again counts. A creation is `ListNames` (validation,
GenerateID and List), `CompareName` (one comparison, through the pointer, with no
lock) and `Create`. An update is `GetByID`, a `WriteField` for each field the body
gives, in the order of the code, `Validate`, and `Update`, which takes the lock and
reads the source of the stored rule. That rule and the one passed in are the same
object, so the comparison of their sources is of one field read twice: the reads, the
removal from the old key and the addition to the new one are steps of their own
(`CompareSource`, `RemoveOldSource`, `AppendNewSource`), and another update may write
the source in between. A write of one field is atomic here; a torn string (Go writes
pointer and length separately) is not modelled. PUT, DELETE, enable and disable are
modelled as the service offers them, although the route table of `cmd/server/main.go`
answers their paths with not found. `rivals` is a history variable for
`DuplicateNeedsRival`.

### AlertEngine and AlertScan

`scan` is the local state of `EvaluateAllRules` and `EvaluateRule`: the pointers still to
be dealt with, the rule being evaluated, what was read of it. Each read of the rule that
a write may separate from the next is a step: the switch in the loop, the switch again
in EvaluateRule, the window with `now`, the source and the level of the query, the
threshold of the comparison, and the copy that `NewAlertEvent` makes. Between any two of
them `WriteField` assigns a field through the pointer (an update, Enable or Disable),
rules are deleted and created, entries get visible up to `MaxDelay` late (the stamp is
taken before the lock), disappear (deleted, cleaned up, evicted or hidden), and `Tick`
lets a minute pass. Ages are relative, so nothing counts up. The rest of the program is
reduced to these steps, which contain what `RuleService` and `LogStore` may do; that
inclusion is by construction and not checked. A `WindowMinutes` that a rejected update
left so large that its product with a minute wraps is a negative window here (`Windows`);
it makes the query fail, and only that rule's evaluation. `touched`, `awake` and `due` are
history variables; `due` are the entries that were in the window when the evaluation took
`now` and have not been removed since, of which `CountsWhatWasThere` says that the query,
when its turn comes, counts those it asks for. Of a rule that is written while it is evaluated,
`EventSaysWhatWasCounted` only says that its count reached a threshold it had: the event may
well name another threshold, source, level or window, for the constructor reads them again.

`AlertScan` is what a scan promises, without stages: it takes the stored rules, deals
with each once, in any order, fires only for rules that were enabled at some moment since
it began, and ends again and again. `AlertEngine!Promise` is the refinement mapping: a
rule is pending until its evaluation, with all its steps, is over.

### LogQuery, Statistics, LogReaders

`LogQuery` has the parameters of a request (`ParseLogQuery`, where what cannot be parsed
leaves the default), the validation with its clipped limit, the filter, the order and
the page as functions of the sequence of stored entries; `Statistics` every report of the
statistics service and the sums of the aggregation service. A list made by ranging over a
map and cut off after a sort is a set of possible answers (`Top`). sort.Slice keeps the
order of equal elements for up to twelve elements, by insertion sort; larger results are
not modelled. Levels and sources are values, a message is its set of `words`, and an error
rate is the pair of numbers that the code divides. `LogReaders` is a client that asks for
page after page, and the reports asked for at any moment, while the log changes. What a
store does at once is several steps here, so that a reader may see more states than there
are, never fewer.

### HttpServer

`phase`, `todo` and `mux` are main: registration in order, the panic of a second
registration, listening, a ListenAndServe that fails and ends the process at once or
later (`ListenFails`), the signal, Shutdown and the exit. `again` chooses between two
programs, the one as written, which registers "/" twice and ends in a panic before it
listens, and the one without the second registration, of which everything else in the
module tells; without it no request would ever be served and nothing could be said of
routes and handlers. `Route`, `Chain` and `ApiRoute` are net/http's choice of a
pattern, the middleware and the route table on a path given as its segments; each handler
is the set of the outcomes of its next service call on the stores, which are reduced to
what a handler can tell of them. A batch stores entry by entry and a creation of a rule
lists before it stores, so these take several steps. `SchedulerRuns` is what the
scheduler's tasks do to the stores meanwhile. A panic of a handler (an eviction that finds
no victim) is recovered and answered 500.

## 4. Runs

| Run | Shows | Bounds, and why they are enough |
|---|---|---|
| `log_store` | nine properties of the store under two concurrent clients, one of them that `LogStore` implements `BoundedLog`; `HiddenOnlyGrow` also says what becomes of an entry that an eviction has hidden, and when a Store loses its own | 4 ids, capacity 3, batches of 2, clock 0..2: eviction from a full store, out-of-order arrival, entries hidden by an eviction that are then deleted or expire, and an id used again all occur |
| `log_store_hidden` | finding: one eviction drops two ids from `timeIndex` | capacity 2, the least with which an entry is hidden |
| `log_store_delete` | finding: `DeleteBySource` leaves entries of the source behind | 3 entries, the least with which the range loop skips one |
| `alert_store` | times, cleanup and the liveness of auto-resolve | 2 events, 2 rules, clock 0..3 with an auto-resolve age and a retention of 1, so that an event can be overdue, resolved, re-acknowledged and old enough to be removed |
| `alert_reopened` | finding: acknowledging a resolved alert makes it active with ResolvedAt set | 1 event |
| `scheduler` | the server's program, a restart, and Start racing Stop: counter, channels, quiet after Stop, calls return, cancelling ends all | 2 tasks, 2 starts, 2 callers plus the watchers; two tasks suffice because tasks do not interact except through the counter and the map |
| `scheduler_racing` | finding: a Stop between Start's flag and its launches returns and the tasks start after it | one program |
| `rule_service` | no rule loses its name or gets a window or threshold of zero, every rule listed, no resurrection, what the name check does catch | 2 rules, 2 requests, two drafts of one name, three bodies (a rename, a move, a move that is rejected): two racing updates of a rule, an update racing a deletion, two racing creations and a creation racing a rename occur |
| `rule_moved` | finding: a rule moved by an update is not listed under its new source | the same |
| `alert_engine` | an event says what was counted although the rule may be written meanwhile; the count includes what was in the window at `now`, although a minute passes before the query; a condition that goes on to hold fires in scan after scan, whatever the other rule does; `AlertEngine` implements `AlertScan` | 2 rules, 2 entries of two sources, windows, evaluations and delays of a minute: a rule edited at each read, deleted and created again or switched off in the middle of a scan, a rule whose query always fails beside one that fires, an entry at either end of the window, one that leaves it before the query. Two entries let a condition hold for good only if time stands still in the end, so `KeepsFiring` says nothing of time here |
| `log_readers` | what a client that turns pages may miss or see twice; no limit and offset make a page that is no slice; the reports agree with each other, with Count and with the aggregation, also where entries are left out; what the trends miss | 4 entries of two kinds, pages of 1, reports of at most 2 entries (so that the clipping, `query.go:51`, happens), 2 units to the hour, 2 hours to the day, 3 changes between pages, arrivals a unit late |
| `http_api` | the program as written never serves; no request changes a rule or an alert; answers tell what was done; every request is answered | 2 clients, 47 requests over all routes and some paths outside them, a full store of 2 entries, batches of 2, two creations of one name |

Identifiers and clients are symmetric in the safety runs of `LogStore` and
`RuleService` (no value of theirs is compared with another by order). Ids are never
used again in `RuleService`, so its runs stop when all are used up and do not check
deadlock. The scheduler may really stop, when every
program is finished and the context is cancelled, so its runs do not check deadlock;
`CallsReturn` says that nothing stops too early. The server ends by a panic or by
`Exit`, so `http_api` does not check deadlock either; `EveryRequestIsAnswered` says that no
request is left behind before. In the other runs a state without a successor is a deadlock
and none is found.

`EffectiveAfter` is exercised with a positive `AutoResolveAfter`; the default is
covered by the proofs, which hold for every value.

### Fairness

* `AlertStore`: strong fairness of `StartAutoResolve` (the ticker keeps firing) and of
  each `AutoResolve(id)` step: it needs the store's mutex, which users and cleanup take
  again and again, and Go's mutex hands itself to a waiter that has starved for a
  millisecond. Weak fairness of the loops under the lock, and of the clock.
  Users are never assumed to do anything.
* `Scheduler`: strong fairness of every process's calls for the same reason; a task's
  work ends (weak); a select whose stop case stays ready takes it in the end (strong),
  because Go's select picks uniformly. Ticks are not assumed. Callers that have begun
  their program are assumed to go on with it.
* `AlertEngine`: weak fairness of the scan as a whole: the ticker keeps firing and no step
  waits for anything but a mutex held for one operation, so a step of the scan is always
  enabled. Nothing is assumed of requests, entries and time; `KeepsFiring` says for which
  rules (their condition holds from some time on and nobody writes them) a result follows.
* `HttpServer`: weak fairness of main's start and of each connection's goroutine; the
  stores' mutexes are released by a deferred call also when a handler panics. Main listens
  in the end unless it fails to; nothing is assumed of failures, requests, signals, the end
  of Shutdown's wait and the scheduler.

## 5. Proofs

All for every value of the constants, under the named assumptions in the modules
(positive capacity, natural bounds, a normalisation that maps keywords to keywords,
well-typed programs, request bodies, edits and kinds of entries, process names distinct,
generated identifiers that are not names of operations, request paths that are non-empty
sequences of strings, as net/http's are once cleaned).

* `LogStoreProofs`: `IndInv` says that between any two steps the store satisfies
  `StoreInv` (types, capacity, `TimeSound`, `TimeSorted`, `SourceSound`, exact level and
  keyword indices, and that a full store has an id in `timeIndex`), that the entries in
  flight have ids that nothing else has and times not in the future, and what the loops
  under the lock hold. Capacity alone is not inductive: it needs that a full store can
  evict, and that is preserved because every insertion puts an id into `timeIndex` and
  every removal that empties `timeIndex` leaves the store less than full. Soundness needs
  that no request carries the id of a stored entry. The lemmas say what `RemoveAt` and
  `InsertAt` do to a sequence without duplicates, then what each operation does to
  `StoreInv`, then what each action does to `IndInv`. `QueryNeverOvercounts` follows
  because `timeIndex` lists live entries without repetition, so the positions of the
  matches map one to one into the entries that Count counts. `StoreIsBoundedLog` maps every
  action to a step of `BoundedLog` or a stutter. Removing an id from `timeIndex` removes its
  entry from the timeline (`RemovalShows`, which needs that `timeIndex` has no duplicates),
  an insertion puts it after all that are not newer (`InsertionShows`: sort.Search looks at
  two neighbours only, the rest is that `timeIndex` is sorted), an eviction drops the first
  two and hides the second (`EvictionShows`).
* `AlertStoreProofs`: every step puts an event in, takes one out, or replaces one by
  itself with another status; one lemma for each, then the actions. The action
  properties follow from the same invariant: a recorded resolution is never later than
  now, so a second one moves it forward.
* `SchedulerProofs`: `IndInv` has two parts. `AnyUse` holds whatever the callers do:
  the counter is the cardinality of the set of live goroutines, a channel in the map
  belongs to a task that was made and is not closed, the mutex is held by exactly the
  process that is stopping, and a run in the making belongs to one caller and has made
  a prefix of its tasks. `SequentialUse` holds besides when one caller does all starting,
  stopping and cancelling and starts nothing after it has cancelled, as main does: no
  Start is under way while a Stop is, and a service that is not running is quiet. From
  it follow that Stop waits for every task (`StopWaits`), which is what `scheduler_racing`
  refutes for unrestricted use, and that the WaitGroup is not reused under a waiter.
* `RuleServiceProofs`: `IndInv` adds to the properties what the requests in progress
  know: an update has only fields left to write that its body gives (so every write
  keeps name, window and threshold positive, rejected or not; the longest window is the one
  limit of `Validate` that a rejected update can overstep), a request inside
  `store.Update` works on a stored rule (the lock keeps deletions out), only such a request may leave an id listed
  nowhere, and a creation has compared its name with every stored rule that is neither
  still ahead of it nor one of its rivals. `IdsNew`, proved on top of it, says that the
  id of a rule being created has never been stored, which `NoResurrection` needs.

* `AlertEngineProofs`: `IndInv` adds to the types what an evaluation knows: the rule has
  been enabled at some moment since the scan began (`awake`) and is no longer to be dealt
  with, the total has reached the threshold that was compared, and, unless the rule is
  `touched`, source, level, window and threshold read so far are still those of the rule. `EventSaysWhatWasCounted` follows at the step
  that makes the event. `ImplementsAlertScanSafely` maps every action to a step of
  `AlertScan` or a stutter: the ends of an evaluation are `PassOver` or `Fire`, requests are
  `ChangeRules`, the reads in between stutter; that `Fire` is allowed needs `awake`.
  `CountsAreComplete` needs `DueInv`: until the query, every entry of `due` stays in the range
  that was computed at `now`, because the entries and the range age together
  (`TickKeepsDue`).
* `HttpServerProofs`: `StartInv` says which prefix of the registrations the mux holds, so
  that the sixth is reached with "/" registered. For `RulesStayAsCreated` the lemmas about
  routing show that the handlers that write a rule or an alert are reached only with
  "enable", "disable", "acknowledge" or "resolve" as the last segment (`RouteInv`), and
  these are the identifiers of nothing (`Harmless`). For `AnswerTellsEffect`, `EffectInv`
  says of a request under way that it was routed to its handler by its method and path, and
  how much of its work is done: nothing for a handler that only reads or that has not got to
  its call, the entries stored so far for a batch; an answer is written at the step that
  ends the work, so it tells what was done. `Refused` requests never get to a handler.
* `LogQueryProofs`: `Precedes` orders the matching entries strictly, so the number of
  those before an entry, its place, numbers them without gaps; the choice by which
  `InOrder` is defined is therefore unique, and a page holds exactly the entries whose
  places lie between its offset and its end (`QueryAnswers`), in order (`PagesAreInOrder`);
  `PagesAreAlwaysSlices`, in `LogReadersProofs`, applies this to every log that can come about.
* `LogReadersProofs`: `PagingIsOffByWhatChanged` speaks of a client that has finished, and
  needs an account that holds at every page (`PagingInv`): the entries that have
  moved to places before the client's offset without having been seen are at most as many
  as disappeared, and those that were seen and have moved back in front of it, with the
  repetitions so far, at most as many as arrived. An arrival moves at most one entry across
  the offset, a disappearance one the other way (`ArrivalPushesOneBack`,
  `LossPullsOneForward`); a page settles the account (`TurnKeeps`).
  `UndisturbedPagingIsComplete` is the case in which nothing changed. The agreement
  of the reports is proved by counting: the pairs of a key and a number up to its tally map
  one to one to the sample, so a tally adds up to it whatever the key (`KeysAddUp`); the
  sample is the oldest entries of the period because the log is in order of time; hours
  and days are quotients, of which only monotonicity and shifts are needed.

Every invariant and every action property of the passing runs is a theorem.
`QueryNeverOvercounts` and `IndicesExact`, which are parts or consequences of the inductive
invariants, are theorems only. Only
model-checked: the liveness properties `OverdueGetResolved`, `CallsReturn`,
`CancelEndsAll`, `KeepsFiring`, `EveryRequestIsAnswered` and the liveness part of
`ImplementsAlertScan`, because temporal reasoning under fairness is out of the prover's
reach, and the five properties that runs refute. No module declares a recursive operator:
what a recursive definition computes for every input could not be proved with the
installed provers.

## 6. What is not modelled

* Contents that no property tells apart: messages but for the words a query looks for,
  metadata, alert names and priorities, descriptions and tags.
* Statistics counters of the stores, logging, formatting, configuration files.
* Results of more than twelve entries in the order of entries of one time (sort.Slice is
  not stable there).
* Code that runs in no program: the rate limiter, the window manager, the cleanup service
  (what it would call is in `LogStore` and `AlertStore`), `config_handler.go` and
  `query_handler.go`, which nothing constructs, and the packages `httputil`, `syncutil` and
  `timeutil`, which nothing imports. A model of them would have to invent their callers.
* Loading of the configuration, the logger and its sinks, error values and responses: they
  keep no state that another part reads. The values that services read from the
  configuration are constants of the modules.
* Unsynchronised reads of stored events by the handlers that encode them, and the encoding
  itself. Torn reads and writes of strings.
* Time limits of the HTTP server, and connections that break: no handler looks at its
  request's context.

## 7. Findings

Disagreements between a comment or a document and the code, each shown by a run: the
first five by a run that TLC refutes, the others by a property, named here, that holds and
says what the code does instead or how far it keeps to the text.

* An eviction hides a second entry (`memory_log_store.go:296`), run `log_store_hidden`.
* `DeleteBySource` skips entries (`:232`), run `log_store_delete`.
* An acknowledged alert may carry a resolution time (`alert_event.go:103`), run
  `alert_reopened`.
* A Stop that races a Start returns before the tasks are launched
  (`scheduler_service.go:50`), run `scheduler_racing`.
* `sourceIndex` never follows a rule that an update moves (`memory_rule_store.go:141`), run
  `rule_moved`.
* A store of which all but one entry are hidden panics and loses the new entry
  (`memory_log_store.go:296`), `HiddenOnlyGrow` in `log_store`.
* An update that is refused, for a window above 1440 minutes, has already been written to the
  stored rule, which is evaluated with that window; one whose product with a minute wraps
  makes every evaluation fail (`rule_service.go:128`). `RulesStayPositive` in `rule_service`
  keeps of `Validate` what survives, and says nothing of the longest window. No route of
  `main.go` reaches an update, so this and the moved rule need a caller of the service.
* The pattern "/" is registered twice, so the program ends in a panic before it listens
  (`main.go:292`), `AsWrittenNeverServes` in `http_api`.
* A POST or PUT that declares its content type is refused even when it is JSON
  (`middleware.go:80`), `AnswerTellsEffect` in `http_api`.
* No path reaches the handlers that read, update or delete a single rule or alert, or
  switch a rule with an identifier that exists (`main.go:129`), `RulesStayAsCreated` in
  `http_api`.
* The daily report's SourceCount is its number of entries (`stats_service.go:224`),
  `StatisticsAgree` in `log_readers`.
