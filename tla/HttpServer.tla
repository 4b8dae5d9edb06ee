----------------------------- MODULE HttpServer -----------------------------
(***************************************************************************)
(* The HTTP side of the server: main (cmd/server/main.go) registers its    *)
(* patterns, serves requests and shuts down; a request passes the chain of *)
(* middleware (internal/handler/middleware.go), the route table and a      *)
(* handler (internal/handler), whose service calls work on the three       *)
(* stores.  The stores are reduced to what a handler can tell of them;     *)
(* LogStore, RuleService and AlertStore model them in full.                *)
(*                                                                         *)
(* As written, main registers the pattern "/" twice and panics before it   *)
(* listens (main.go:292).  Both programs are modelled, the one as written  *)
(* and the one without the second registration, of which the rest of the   *)
(* module tells.                                                           *)
(*                                                                         *)
(* A path is the sequence of its segments: /api/rules/ is                  *)
(* <<"api", "rules", "">>.                                                 *)
(***************************************************************************)
EXTENDS Integers, Sequences, FiniteSets, SequencesExt

CONSTANTS
  Clients,
  Requests,    \* for each client, the requests it may send
  LogIds, RuleIds, AlertIds,
  Capacity,    \* most entries of the log store
  WebDir       \* is there a directory with an index.html to serve?

NoRule == [name |-> "", enabled |-> FALSE]
Json == [text |-> "application/json", length |-> 16]
NoType == [text |-> "", length |-> 0]

(* What the program can tell of the body or the parameters of a request:    *)
(* absent or not decodable, a level that does not exist, rejected by a      *)
(* validation, or valid.  entries is the length of a batch.                 *)
Inputs == {"broken", "bad level", "invalid", "valid"}
Request == [method : {"GET", "POST", "PUT", "DELETE", "OPTIONS"},
            path : Seq(STRING) \ {<<>>},
            type : [text : STRING, length : Nat], input : Inputs, entries : Nat, name : STRING]

(* Identifiers are generated; none is empty or the name of an operation. *)
ASSUME HttpAssumption ==
  /\ Requests \in [Clients -> SUBSET Request]
  /\ Capacity \in Nat \ {0}
  /\ WebDir \in BOOLEAN
  /\ {"", "enable", "disable", "acknowledge", "resolve"}
       \cap (LogIds \cup RuleIds \cup AlertIds) = {}

VARIABLES
  again,   \* does main register "/" again?
  phase,   \* of main
  todo,    \* patterns that main still has to register
  mux,     \* patterns that are registered
  db,      \* the stores
  conn     \* for each client, its connection and the request on it
hvars == <<again, phase, todo, mux, db, conn>>

Free == [stage |-> "idle"]

-----------------------------------------------------------------------------
(* Routing. *)

(* net/http: the longest pattern that is the path or, with a slash at its   *)
(* end, begins it.                                                          *)
Covers(pattern, path) ==
  \/ pattern = path
  \/ /\ Last(pattern) = "" /\ Len(pattern) <= Len(path)
     /\ Front(pattern) = SubSeq(path, 1, Len(pattern) - 1)

Longest(patterns, path) ==
  CHOOSE p \in {q \in patterns : Covers(q, path)} :
    \A q \in patterns : Covers(q, path) => Len(q) <= Len(p)

Reply(status) == [status |-> status, handler |-> ""]
Call(handler) == [status |-> 0, handler |-> handler]

(* A switch on the method. *)
ByMethod(handlers, method) ==
  IF method \in DOMAIN handlers THEN Call(handlers[method]) ELSE Reply(405)

LogRoute(r, pattern) ==
  CASE pattern = <<"api", "logs">> ->
         IF r.method = "DELETE" /\ r.input # "valid" THEN Reply(405)   \* no source given
         ELSE ByMethod([POST |-> "CreateLog", GET |-> "QueryLogs", DELETE |-> "DeleteBySource"],
                       r.method)
    [] pattern = <<"api", "logs", "batch">> ->
         ByMethod([POST |-> "CreateBatchLogs"], r.method)
    [] pattern = <<"api", "logs", "">> ->
         ByMethod([GET |-> "GetLog", DELETE |-> "DeleteLog"], r.method)

(* Fault: the rest is an identifier. *)
RestIsOneSegment(rest) == Len(rest) = 1

RestIsEmpty(rest) == rest = <<"">>

(* What follows /api/rules/ or /api/alerts/.  The answer is empty when      *)
(* nothing follows; only when something does is it compared with nothing,   *)
(* so the branch that serves single rules and alerts is never taken.        *)
SubRoute(r, single, actions) ==
  LET rest == SubSeq(r.path, 3, Len(r.path)) IN
  IF rest = <<"">> THEN Reply(200)
  ELSE IF RestIsEmpty(rest) THEN ByMethod(single, r.method)
  ELSE IF Len(rest) = 1 /\ rest[1] \in DOMAIN actions
       THEN ByMethod([POST |-> actions[rest[1]]], r.method)
  ELSE Reply(404)

RuleRoute(r, pattern) ==
  IF pattern = <<"api", "rules">>
  THEN ByMethod([POST |-> "CreateRule", GET |-> "ListRules"], r.method)
  ELSE SubRoute(r, [GET |-> "GetRule", PUT |-> "UpdateRule", DELETE |-> "DeleteRule"],
                   [enable |-> "EnableRule", disable |-> "DisableRule"])

AlertRoute(r, pattern) ==
  CASE pattern = <<"api", "alerts">> -> ByMethod([GET |-> "ListAlerts"], r.method)
    [] pattern = <<"api", "alerts", "active", "count">> ->
         ByMethod([GET |-> "CountActive"], r.method)
    [] OTHER -> SubRoute(r, [GET |-> "GetAlert", DELETE |-> "DeleteAlert"],
                            [acknowledge |-> "AcknowledgeAlert", resolve |-> "ResolveAlert"])

StatsRoute(r, pattern) ==
  ByMethod([GET |-> IF pattern = <<"api", "stats">> THEN "GetStatistics"
                    ELSE IF Last(pattern) = "daily" THEN "GetDailyReport"
                    ELSE "GetTrends"], r.method)

ApiPatterns ==
  {<<"api", "logs">>, <<"api", "logs", "batch">>, <<"api", "logs", "">>,
   <<"api", "rules">>, <<"api", "rules", "">>,
   <<"api", "alerts">>, <<"api", "alerts", "active", "count">>, <<"api", "alerts", "">>,
   <<"api", "stats">>, <<"api", "stats", "hourly">>, <<"api", "stats", "sources">>,
   <<"api", "stats", "daily">>, <<"api", "stats", "error-rate">>}

ApiRoute(r) ==
  IF \A p \in ApiPatterns : ~Covers(p, r.path) THEN Reply(404)
  ELSE LET pattern == Longest(ApiPatterns, r.path) IN
       CASE pattern[2] = "logs"   -> LogRoute(r, pattern)
         [] pattern[2] = "rules"  -> RuleRoute(r, pattern)
         [] pattern[2] = "alerts" -> AlertRoute(r, pattern)
         [] pattern[2] = "stats"  -> StatsRoute(r, pattern)

(* ContentTypeChecker compares ten characters of the type with all sixteen  *)
(* of "application/json".                                                   *)
TenCharacters(type) == IF type.length > 10 THEN [type EXCEPT !.length = 10] ELSE type

WrongType(r) ==
  r.method \in {"POST", "PUT"} /\ TenCharacters(r.type) \notin {Json, NoType}

(* The chain around the API, outermost first: ContentTypeChecker,           *)
(* RequestID, Recover, CORS, RequestLogger.                                 *)
Chain(r) ==
  IF WrongType(r) THEN Reply(415)
  ELSE IF r.method = "OPTIONS" THEN Reply(200)
  ELSE ApiRoute(r)

(* Files of the directory, or one page for every path. *)
Home(r) == IF r.path = <<"">> \/ ~WebDir THEN Reply(200) ELSE Reply(404)

(* net/http redirects /api to /api/. *)
Route(r) ==
  LET pattern == Longest(mux, r.path) IN
  CASE Append(r.path, "") \in mux -> Reply(301)
    [] pattern = <<"api", "">> -> Chain(r)
    [] pattern = <<"">> -> Home(r)
    [] OTHER -> Call("Health")
-----------------------------------------------------------------------------
(* Handlers.  Each gives the set of outcomes of its next service call, for  *)
(* the connection k: the status it answers, the stores after it, and how    *)
(* much of what was asked for has been done.                                *)

Panic == 0        \* the handler panicked
Unfinished == 1   \* there is more to do

Answer(status) == {[status |-> status, db |-> db, did |-> 0]}
Done(status, d) == {[status |-> status, db |-> d, did |-> 1]}
When(condition, outcomes) == IF condition THEN outcomes ELSE {}
Target(k) == Last(k.req.path)   \* extractIDFromPath

(* Fault: a store that is full by one more entry. *)
EvictionsLate == IF Cardinality(db.logs) <= Capacity THEN {{}} ELSE {{x} : x \in db.logs}

(* logStore.Store.  A full store evicts an entry first, which may panic.    *)
Evictions == IF Cardinality(db.logs) < Capacity THEN {{}} ELSE {{x} : x \in db.logs}

StoreLog(status) ==
  (UNION {Done(status, [db EXCEPT !.logs = (@ \ gone) \cup {id}]) :
            id \in LogIds \ db.logs, gone \in Evictions})
  \cup {[status |-> Panic, db |-> [db EXCEPT !.logs = @ \ gone], did |-> 0] :
          gone \in Evictions \ {{}}}

CreateLog(k) ==
  When(k.req.input \in {"broken", "bad level"}, Answer(400))
  \cup When(k.req.input = "invalid", Answer(500))
  \cup When(k.req.input = "valid", StoreLog(201))

(* Everything is validated before the first entry is stored; then each is   *)
(* stored under a lock of its own.                                          *)
CreateBatchLogs(k) ==
  LET left == k.req.entries - k.did
      good == k.req.input = "valid" IN
  When(k.req.input = "broken" \/ k.req.entries = 0, Answer(400))
  \cup When(k.req.input \in {"bad level", "invalid"} /\ k.req.entries > 0, Answer(500))
  \cup When(good /\ left > 1, StoreLog(Unfinished))
  \cup When(good /\ left = 1, StoreLog(201))

GetLog(k) ==
  When(Target(k) = "", Answer(400))
  \cup When(Target(k) # "" /\ Target(k) \notin db.logs, Answer(404))
  \cup When(Target(k) \in db.logs, Answer(200))

QueryLogs(k) == Answer(IF k.req.input = "invalid" THEN 500 ELSE 200)

DeleteLog(k) ==
  When(Target(k) = "", Answer(400))
  \cup When(Target(k) # "" /\ Target(k) \notin db.logs, Answer(404))
  \cup When(Target(k) \in db.logs, Done(204, [db EXCEPT !.logs = @ \ {Target(k)}]))

(* Which entries of the source it removes is the subject of LogStore. *)
DeleteBySource(k) == UNION {Done(200, [db EXCEPT !.logs = kept]) : kept \in SUBSET db.logs}

(* Fault: the answer to a rejected rule is not followed by a return. *)
CreateRuleGoingOn(k) ==
  UNION {Done(IF k.req.input = "valid" THEN 201 ELSE 400,
              [db EXCEPT !.rules[id] = [name |-> k.req.name, enabled |-> TRUE]]) :
           id \in {x \in RuleIds : db.rules[x] = NoRule}}

(* The name is looked for in a listing, and the rule is stored later.       *)
CreateRule(k) ==
  LET taken == \E x \in RuleIds : db.rules[x].name = k.req.name IN
  When(k.req.input # "valid", Answer(400))
  \cup When(k.req.input = "valid" /\ ~k.checked /\ taken, Answer(409))
  \cup When(k.req.input = "valid" /\ ~k.checked /\ ~taken, Answer(Unfinished))
  \cup When(k.checked,
         UNION {Done(201, [db EXCEPT !.rules[id] = [name |-> k.req.name, enabled |-> TRUE]]) :
                  id \in {x \in RuleIds : db.rules[x] = NoRule}})

Stored(id) == id \in RuleIds /\ db.rules[id] # NoRule

GetRule(k) == Answer(IF Stored(Target(k)) THEN 200 ELSE 404)

(* The fields are written before they are validated; a body without         *)
(* "enabled" disables the rule.                                             *)
UpdateRule(k) ==
  When(k.req.input = "broken", Answer(400))
  \cup When(k.req.input # "broken" /\ ~Stored(Target(k)), Answer(404))
  \cup When(k.req.input # "broken" /\ Stored(Target(k)),
         UNION {Done(IF k.req.input = "valid" THEN 200 ELSE 400,
                     [db EXCEPT !.rules[Target(k)] = [name |-> k.req.name, enabled |-> e]]) :
                  e \in BOOLEAN})

DeleteRule(k) ==
  IF Stored(Target(k)) THEN Done(204, [db EXCEPT !.rules[Target(k)] = NoRule]) ELSE Answer(404)

SwitchRule(k, on) ==
  IF Stored(Target(k)) THEN Done(200, [db EXCEPT !.rules[Target(k)].enabled = on])
  ELSE Answer(404)

Raised(id) == id \in AlertIds /\ db.alerts[id] # "none"

GetAlert(k) == Answer(IF Raised(Target(k)) THEN 200 ELSE 404)

ChangeAlert(k, status, to) ==
  IF Raised(Target(k)) THEN Done(status, [db EXCEPT !.alerts[Target(k)] = to]) ELSE Answer(404)

GetStatistics(k) ==
  Answer(CASE k.req.input = "broken" -> 400 [] k.req.input = "invalid" -> 500 [] OTHER -> 200)

GetDailyReport(k) == Answer(IF k.req.input = "broken" THEN 400 ELSE 200)

(* The trends, the source statistics, the listings, the active count,       *)
(* health, readiness, whatever its checks say, and info.                    *)
AlwaysFine == Answer(200)

Outcomes(k) ==
  CASE k.handler = "CreateLog"        -> CreateLog(k)
    [] k.handler = "CreateBatchLogs"  -> CreateBatchLogs(k)
    [] k.handler = "GetLog"           -> GetLog(k)
    [] k.handler = "QueryLogs"        -> QueryLogs(k)
    [] k.handler = "DeleteLog"        -> DeleteLog(k)
    [] k.handler = "DeleteBySource"   -> DeleteBySource(k)
    [] k.handler = "CreateRule"       -> CreateRule(k)
    [] k.handler = "GetRule"          -> GetRule(k)
    [] k.handler = "UpdateRule"       -> UpdateRule(k)
    [] k.handler = "DeleteRule"       -> DeleteRule(k)
    [] k.handler = "EnableRule"       -> SwitchRule(k, TRUE)
    [] k.handler = "DisableRule"      -> SwitchRule(k, FALSE)
    [] k.handler = "GetAlert"         -> GetAlert(k)
    [] k.handler = "AcknowledgeAlert" -> ChangeAlert(k, 200, "acknowledged")
    [] k.handler = "ResolveAlert"     -> ChangeAlert(k, 200, "resolved")
    [] k.handler = "DeleteAlert"      -> ChangeAlert(k, 204, "none")
    [] k.handler = "GetStatistics"    -> GetStatistics(k)
    [] k.handler = "GetDailyReport"   -> GetDailyReport(k)
    [] OTHER                          -> AlwaysFine
-----------------------------------------------------------------------------
(* main *)

HealthPatterns == <<<<"health">>, <<"ready">>, <<"info">>>>

(* Fault: a second registration of a pattern is left out. *)
RegistrationsOnce(twice) == HealthPatterns \o <<<<"">>, <<"api", "">>>>

(* The order of registration on the root mux: the home page, the API and,   *)
(* as written, the home page again.                                         *)
Registrations(twice) ==
  HealthPatterns \o <<<<"">>, <<"api", "">>>> \o IF twice THEN <<<<"">>>> ELSE <<>>

Init ==
  /\ again \in BOOLEAN
  /\ phase = "registering"
  /\ todo = Registrations(again)
  /\ mux = {}
  /\ db = [logs |-> {}, rules |-> [x \in RuleIds |-> NoRule],
           alerts |-> [x \in AlertIds |-> "none"]]
  /\ conn = [c \in Clients |-> Free]

Register ==
  /\ phase = "registering" /\ todo # <<>>
  /\ Head(todo) \notin mux
  /\ mux' = mux \cup {Head(todo)}
  /\ todo' = Tail(todo)
  /\ UNCHANGED <<again, phase, db, conn>>

(* net/http panics; nothing recovers it in main. *)
RegisterAgain ==
  /\ phase = "registering" /\ todo # <<>>
  /\ Head(todo) \in mux
  /\ phase' = "crashed"
  /\ UNCHANGED <<again, todo, mux, db, conn>>

Listen ==
  /\ phase = "registering" /\ todo = <<>>
  /\ phase' = "serving"
  /\ UNCHANGED <<again, todo, mux, db, conn>>

(* ListenAndServe fails, at once or later: its goroutine ends the process,  *)
(* with the requests that are under way.                                    *)
ListenFails ==
  /\ \/ phase = "registering" /\ todo = <<>>
     \/ phase \in {"serving", "stopping"}
  /\ phase' = "exited"
  /\ UNCHANGED <<again, todo, mux, db, conn>>

(* A signal cancels the context and stops the scheduler; requests are still *)
(* accepted until that is over and Shutdown closes the listener.            *)
Signal ==
  /\ phase = "serving"
  /\ phase' = "stopping"
  /\ UNCHANGED <<again, todo, mux, db, conn>>

Shutdown ==
  /\ phase = "stopping"
  /\ phase' = "shutting down"
  /\ UNCHANGED <<again, todo, mux, db, conn>>

(* Shutdown returns when no request is left, or after ten seconds; then the *)
(* process ends, with the requests that are still under way.                *)
Exit ==
  /\ phase = "shutting down"
  /\ phase' = "exited"
  /\ UNCHANGED <<again, todo, mux, db, conn>>

(* The scheduler's tasks, started before the first registration: alerts are *)
(* raised, resolved and cleaned up, entries are cleaned up.                 *)
SchedulerRuns ==
  /\ phase \in {"registering", "serving", "stopping"}
  /\ \/ \E a \in AlertIds, s \in {"none", "active", "resolved"} :
          db' = [db EXCEPT !.alerts[a] = s]
     \/ \E kept \in SUBSET db.logs : db' = [db EXCEPT !.logs = kept]
  /\ UNCHANGED <<again, phase, todo, mux, conn>>

-----------------------------------------------------------------------------
(* Requests *)

Accept(c, r) ==
  /\ phase \in {"serving", "stopping"}
  /\ conn[c] = Free
  /\ LET to == Route(r) IN
     conn' = [conn EXCEPT ![c] =
       [stage |-> IF to.handler = "" THEN "answering" ELSE "handling", req |-> r,
        handler |-> to.handler, status |-> to.status, did |-> 0, checked |-> FALSE]]
  /\ UNCHANGED <<again, phase, todo, mux, db>>

(* Fault: nothing recovers the panic of a handler. *)
NotRecovered(status) == status

Recover(status) == IF status = Panic THEN 500 ELSE status

Handle(c) ==
  /\ conn[c].stage = "handling" /\ phase \in {"serving", "stopping", "shutting down"}
  /\ \E o \in Outcomes(conn[c]) :
       /\ db' = o.db
       /\ conn' = [conn EXCEPT ![c] =
            [@ EXCEPT !.status = Recover(o.status), !.did = conn[c].did + o.did,
                      !.checked = TRUE,
                      !.stage = IF o.status = Unfinished THEN "handling" ELSE "answering"]]
  /\ UNCHANGED <<again, phase, todo, mux>>

(* The answer is written; whether it arrives makes no difference here.      *)
WriteAnswer(c) ==
  /\ conn[c].stage = "answering" /\ phase \in {"serving", "stopping", "shutting down"}
  /\ conn[c].status # Panic
  /\ conn' = [conn EXCEPT ![c] = Free]
  /\ UNCHANGED <<again, phase, todo, mux, db>>

Serve(c) == Handle(c) \/ WriteAnswer(c)

Next ==
  \/ Register \/ RegisterAgain \/ Listen \/ ListenFails \/ Signal \/ Shutdown \/ Exit
  \/ SchedulerRuns
  \/ \E c \in Clients : (\E r \in Requests[c] : Accept(c, r)) \/ Serve(c)

Spec == Init /\ [][Next]_hvars

(* main goes on, and so does every goroutine that serves a connection: the  *)
(* stores' mutexes are released also by a panic.                            *)
FairSpec ==
  /\ Spec
  /\ WF_hvars(Register \/ RegisterAgain \/ Listen)
  /\ \A c \in Clients : WF_hvars(Serve(c))
-----------------------------------------------------------------------------
(* Properties *)

(* The names that rules may have. *)
Names == {NoRule.name} \cup UNION {{r.name : r \in Requests[c]} : c \in Clients}

(* Variables have their types, and a connection on which nothing is being   *)
(* done has an answer.                                                      *)
TypeOK ==
  /\ again \in BOOLEAN
  /\ phase \in {"registering", "crashed", "serving", "stopping", "shutting down", "exited"}
  /\ db.logs \in SUBSET LogIds /\ Cardinality(db.logs) <= Capacity
  /\ db.rules \in [RuleIds -> [name : Names, enabled : BOOLEAN]]
  /\ db.alerts \in [AlertIds -> {"none", "active", "acknowledged", "resolved"}]
  /\ DOMAIN conn = Clients
  /\ \A c \in Clients : conn[c] # Free =>
       /\ conn[c].stage \in {"handling", "answering"} /\ conn[c].req \in Requests[c]
       /\ conn[c].stage = "answering" => conn[c].status \in 200..599
       /\ conn[c].stage = "handling" => conn[c].handler # ""

(* As written, the program never serves a request: it ends in a panic while *)
(* the scheduler is already running (main.go:58, 292-297).                  *)
AsWrittenNeverServes == again => phase \in {"registering", "crashed"}

(* Whatever requests come, a rule stays as it was created and only the      *)
(* scheduler changes alerts: no path reaches the handlers that change a     *)
(* rule or an alert with an identifier that one has (main.go:128, 188).     *)
RulesStayAsCreated ==
  [][/\ \A x \in RuleIds : db.rules[x] # NoRule => db'.rules[x] = db.rules[x]
     /\ (\E c \in Clients : Handle(c)) => db'.alerts = db.alerts]_hvars

(* The answer tells what the request has done: all of it when it reports a  *)
(* creation or a deletion, nothing when it blames the request, not all of   *)
(* it when it reports a failure of the server; and a POST or PUT that       *)
(* declares its content type, be it JSON, is refused and does nothing       *)
(* (middleware.go:80-84).                                                   *)
AnswerTellsEffect ==
  \A c \in Clients : LET k == conn[c] IN
    k # Free /\ k.stage = "answering" =>
      /\ k.status \in {201, 204} =>
           k.did = IF k.handler = "CreateBatchLogs" THEN k.req.entries ELSE 1
      /\ k.status \in 400..499 \/ k.req.method = "GET" => k.did = 0
      /\ k.status = 500 =>
           k.did < IF k.handler = "CreateBatchLogs" THEN k.req.entries ELSE 1
      /\ k.req.method \in {"POST", "PUT"} /\ k.req.type # NoType
           /\ k.req.path[1] = "api" /\ Len(k.req.path) > 1 =>
           k.status = 415 /\ k.did = 0

(* A request that was accepted is answered, also when its handler panics,   *)
(* unless the process ends first (main.go:349).                             *)
EveryRequestIsAnswered ==
  \A c \in Clients : conn[c] # Free ~> (conn[c] = Free \/ phase = "exited")
=============================================================================
