----------------------------- MODULE Scheduler -----------------------------
(***************************************************************************)
(* The scheduler service (internal/service/scheduler_service.go): Start    *)
(* launches one goroutine per periodic task and one that waits for the     *)
(* context, Stop closes the tasks' channels and waits for the goroutines.  *)
(*                                                                         *)
(* The callers are main, the goroutines Start leaves behind (watchers) and *)
(* the readiness probe.  What a caller does is a sequence of calls, its    *)
(* program; cmd/server/main.go is the program Start, Cancel, Stop.         *)
(***************************************************************************)
EXTENDS Integers, Sequences, FiniteSets

CONSTANTS
  Callers,            \* goroutines that call the service
  Programs,           \* the programs considered, each in [Callers -> Seq(Calls)]
  EnableAutoCleanup,  \* config.Storage.EnableAutoCleanup
  EnableAutoResolve,  \* config.Alert.EnableAutoResolve
  MaxStarts           \* bound: calls of Start that take effect

Calls == {"Start", "Stop", "Cancel", "IsRunning"}
Runs == 1..MaxStarts

ASSUME BoundAssumption == MaxStarts \in Nat
ASSUME ConfigAssumption == EnableAutoCleanup \in BOOLEAN /\ EnableAutoResolve \in BOOLEAN
ASSUME ProgramsAssumption == Programs \subseteq [Callers -> Seq(Calls)]
ASSUME ProcessAssumption == Callers \cap Runs = {} /\ 0 \notin Callers

(* The tasks in the order Start launches them. *)
Order ==
  <<"alert_scan">>
  \o (IF EnableAutoCleanup THEN <<"log_cleanup">> ELSE <<>>)
  \o (IF EnableAutoResolve THEN <<"alert_auto_resolve">> ELSE <<>>)
  \o <<"alert_cleanup">>
TaskNames == {Order[i] : i \in DOMAIN Order}

(* A task is identified by the run of Start that made it and its name; so   *)
(* are its ticker and its stop channel.                                     *)
Tasks == Runs \X TaskNames
Procs == Callers \cup Runs     \* the watcher of a run is named by the run
NoRun == 0
Nobody == 0

VARIABLES
  prog, pos,        \* the callers' programs and how far each has come
  at,               \* what each process is doing
  smu,              \* who holds s.mu across steps
  running,          \* s.running
  starts,           \* how many calls of Start have taken effect
  tickers, stopCh,  \* s.tickers, s.stopCh: name -> the run whose task it belongs to
  ticking,          \* tickers that have not been stopped
  tick,             \* tickers with a tick in their channel, which holds one
  closed,           \* stop channels that have been closed
  task,             \* the state of each task's goroutine
  wg,               \* the counter of s.wg
  cancelled         \* the root context has been cancelled
vars == <<prog, pos, at, smu, running, starts, tickers, stopCh, ticking, tick,
          closed, task, wg, cancelled>>
registry == <<tickers, stopCh, ticking, closed>>

Steps == {"idle", "starting", "launching", "closing", "waiting", "released", "dead"}
TaskStates == {"none", "made", "select", "working", "done"}

Started(t) == task[t] \in {"select", "working"}
Alive == {t \in Tasks : Started(t)}

Idle == [step |-> "idle", run |-> NoRun, k |-> 0]

Init ==
  /\ prog \in Programs
  /\ pos = [c \in Callers |-> 1]
  /\ at = [p \in Procs |-> Idle]
  /\ smu = Nobody
  /\ running = FALSE
  /\ starts = 0
  /\ tickers = [n \in TaskNames |-> NoRun]
  /\ stopCh = [n \in TaskNames |-> NoRun]
  /\ ticking = {} /\ tick = {} /\ closed = {}
  /\ task = [t \in Tasks |-> "none"]
  /\ wg = 0
  /\ cancelled = FALSE

-----------------------------------------------------------------------------
Calling(c, call) ==
  /\ at[c].step = "idle"
  /\ pos[c] <= Len(prog[c])
  /\ prog[c][pos[c]] = call

Return(c) ==
  /\ at' = [at EXCEPT ![c] = Idle]
  /\ pos' = [pos EXCEPT ![c] = @ + 1]

Cancel(c) ==
  /\ Calling(c, "Cancel")
  /\ cancelled' = TRUE
  /\ Return(c)
  /\ UNCHANGED <<prog, smu, running, starts, registry, tick, task, wg>>

(* IsRunning, and GetTaskStatus: they need the mutex and change nothing.    *)
IsRunning(c) ==
  /\ Calling(c, "IsRunning")
  /\ smu = Nobody
  /\ Return(c)
  /\ UNCHANGED <<prog, smu, running, starts, registry, tick, task, wg, cancelled>>

-----------------------------------------------------------------------------
StartTwice(c) ==
  /\ Calling(c, "Start")
  /\ smu = Nobody
  /\ running
  /\ Return(c)
  /\ UNCHANGED <<prog, smu, running, starts, registry, tick, task, wg, cancelled>>

BeginStart(c) ==
  /\ Calling(c, "Start")
  /\ smu = Nobody
  /\ ~running
  /\ starts < MaxStarts
  /\ running' = TRUE
  /\ starts' = starts + 1
  /\ at' = [at EXCEPT ![c] = [step |-> "starting", run |-> starts + 1, k |-> 1]]
  /\ UNCHANGED <<prog, pos, smu, registry, tick, task, wg, cancelled>>

(* The critical section of a start function. *)
Register(c) ==
  /\ at[c].step = "starting"
  /\ at[c].k <= Len(Order)
  /\ smu = Nobody
  /\ LET n == Order[at[c].k]
         t == <<at[c].run, n>>
     IN /\ tickers' = [tickers EXCEPT ![n] = at[c].run]
        /\ stopCh' = [stopCh EXCEPT ![n] = at[c].run]
        /\ ticking' = ticking \cup {t}
        /\ task' = [task EXCEPT ![t] = "made"]
  /\ at' = [at EXCEPT ![c].step = "launching"]
  /\ UNCHANGED <<prog, pos, smu, running, starts, tick, closed, wg, cancelled>>

(* Fault: the goroutine is launched without wg.Add. *)
NotAdded == wg

Added == wg + 1

(* wg.Add(1) and the go statement; the mutex is not held. *)
Launch(c) ==
  /\ at[c].step = "launching"
  /\ wg' = Added
  /\ task' = [task EXCEPT ![<<at[c].run, Order[at[c].k]>>] = "select"]
  /\ at' = [at EXCEPT ![c].step = "starting", ![c].k = @ + 1]
  /\ UNCHANGED <<prog, pos, smu, running, starts, registry, tick, cancelled>>

(* The goroutine that waits for the context, then Start returns. *)
EndStart(c) ==
  /\ at[c].step = "starting"
  /\ at[c].k > Len(Order)
  /\ at' = [at EXCEPT ![c] = Idle, ![at[c].run].run = at[c].run]
  /\ pos' = [pos EXCEPT ![c] = @ + 1]
  /\ UNCHANGED <<prog, smu, running, starts, registry, tick, task, wg, cancelled>>

-----------------------------------------------------------------------------
(* A watcher that is there (at[r].run = r) calls Stop once, when the        *)
(* context is cancelled.                                                    *)
CallsStop(p) ==
  \/ p \in Callers /\ Calling(p, "Stop")
  \/ p \in Runs /\ at[p] = [Idle EXCEPT !.run = p] /\ cancelled

StopReturns(p) ==
  /\ at' = [at EXCEPT ![p] = Idle]
  /\ pos' = IF p \in Callers THEN [pos EXCEPT ![p] = @ + 1] ELSE pos

StopNothing(p) ==
  /\ CallsStop(p)
  /\ smu = Nobody
  /\ ~running
  /\ StopReturns(p)
  /\ UNCHANGED <<prog, smu, running, starts, registry, tick, task, wg, cancelled>>

(* Fault: the goroutines are not told to stop. *)
CloseNone == closed

CloseAll == closed \cup {<<stopCh[n], n>> : n \in {m \in TaskNames : stopCh[m] # NoRun}}

(* Fault: the closed channels stay in the map. *)
Kept == stopCh

Emptied == [n \in TaskNames |-> NoRun]

BeginStop(p) ==
  /\ CallsStop(p)
  /\ smu = Nobody
  /\ running
  /\ smu' = p
  /\ ticking' = ticking \ {<<tickers[n], n>> : n \in TaskNames}
  /\ tickers' = [n \in TaskNames |-> NoRun]
  /\ closed' = CloseAll
  /\ stopCh' = Emptied
  /\ at' = [at EXCEPT ![p].step = "closing"]
  /\ UNCHANGED <<prog, pos, running, starts, tick, task, wg, cancelled>>

(* wg.Wait returns at once when the counter is 0, else it blocks until the  *)
(* counter reaches 0.                                                       *)
Wait(p) ==
  /\ at[p].step = "closing"
  /\ wg > 0
  /\ at' = [at EXCEPT ![p].step = "waiting"]
  /\ UNCHANGED <<prog, pos, smu, running, starts, registry, tick, task, wg, cancelled>>

(* Fault: Stop does not wait. *)
AnyTime(p) == at[p].step = "closing"

WaitOver(p) ==
  /\ at[p].step \in {"closing", "released"}
  /\ wg = 0

EndStop(p) ==
  /\ WaitOver(p)
  /\ running' = FALSE
  /\ smu' = Nobody
  /\ StopReturns(p)
  /\ UNCHANGED <<prog, starts, registry, tick, task, wg, cancelled>>

(* A waiter that wakes to a counter that is no longer 0 panics (or, a       *)
(* moment earlier, wg.Add does), which ends every goroutine.                *)
WaitPanics(p) ==
  /\ at[p].step = "released"
  /\ wg > 0
  /\ at' = [q \in Procs |-> [Idle EXCEPT !.step = "dead"]]
  /\ task' = [t \in Tasks |-> IF task[t] = "none" THEN "none" ELSE "done"]
  /\ ticking' = {}
  /\ wg' = 0
  /\ running' = FALSE
  /\ smu' = Nobody
  /\ UNCHANGED <<prog, pos, starts, tickers, stopCh, tick, closed, cancelled>>

-----------------------------------------------------------------------------
(* The ticker's channel holds one tick; a stopped ticker leaves it there.   *)
Tick(t) ==
  /\ t \in ticking \ tick
  /\ tick' = tick \cup {t}
  /\ UNCHANGED <<prog, pos, at, smu, running, starts, registry, task, wg, cancelled>>

(* The select statement picks any case that is ready. *)
Work(t) ==
  /\ task[t] = "select"
  /\ t \in tick
  /\ tick' = tick \ {t}
  /\ task' = [task EXCEPT ![t] = "working"]
  /\ UNCHANGED <<prog, pos, at, smu, running, starts, registry, wg, cancelled>>

EndWork(t) ==
  /\ task[t] = "working"
  /\ task' = [task EXCEPT ![t] = "select"]
  /\ UNCHANGED <<prog, pos, at, smu, running, starts, registry, tick, wg, cancelled>>

(* Fault: the context is not among the cases of the select. *)
ToldByChannel(t) == t \in closed

Told(t) == t \in closed \/ cancelled

(* Fault: wg.Done is deferred and called as well. *)
DoneTwice == wg - 2

Done == wg - 1

(* wg.Done: the last one releases the waiters. *)
Exit(t) ==
  /\ task[t] = "select"
  /\ Told(t)
  /\ task' = [task EXCEPT ![t] = "done"]
  /\ wg' = Done
  /\ at' = [p \in Procs |->
       IF wg = 1 /\ at[p].step = "waiting" THEN [at[p] EXCEPT !.step = "released"] ELSE at[p]]
  /\ UNCHANGED <<prog, pos, smu, running, starts, registry, tick, cancelled>>

-----------------------------------------------------------------------------
StartStep(c) == StartTwice(c) \/ BeginStart(c) \/ Register(c) \/ Launch(c) \/ EndStart(c)
StopStep(p) == StopNothing(p) \/ BeginStop(p) \/ Wait(p) \/ EndStop(p) \/ WaitPanics(p)
CallStep(p) ==
  \/ p \in Callers /\ (Cancel(p) \/ IsRunning(p) \/ StartStep(p))
  \/ StopStep(p)
TaskStep(t) == Work(t) \/ EndWork(t) \/ Exit(t)

Next ==
  \/ \E p \in Procs : CallStep(p)
  \/ \E t \in Tasks : Tick(t) \/ TaskStep(t)

Spec == Init /\ [][Next]_vars

(* Goroutines run, a task's work ends, and the mutex starves nobody: a call *)
(* that finds the mutex free again and again gets it.  A select whose stop  *)
(* case stays ready takes it in the end, because it picks at random.        *)
Fairness ==
  /\ \A p \in Procs : SF_vars(CallStep(p))
  /\ \A t \in Tasks : WF_vars(EndWork(t)) /\ SF_vars(Exit(t))

FairSpec == Spec /\ Fairness

-----------------------------------------------------------------------------
(* Properties.                                                              *)

(* Every variable keeps its type; wg in particular never becomes negative,  *)
(* which would be a panic in wg.Done.                                       *)
TypeOK ==
  /\ prog \in [Callers -> Seq(Calls)] /\ pos \in [Callers -> Nat \ {0}]
  /\ at \in [Procs -> [step : Steps, run : Runs \cup {NoRun}, k : Nat]]
  /\ smu \in Procs \cup {Nobody}
  /\ running \in BOOLEAN /\ cancelled \in BOOLEAN
  /\ starts \in 0..MaxStarts
  /\ tickers \in [TaskNames -> Runs \cup {NoRun}]
  /\ stopCh \in [TaskNames -> Runs \cup {NoRun}]
  /\ ticking \in SUBSET Tasks /\ tick \in SUBSET Tasks /\ closed \in SUBSET Tasks
  /\ task \in [Tasks -> TaskStates]
  /\ wg \in Nat

(* The counter of the WaitGroup is the number of goroutines that have been  *)
(* launched and have not returned (scheduler_service.go:127-129).           *)
WaitGroupCounts == wg = Cardinality(Alive)

(* No channel is closed twice, which would be a panic: what is in the map   *)
(* is open, whichever goroutines call Start and Stop and in whatever order  *)
(* (scheduler_service.go:91-95).                                            *)
NoDoubleClose == \A n \in TaskNames : stopCh[n] # NoRun => <<stopCh[n], n>> \notin closed

(* main uses the service from one goroutine, and starts nothing once it has *)
(* cancelled the context (cmd/server/main.go:61, 347-350).                  *)
Sequential ==
  \E m \in Callers :
    /\ \A c \in Callers \ {m} : \A i \in DOMAIN prog[c] : prog[c][i] = "IsRunning"
    /\ \A i, j \in DOMAIN prog[m] :
         i < j /\ prog[m][i] = "Cancel" => prog[m][j] # "Start"

(* A scheduler that is not running has no task left, although main's Stop   *)
(* and the watchers' race when the context is cancelled: the loser of that  *)
(* race returns only after the winner has waited ("wait for all goroutines  *)
(* to finish", scheduler_service.go:97-100).                                *)
Quiet == \A t \in Tasks : task[t] \in {"none", "done"}
StoppedMeansQuiet == Sequential /\ ~running => Quiet

(* Every call returns in the end: no one waits for the mutex that Stop      *)
(* holds, or for a goroutine, for ever (scheduler_service.go:75-102).       *)
Finished == \A c \in Callers : pos[c] > Len(prog[c])
CallsReturn == Sequential => <>Finished

(* Cancelling the root context ends every task and leaves the service       *)
(* stopped, even after Starts and Stops that raced and left tasks that no   *)
(* Stop knows of (scheduler_service.go:67-71, 139-141).                     *)
CancelEndsAll == cancelled ~> Alive = {} /\ ~running

-----------------------------------------------------------------------------
(* What a comment promises and the code does not do.                        *)

(* "wait for all goroutines to finish" (scheduler_service.go:97): when Stop *)
(* returns having stopped the service, no task runs or is about to.         *)
StopLeavesNothing == [][\A p \in Procs : EndStop(p) => Quiet]_vars
=============================================================================
