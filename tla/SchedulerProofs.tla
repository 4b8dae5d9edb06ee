-------------------------- MODULE SchedulerProofs --------------------------
(***************************************************************************)
(* Proofs about Scheduler, for every set of callers, every program and     *)
(* every number of starts.  IndInv has two parts: what holds however Start *)
(* and Stop are called, and what holds besides when they are called the    *)
(* way the server calls them (Sequential).                                 *)
(***************************************************************************)
EXTENDS Scheduler, FiniteSetTheorems, TLAPS

Stopping(p) == at[p].step \in {"closing", "waiting", "released"}
Starting(c) == at[c].step \in {"starting", "launching"}
Current(c) == <<at[c].run, Order[at[c].k]>>

(* A run in the making has a caller of its own and has made the tasks       *)
(* before the k-th only.                                                    *)
RunInMaking(c) ==
  /\ c \in Callers
  /\ at[c].run \in 1..starts /\ at[c].k \in Nat \ {0}
  /\ \A d \in Procs : Starting(d) /\ at[d].run = at[c].run => d = c
  /\ \A j \in DOMAIN Order : j > at[c].k => task[<<at[c].run, Order[j]>>] = "none"
  /\ at[c].step = "starting" /\ at[c].k \in DOMAIN Order => task[Current(c)] = "none"
  /\ at[c].step = "launching" => at[c].k \in DOMAIN Order /\ task[Current(c)] = "made"

(* The WaitGroup counts a finite set. *)
Counted == IsFiniteSet(Alive) /\ WaitGroupCounts

(* A channel in the map or closed is that of a task that was made, and only *)
(* the runs that have begun have tasks.                                     *)
Registered ==
  /\ \A t \in closed : task[t] # "none"
  /\ \A n \in TaskNames : stopCh[n] # NoRun => task[<<stopCh[n], n>>] # "none"
  /\ \A t \in Tasks : t[1] > starts => task[t] = "none"

MutexHeld == \A p \in Procs : Stopping(p) <=> smu = p
InMaking == \A c \in Procs : Starting(c) => RunInMaking(c)

(* What holds whatever the callers do. *)
AnyUse == TypeOK /\ Counted /\ NoDoubleClose /\ Registered /\ MutexHeld /\ InMaking

(* What holds besides in sequential use. *)
SequentialUse ==
  /\ cancelled => \A c \in Callers : \A i \in DOMAIN prog[c] :
                    i >= pos[c] => prog[c][i] # "Start"
  /\ \A c \in Callers : Starting(c) =>
       /\ pos[c] \in DOMAIN prog[c] /\ prog[c][pos[c]] = "Start"
       /\ running /\ ~cancelled /\ smu = Nobody
  /\ \A t \in Tasks : task[t] = "made" =>
       \E c \in Callers : at[c].step = "launching" /\ t = Current(c)
  /\ smu # Nobody => running
  /\ \A p \in Procs : at[p].step = "released" => wg = 0
  /\ ~running => Quiet

IndInv == AnyUse /\ (Sequential => SequentialUse)

-----------------------------------------------------------------------------
(* s is a sequence of distinct elements of R. *)
DistinctIn(s, R) ==
  /\ s \in Seq(R)
  /\ \A i, j \in DOMAIN s : s[i] = s[j] => i = j

LEMMA DistinctOne == ASSUME NEW x PROVE DistinctIn(<<x>>, {x})
<1>1. <<x>> \in Seq({x}) /\ Len(<<x>>) = 1
  OBVIOUS
<1>2. DOMAIN <<x>> = {1}
  OBVIOUS
<1> QED
  BY <1>1, <1>2 DEF DistinctIn

LEMMA DistinctAppend ==
  ASSUME NEW R, NEW s, NEW x, DistinctIn(s, R), x \notin R
  PROVE  DistinctIn(s \o <<x>>, R \cup {x}) /\ DistinctIn(s \o <<>>, R \cup {x})
<1>1. s \in Seq(R) /\ Len(s) \in Nat /\ s \in Seq(R \cup {x}) /\ DOMAIN s = 1..Len(s)
  BY DEF DistinctIn
<1>2. <<x>> \in Seq(R \cup {x}) /\ Len(<<x>>) = 1
  OBVIOUS
<1>3. s \o <<x>> \in Seq(R \cup {x}) /\ Len(s \o <<x>>) = Len(s) + 1
  BY <1>1, <1>2
<1>4. DOMAIN (s \o <<x>>) = 1..(Len(s) + 1)
  BY <1>3
<1>5. /\ \A i \in 1..Len(s) : (s \o <<x>>)[i] = s[i] /\ s[i] \in R
      /\ (s \o <<x>>)[Len(s) + 1] = x
  BY <1>1, <1>2
<1>6. \A i \in 1..(Len(s) + 1) : i \in 1..Len(s) \/ i = Len(s) + 1
  BY <1>1
<1>7. DistinctIn(s \o <<x>>, R \cup {x})
  BY <1>1, <1>3, <1>4, <1>5, <1>6 DEF DistinctIn
<1>8. s \o <<>> = s
  BY <1>1
<1> QED
  BY <1>1, <1>7, <1>8 DEF DistinctIn

(* The tasks have distinct names. *)
LEMMA OrderIsInjective ==
  /\ Len(Order) \in Nat /\ DOMAIN Order = 1..Len(Order)
  /\ \A i \in DOMAIN Order : Order[i] \in TaskNames
  /\ \A i, j \in DOMAIN Order : Order[i] = Order[j] => i = j
<1> DEFINE first == <<"alert_scan">>
           second == first \o (IF EnableAutoCleanup THEN <<"log_cleanup">> ELSE <<>>)
           third == second \o (IF EnableAutoResolve THEN <<"alert_auto_resolve">> ELSE <<>>)
           R == {"alert_scan"} \cup {"log_cleanup"}
           S == R \cup {"alert_auto_resolve"}
<1>1. DistinctIn(first, {"alert_scan"})
  BY DistinctOne
<1>2. DistinctIn(second, R)
  <2>1. DistinctIn(first \o <<"log_cleanup">>, R) /\ DistinctIn(first \o <<>>, R)
    BY <1>1, DistinctAppend
  <2> QED
    BY <2>1, ConfigAssumption
<1>3. DistinctIn(third, S)
  <2> HIDE DEF second
  <2>1. DistinctIn(second \o <<"alert_auto_resolve">>, S) /\ DistinctIn(second \o <<>>, S)
    BY <1>2, DistinctAppend
  <2> QED
    BY <2>1, ConfigAssumption
<1>4. DistinctIn(Order, S \cup {"alert_cleanup"})
  <2>1. Order = third \o <<"alert_cleanup">>
    BY DEF Order
  <2> HIDE DEF third
  <2> QED
    BY <1>3, <2>1, DistinctAppend
<1>5. \A i \in DOMAIN Order : Order[i] \in TaskNames
  BY DEF TaskNames
<1> HIDE DEF S
<1> QED
  BY <1>4, <1>5 DEF DistinctIn

(* Nobody and NoRun are no process, and a task is a run and a name. *)
LEMMA NamesAreDistinct ==
  /\ Runs \subseteq Nat \ {0} /\ Nobody \notin Procs /\ Nobody = 0 /\ NoRun = 0
  /\ Callers \subseteq Procs /\ Runs \subseteq Procs /\ Callers \cap Runs = {}
  /\ \A r \in Runs, n \in TaskNames : <<r, n>> \in Tasks
  /\ \A t \in Tasks : t[1] \in Runs /\ t[2] \in TaskNames /\ t = <<t[1], t[2]>>
BY BoundAssumption, ProcessAssumption DEF Runs, Nobody, NoRun, Procs, Tasks

(* A caller that is between two calls and makes one that leaves no trace.   *)
LEMMA IdleCall ==
  ASSUME AnyUse, NEW p \in Procs, at[p].step = "idle",
         at' = [at EXCEPT ![p] = Idle],
         pos' = pos \/ (p \in Callers /\ pos' = [pos EXCEPT ![p] = @ + 1]),
         cancelled' \in BOOLEAN,
         UNCHANGED <<prog, smu, running, starts, registry, tick, task, wg>>
  PROVE  AnyUse'
<1>1. /\ at \in [Procs -> [step : Steps, run : Runs \cup {NoRun}, k : Nat]]
      /\ Idle \in [step : Steps, run : Runs \cup {NoRun}, k : Nat]
  BY DEF AnyUse, TypeOK, Idle, Steps
<1>2. /\ \A q \in Procs : q # p => at'[q] = at[q]
      /\ at'[p].step = "idle"
  BY <1>1 DEF Idle
<1>3. TypeOK'
  <2>1. pos' \in [Callers -> Nat \ {0}]
    BY DEF AnyUse, TypeOK
  <2>2. at' \in [Procs -> [step : Steps, run : Runs \cup {NoRun}, k : Nat]]
    BY <1>1
  <2> QED
    BY <2>1, <2>2 DEF AnyUse, TypeOK, registry
<1>4. Counted' /\ NoDoubleClose' /\ Registered'
  BY DEF AnyUse, Counted, WaitGroupCounts, Alive, Started, NoDoubleClose, Registered, registry
<1>5. /\ \A q \in Procs : (Stopping(q))' <=> Stopping(q)
      /\ \A q \in Procs : (Starting(q))' <=> Starting(q)
      /\ \A q \in Procs : Starting(q) => q # p
  BY <1>2 DEF Stopping, Starting
<1>6. MutexHeld'
  BY <1>5 DEF AnyUse, MutexHeld
<1>7. InMaking'
  <2> SUFFICES ASSUME NEW c \in Procs, Starting(c) PROVE (RunInMaking(c))'
    BY <1>5 DEF InMaking
  <2>1. RunInMaking(c) /\ at'[c] = at[c]
    BY <1>2, <1>5 DEF AnyUse, InMaking
  <2>2. (Current(c))' = Current(c)
    BY <2>1 DEF Current
  <2> QED
    BY <1>2, <1>5, <2>1, <2>2 DEF RunInMaking
<1> QED
  BY <1>3, <1>4, <1>6, <1>7 DEF AnyUse

(* A call of Start takes a run that no one has. *)
LEMMA BeginStartStep ==
  ASSUME AnyUse, NEW c \in Callers, BeginStart(c)
  PROVE  AnyUse'
<1>1. /\ at \in [Procs -> [step : Steps, run : Runs \cup {NoRun}, k : Nat]]
      /\ starts \in Nat /\ starts + 1 \in Runs /\ c \in Procs
      /\ at[c].step = "idle" /\ smu = Nobody /\ starts' = starts + 1
      /\ at' = [at EXCEPT ![c] = [step |-> "starting", run |-> starts + 1, k |-> 1]]
      /\ UNCHANGED <<prog, pos, smu, registry, tick, task, wg, cancelled>>
  BY BoundAssumption, NamesAreDistinct DEF AnyUse, TypeOK, BeginStart, Calling, Runs
<1>2. /\ \A q \in Procs : q # c => at'[q] = at[q]
      /\ at'[c] = [step |-> "starting", run |-> starts + 1, k |-> 1]
  BY <1>1
<1>3. TypeOK'
  <2>1. at' \in [Procs -> [step : Steps, run : Runs \cup {NoRun}, k : Nat]]
    BY <1>1 DEF Steps
  <2> QED
    BY <1>1, <2>1, BoundAssumption DEF AnyUse, TypeOK, registry, BeginStart, Runs
<1>4. Counted' /\ NoDoubleClose' /\ Registered'
  BY <1>1 DEF AnyUse, TypeOK, Counted, WaitGroupCounts, Alive, Started, NoDoubleClose,
              Registered, registry, Tasks, Runs
<1>5. MutexHeld'
  BY <1>1, <1>2, NamesAreDistinct DEF AnyUse, MutexHeld, Stopping
<1>6. InMaking'
  <2> SUFFICES ASSUME NEW d \in Procs, (Starting(d))' PROVE (RunInMaking(d))'
    BY DEF InMaking
  <2>1. \A q \in Procs : Starting(q) => at[q].run \in 1..starts /\ q # c
    BY <1>1 DEF AnyUse, InMaking, RunInMaking, Starting
  <2>2. \A q \in Procs : q # c => ((Starting(q))' <=> Starting(q))
    BY <1>2 DEF Starting
  <2>3. CASE d = c
    <3>1. \A n \in TaskNames : task[<<starts + 1, n>>] = "none"
      BY <1>1, NamesAreDistinct DEF AnyUse, Registered
    <3>2. \A j \in DOMAIN Order : task'[<<at'[c].run, Order[j]>>] = "none"
      BY <1>1, <1>2, <3>1, OrderIsInjective
    <3>3. \A q \in Procs : (Starting(q))' /\ at'[q].run = at'[c].run => q = c
      BY <1>1, <1>2, <2>1, <2>2
    <3> QED
      BY <1>1, <1>2, <2>3, <3>2, <3>3 DEF RunInMaking, Current
  <2>4. CASE d # c
    <3>1. RunInMaking(d) /\ at'[d] = at[d]
      BY <1>2, <2>2, <2>4 DEF AnyUse, InMaking
    <3>2. \A q \in Procs : (Starting(q))' /\ at'[q].run = at'[d].run => q = d
      BY <1>1, <1>2, <2>1, <2>2, <2>4, <3>1 DEF RunInMaking
    <3> QED
      BY <1>1, <3>1, <3>2 DEF RunInMaking, Current
  <2> QED
    BY <2>3, <2>4
<1> QED
  BY <1>3, <1>4, <1>5, <1>6 DEF AnyUse

(* Registering and launching the k-th task of a run touches no task of     *)
(* another run and no other task of its own run.                           *)
LEMMA TasksOfOthers ==
  ASSUME AnyUse, NEW c \in Procs, Starting(c), at[c].k \in DOMAIN Order
  PROVE  /\ at[c].run \in Runs /\ Order[at[c].k] \in TaskNames /\ Current(c) \in Tasks
         /\ \A j \in DOMAIN Order : j # at[c].k => <<at[c].run, Order[j]>> # Current(c)
         /\ \A d \in Procs, j \in DOMAIN Order :
              Starting(d) /\ d # c => <<at[d].run, Order[j]>> # Current(c)
<1>1. RunInMaking(c) /\ starts \in 0..MaxStarts
  BY DEF AnyUse, InMaking, TypeOK
<1>2. at[c].run \in Runs
  BY <1>1, BoundAssumption DEF RunInMaking, Runs
<1>3. \A d \in Procs : Starting(d) /\ d # c => at[d].run # at[c].run
  BY <1>1 DEF RunInMaking
<1> QED
  BY <1>2, <1>3, OrderIsInjective, NamesAreDistinct DEF Current

LEMMA RegisterStep ==
  ASSUME AnyUse, NEW c \in Callers, Register(c)
  PROVE  AnyUse'
<1> DEFINE n == Order[at[c].k]
           t == Current(c)
<1>1. /\ at \in [Procs -> [step : Steps, run : Runs \cup {NoRun}, k : Nat]]
      /\ task \in [Tasks -> TaskStates]
      /\ c \in Procs /\ at[c].step = "starting" /\ Starting(c)
      /\ at[c].k \in DOMAIN Order /\ RunInMaking(c)
      /\ at[c].run \in 1..starts
  BY NamesAreDistinct, OrderIsInjective
  DEF AnyUse, TypeOK, Register, InMaking, RunInMaking, Starting
<1>2. /\ at[c].run \in Runs /\ n \in TaskNames /\ t \in Tasks /\ t = <<at[c].run, n>>
      /\ task[t] = "none"
  BY <1>1, TasksOfOthers DEF Current, RunInMaking
<1>3. /\ tickers' = [tickers EXCEPT ![n] = at[c].run]
      /\ stopCh' = [stopCh EXCEPT ![n] = at[c].run]
      /\ ticking' = ticking \cup {t}
      /\ task' = [task EXCEPT ![t] = "made"]
      /\ at' = [at EXCEPT ![c].step = "launching"]
      /\ smu = Nobody
      /\ UNCHANGED <<prog, pos, smu, running, starts, tick, closed, wg, cancelled>>
  BY <1>2 DEF Register
<1> HIDE DEF n, t
<1>4. /\ \A q \in Procs : q # c => at'[q] = at[q]
      /\ at'[c].step = "launching" /\ at'[c].run = at[c].run /\ at'[c].k = at[c].k
      /\ \A x \in Tasks : x # t => task'[x] = task[x]
      /\ task'[t] = "made"
  BY <1>1, <1>2, <1>3
<1>5. TypeOK'
  <2>1. at' \in [Procs -> [step : Steps, run : Runs \cup {NoRun}, k : Nat]]
    BY <1>1, <1>3 DEF Steps
  <2>2. task' \in [Tasks -> TaskStates]
    BY <1>1, <1>3 DEF TaskStates
  <2> QED
    BY <1>2, <1>3, <2>1, <2>2 DEF AnyUse, TypeOK
<1>6. Counted'
  <2>1. Alive' = Alive
    BY <1>2, <1>4 DEF Alive, Started
  <2> QED
    BY <1>3, <2>1 DEF AnyUse, Counted, WaitGroupCounts
<1>7. NoDoubleClose' /\ Registered'
  <2>1. stopCh \in [TaskNames -> Runs \cup {NoRun}] /\ closed \subseteq Tasks /\ t \notin closed
    BY <1>2 DEF AnyUse, TypeOK, Registered
  <2>2. \A m \in TaskNames : stopCh'[m] = IF m = n THEN at[c].run ELSE stopCh[m]
    BY <1>2, <1>3, <2>1
  <2>3. NoDoubleClose'
    BY <1>2, <1>3, <2>1, <2>2 DEF AnyUse, NoDoubleClose
  <2>4. \A x \in closed : task'[x] # "none"
    BY <1>4, <2>1 DEF AnyUse, Registered
  <2>5. ASSUME NEW m \in TaskNames, stopCh'[m] # NoRun PROVE task'[<<stopCh'[m], m>>] # "none"
    <3>1. CASE m = n
      BY <1>2, <1>4, <2>2, <3>1
    <3>2. CASE m # n
      <4>1. /\ stopCh'[m] = stopCh[m] /\ stopCh[m] \in Runs
            /\ task[<<stopCh[m], m>>] # "none"
        BY <2>1, <2>2, <2>5, <3>2 DEF AnyUse, Registered
      <4>2. <<stopCh[m], m>> \in Tasks
        BY <4>1, NamesAreDistinct
      <4> QED
        BY <1>4, <4>1, <4>2
    <3> QED
      BY <3>1, <3>2
  <2>6. \A x \in Tasks : x[1] > starts => task'[x] = "none"
    <3>1. ~(t[1] > starts)
      BY <1>1, <1>2 DEF AnyUse, TypeOK
    <3> QED
      BY <1>4, <3>1 DEF AnyUse, Registered
  <2> QED
    BY <1>3, <2>3, <2>4, <2>5, <2>6 DEF Registered
<1>8. MutexHeld'
  BY <1>1, <1>3, <1>4 DEF AnyUse, MutexHeld, Stopping
<1>9. InMaking'
  <2> SUFFICES ASSUME NEW d \in Procs, (Starting(d))' PROVE (RunInMaking(d))'
    BY DEF InMaking
  <2>1. \A q \in Procs : /\ (Starting(q))' <=> Starting(q)
                         /\ at'[q].run = at[q].run /\ at'[q].k = at[q].k
    BY <1>1, <1>4 DEF Starting
  <2>2. Starting(d) /\ RunInMaking(d)
    BY <2>1 DEF AnyUse, InMaking
  <2>3. \A q \in Procs : (Starting(q))' /\ at'[q].run = at'[d].run => q = d
    BY <2>1, <2>2 DEF RunInMaking
  <2>4. \A j \in DOMAIN Order : <<at[d].run, Order[j]>> \in Tasks
    <3>1. at[d].run \in Runs
      BY <2>2, BoundAssumption DEF AnyUse, TypeOK, RunInMaking, Runs
    <3> QED
      BY <3>1, OrderIsInjective, NamesAreDistinct
  <2>5. CASE d = c
    <3>1. \A j \in DOMAIN Order : j > at[c].k =>
            <<at[c].run, Order[j]>> # t /\ task[<<at[c].run, Order[j]>>] = "none"
      BY <1>1, TasksOfOthers, OrderIsInjective DEF RunInMaking, t
    <3>2. (Current(c))' = t
      BY <1>1, <1>4 DEF Current, t
    <3> QED
      BY <1>1, <1>3, <1>4, <2>2, <2>3, <2>4, <2>5, <3>1, <3>2 DEF RunInMaking
  <2>6. CASE d # c
    <3>1. \A j \in DOMAIN Order : <<at[d].run, Order[j]>> # t
      BY <1>1, <2>2, <2>6, TasksOfOthers DEF t
    <3>2. (Current(d))' = Current(d) /\ at'[d] = at[d]
      BY <1>4, <2>6 DEF Current
    <3>3. \A j \in DOMAIN Order : task'[<<at[d].run, Order[j]>>] = task[<<at[d].run, Order[j]>>]
      BY <1>4, <2>4, <3>1
    <3>4. at[d].k \in DOMAIN Order => task'[Current(d)] = task[Current(d)]
      BY <3>3 DEF Current
    <3> QED
      BY <1>3, <2>2, <2>3, <3>2, <3>3, <3>4 DEF RunInMaking
  <2> QED
    BY <2>5, <2>6
<1> QED
  BY <1>5, <1>6, <1>7, <1>8, <1>9 DEF AnyUse

LEMMA LaunchStep ==
  ASSUME AnyUse, NEW c \in Callers, Launch(c)
  PROVE  AnyUse'
<1> DEFINE t == Current(c)
<1>1. /\ at \in [Procs -> [step : Steps, run : Runs \cup {NoRun}, k : Nat]]
      /\ task \in [Tasks -> TaskStates]
      /\ c \in Procs /\ at[c].step = "launching" /\ Starting(c)
      /\ at[c].k \in DOMAIN Order /\ RunInMaking(c)
      /\ at[c].run \in 1..starts
      /\ task[t] = "made"
  BY NamesAreDistinct DEF AnyUse, TypeOK, Launch, InMaking, RunInMaking, Starting
<1>2. t \in Tasks
  BY <1>1, TasksOfOthers
<1>3. /\ wg' = wg + 1
      /\ task' = [task EXCEPT ![t] = "select"]
      /\ at' = [at EXCEPT ![c].step = "starting", ![c].k = @ + 1]
      /\ UNCHANGED <<prog, pos, smu, running, starts, registry, tick, cancelled>>
  BY DEF Launch, Added, Current
<1> HIDE DEF t
<1>4. /\ \A q \in Procs : q # c => at'[q] = at[q]
      /\ at'[c].step = "starting" /\ at'[c].run = at[c].run /\ at'[c].k = at[c].k + 1
      /\ \A x \in Tasks : x # t => task'[x] = task[x]
      /\ task'[t] = "select"
  BY <1>1, <1>2, <1>3
<1>5. TypeOK'
  <2>1. at' \in [Procs -> [step : Steps, run : Runs \cup {NoRun}, k : Nat]]
    BY <1>1, <1>3 DEF Steps
  <2>2. task' \in [Tasks -> TaskStates]
    BY <1>1, <1>3 DEF TaskStates
  <2> QED
    BY <1>3, <2>1, <2>2 DEF AnyUse, TypeOK, registry
<1>6. Counted'
  <2>1. Alive' = Alive \cup {t} /\ t \notin Alive
    BY <1>1, <1>2, <1>4 DEF Alive, Started
  <2>2. IsFiniteSet(Alive') /\ Cardinality(Alive') = Cardinality(Alive) + 1
    BY <2>1, FS_AddElement DEF AnyUse, Counted
  <2> QED
    BY <1>3, <2>2 DEF AnyUse, Counted, WaitGroupCounts
<1>7. NoDoubleClose' /\ Registered'
  <2>1. \A x \in Tasks : task[x] # "none" => task'[x] # "none"
    BY <1>4
  <2>2. \A x \in Tasks : task'[x] # "none" => task[x] # "none"
    BY <1>1, <1>2, <1>4
  <2>3. /\ closed \subseteq Tasks
        /\ \A m \in TaskNames : stopCh[m] # NoRun => <<stopCh[m], m>> \in Tasks
    BY NamesAreDistinct DEF AnyUse, TypeOK
  <2> QED
    BY <1>3, <2>1, <2>2, <2>3 DEF AnyUse, NoDoubleClose, Registered, registry
<1>8. MutexHeld'
  BY <1>1, <1>3, <1>4 DEF AnyUse, MutexHeld, Stopping
<1>9. InMaking'
  <2> SUFFICES ASSUME NEW d \in Procs, (Starting(d))' PROVE (RunInMaking(d))'
    BY DEF InMaking
  <2>1. \A q \in Procs : ((Starting(q))' <=> Starting(q)) /\ at'[q].run = at[q].run
    BY <1>1, <1>4 DEF Starting
  <2>2. Starting(d) /\ RunInMaking(d)
    BY <2>1 DEF AnyUse, InMaking
  <2>3. \A q \in Procs : (Starting(q))' /\ at'[q].run = at'[d].run => q = d
    BY <2>1, <2>2 DEF RunInMaking
  <2>4. \A j \in DOMAIN Order : <<at[d].run, Order[j]>> \in Tasks
    <3>1. at[d].run \in Runs
      BY <2>2, BoundAssumption DEF AnyUse, TypeOK, RunInMaking, Runs
    <3> QED
      BY <3>1, OrderIsInjective, NamesAreDistinct
  <2>5. CASE d = c
    <3>1. \A j \in DOMAIN Order : j > at[c].k =>
            <<at[c].run, Order[j]>> # t /\ task[<<at[c].run, Order[j]>>] = "none"
      BY <1>1, TasksOfOthers, OrderIsInjective DEF RunInMaking, t
    <3>2. \A j \in DOMAIN Order : j > at[c].k => task'[<<at[c].run, Order[j]>>] = "none"
      BY <1>4, <2>4, <2>5, <3>1
    <3>3. (Current(c))' = <<at[c].run, Order[at[c].k + 1]>>
      BY <1>4 DEF Current
    <3>4. at[c].k + 1 \in DOMAIN Order => task'[(Current(c))'] = "none"
      BY <1>1, <3>2, <3>3
    <3>5. \A j \in DOMAIN Order : j > at[c].k + 1 => task'[<<at[c].run, Order[j]>>] = "none"
      BY <1>1, <3>2, OrderIsInjective
    <3> QED
      BY <1>1, <1>3, <1>4, <2>3, <2>5, <3>4, <3>5 DEF RunInMaking
  <2>6. CASE d # c
    <3>1. \A j \in DOMAIN Order : <<at[d].run, Order[j]>> # t
      BY <1>1, <2>2, <2>6, TasksOfOthers DEF t
    <3>2. (Current(d))' = Current(d) /\ at'[d] = at[d]
      BY <1>4, <2>6 DEF Current
    <3>3. \A j \in DOMAIN Order : task'[<<at[d].run, Order[j]>>] = task[<<at[d].run, Order[j]>>]
      BY <1>4, <2>4, <3>1
    <3>4. at[d].k \in DOMAIN Order => task'[Current(d)] = task[Current(d)]
      BY <3>3 DEF Current
    <3> QED
      BY <1>3, <2>2, <2>3, <3>2, <3>3, <3>4 DEF RunInMaking
  <2> QED
    BY <2>5, <2>6
<1> QED
  BY <1>5, <1>6, <1>7, <1>8, <1>9 DEF AnyUse

(* A step that starts nobody and touches no task that is still to be        *)
(* launched leaves the runs in the making as they are.                      *)
LEMMA MakingKept ==
  ASSUME AnyUse, starts' = starts,
         \A q \in Procs : (Starting(q))' => Starting(q) /\ at'[q] = at[q],
         \A x \in Tasks : task[x] \in {"none", "made"} => task'[x] = task[x]
  PROVE  InMaking'
<1> SUFFICES ASSUME NEW d \in Procs, (Starting(d))' PROVE (RunInMaking(d))'
  BY DEF InMaking
<1>1. Starting(d) /\ RunInMaking(d) /\ at'[d] = at[d] /\ (Current(d))' = Current(d)
  BY DEF AnyUse, InMaking, Current
<1>2. \A q \in Procs : (Starting(q))' /\ at'[q].run = at'[d].run => q = d
  BY <1>1 DEF RunInMaking
<1>3. \A j \in DOMAIN Order : <<at[d].run, Order[j]>> \in Tasks
  BY <1>1, OrderIsInjective, NamesAreDistinct, BoundAssumption
  DEF AnyUse, TypeOK, RunInMaking, Runs
<1>4. at[d].k \in DOMAIN Order => Current(d) \in Tasks
  BY <1>3 DEF Current
<1> QED
  BY <1>1, <1>2, <1>3, <1>4 DEF RunInMaking

LEMMA EndStartStep ==
  ASSUME AnyUse, NEW c \in Callers, EndStart(c)
  PROVE  AnyUse'
<1> DEFINE r == at[c].run
<1>1. /\ at \in [Procs -> [step : Steps, run : Runs \cup {NoRun}, k : Nat]]
      /\ c \in Procs /\ Starting(c) /\ RunInMaking(c)
      /\ r \in Runs /\ r \in Procs /\ r # c
  BY NamesAreDistinct, BoundAssumption
  DEF AnyUse, TypeOK, EndStart, InMaking, RunInMaking, Starting, Runs
<1>2. /\ at' = [at EXCEPT ![c] = Idle, ![r].run = r]
      /\ pos' = [pos EXCEPT ![c] = @ + 1]
      /\ UNCHANGED <<prog, smu, running, starts, registry, tick, task, wg, cancelled>>
  BY DEF EndStart
<1> HIDE DEF r
<1>3. /\ at'[c].step = "idle" /\ at'[r] = [at[r] EXCEPT !.run = r]
      /\ at'[r].step = at[r].step
      /\ \A q \in Procs : q # c /\ q # r => at'[q] = at[q]
  BY <1>1, <1>2 DEF Idle
<1>4. TypeOK'
  <2>1. at' \in [Procs -> [step : Steps, run : Runs \cup {NoRun}, k : Nat]]
    BY <1>1, <1>2 DEF Steps, Idle
  <2>2. pos' \in [Callers -> Nat \ {0}]
    BY <1>2 DEF AnyUse, TypeOK
  <2> QED
    BY <1>2, <2>1, <2>2 DEF AnyUse, TypeOK, registry
<1>5. Counted' /\ NoDoubleClose' /\ Registered'
  BY <1>2 DEF AnyUse, Counted, WaitGroupCounts, Alive, Started, NoDoubleClose, Registered, registry
<1>6. MutexHeld'
  <2>1. \A q \in Procs : (Stopping(q))' <=> Stopping(q)
    BY <1>1, <1>3 DEF Stopping, Starting
  <2> QED
    BY <1>2, <2>1 DEF AnyUse, MutexHeld
<1>7. InMaking'
  <2>1. ~Starting(r)
    BY <1>1, NamesAreDistinct DEF AnyUse, InMaking, RunInMaking
  <2>2. \A q \in Procs : (Starting(q))' => Starting(q) /\ at'[q] = at[q]
    BY <1>3, <2>1 DEF Starting
  <2> QED
    BY <1>2, <2>2, MakingKept
<1> QED
  BY <1>4, <1>5, <1>6, <1>7 DEF AnyUse

LEMMA BeginStopStep ==
  ASSUME AnyUse, NEW p \in Procs, BeginStop(p)
  PROVE  AnyUse'
<1>1. /\ at \in [Procs -> [step : Steps, run : Runs \cup {NoRun}, k : Nat]]
      /\ at[p].step = "idle" /\ smu = Nobody /\ smu' = p
      /\ at' = [at EXCEPT ![p].step = "closing"]
      /\ stopCh' = [n \in TaskNames |-> NoRun]
      /\ closed' = closed \cup {<<stopCh[n], n>> : n \in {m \in TaskNames : stopCh[m] # NoRun}}
      /\ UNCHANGED <<prog, pos, running, starts, tick, task, wg, cancelled>>
  BY DEF AnyUse, TypeOK, BeginStop, CallsStop, Calling, CloseAll, Emptied, Idle
<1>2. /\ \A q \in Procs : q # p => at'[q] = at[q]
      /\ at'[p].step = "closing"
  BY <1>1
<1>3. \A n \in TaskNames : stopCh[n] # NoRun =>
        <<stopCh[n], n>> \in Tasks /\ task[<<stopCh[n], n>>] # "none"
  BY NamesAreDistinct DEF AnyUse, TypeOK, Registered
<1>4. TypeOK'
  <2>1. at' \in [Procs -> [step : Steps, run : Runs \cup {NoRun}, k : Nat]]
    BY <1>1 DEF Steps
  <2>2. closed' \subseteq Tasks
    BY <1>1, <1>3 DEF AnyUse, TypeOK
  <2>3. /\ tickers' \in [TaskNames -> Runs \cup {NoRun}]
        /\ stopCh' \in [TaskNames -> Runs \cup {NoRun}]
        /\ ticking' \subseteq Tasks
    BY DEF BeginStop, Emptied, AnyUse, TypeOK
  <2> QED
    BY <1>1, <2>1, <2>2, <2>3 DEF AnyUse, TypeOK
<1>5. Counted'
  BY <1>1 DEF AnyUse, Counted, WaitGroupCounts, Alive, Started
<1>6. NoDoubleClose' /\ Registered'
  BY <1>1, <1>3 DEF AnyUse, NoDoubleClose, Registered
<1>7. MutexHeld'
  BY <1>1, <1>2, NamesAreDistinct DEF AnyUse, MutexHeld, Stopping
<1>8. InMaking'
  <2>1. \A q \in Procs : (Starting(q))' => Starting(q) /\ at'[q] = at[q]
    BY <1>2 DEF Starting
  <2> QED
    BY <1>1, <2>1, MakingKept
<1> QED
  BY <1>4, <1>5, <1>6, <1>7, <1>8 DEF AnyUse

LEMMA WaitStep ==
  ASSUME AnyUse, NEW p \in Procs, Wait(p)
  PROVE  AnyUse'
<1>1. /\ at \in [Procs -> [step : Steps, run : Runs \cup {NoRun}, k : Nat]]
      /\ at[p].step = "closing"
      /\ at' = [at EXCEPT ![p].step = "waiting"]
      /\ UNCHANGED <<prog, pos, smu, running, starts, registry, tick, task, wg, cancelled>>
  BY DEF AnyUse, TypeOK, Wait
<1>2. /\ \A q \in Procs : q # p => at'[q] = at[q]
      /\ at'[p].step = "waiting"
  BY <1>1
<1>3. TypeOK'
  <2>1. at' \in [Procs -> [step : Steps, run : Runs \cup {NoRun}, k : Nat]]
    BY <1>1 DEF Steps
  <2> QED
    BY <1>1, <2>1 DEF AnyUse, TypeOK, registry
<1>4. Counted' /\ NoDoubleClose' /\ Registered'
  BY <1>1 DEF AnyUse, Counted, WaitGroupCounts, Alive, Started, NoDoubleClose, Registered, registry
<1>5. MutexHeld'
  BY <1>1, <1>2 DEF AnyUse, MutexHeld, Stopping
<1>6. InMaking'
  <2>1. \A q \in Procs : (Starting(q))' => Starting(q) /\ at'[q] = at[q]
    BY <1>2 DEF Starting
  <2> QED
    BY <1>1, <2>1, MakingKept
<1> QED
  BY <1>3, <1>4, <1>5, <1>6 DEF AnyUse

LEMMA EndStopStep ==
  ASSUME AnyUse, NEW p \in Procs, EndStop(p)
  PROVE  AnyUse'
<1>1. /\ at \in [Procs -> [step : Steps, run : Runs \cup {NoRun}, k : Nat]]
      /\ Stopping(p) /\ smu = p /\ smu' = Nobody /\ running' = FALSE
      /\ at' = [at EXCEPT ![p] = Idle]
      /\ pos' \in [Callers -> Nat \ {0}]
      /\ UNCHANGED <<prog, starts, registry, tick, task, wg, cancelled>>
  BY DEF AnyUse, TypeOK, EndStop, WaitOver, Stopping, StopReturns, MutexHeld
<1>2. /\ \A q \in Procs : q # p => at'[q] = at[q]
      /\ at'[p].step = "idle"
  BY <1>1 DEF Idle
<1>3. TypeOK'
  <2>1. at' \in [Procs -> [step : Steps, run : Runs \cup {NoRun}, k : Nat]]
    BY <1>1 DEF Steps, Idle
  <2> QED
    BY <1>1, <2>1 DEF AnyUse, TypeOK, registry
<1>4. Counted' /\ NoDoubleClose' /\ Registered'
  BY <1>1 DEF AnyUse, Counted, WaitGroupCounts, Alive, Started, NoDoubleClose, Registered, registry
<1>5. MutexHeld'
  BY <1>1, <1>2, NamesAreDistinct DEF AnyUse, MutexHeld, Stopping
<1>6. InMaking'
  <2>1. \A q \in Procs : (Starting(q))' => Starting(q) /\ at'[q] = at[q]
    BY <1>2 DEF Starting
  <2> QED
    BY <1>1, <2>1, MakingKept
<1> QED
  BY <1>3, <1>4, <1>5, <1>6 DEF AnyUse

LEMMA WaitPanicsStep ==
  ASSUME AnyUse, NEW p \in Procs, WaitPanics(p)
  PROVE  AnyUse'
<1>1. /\ at' = [q \in Procs |-> [step |-> "dead", run |-> NoRun, k |-> 0]]
      /\ task' = [t \in Tasks |-> IF task[t] = "none" THEN "none" ELSE "done"]
      /\ ticking' = {} /\ wg' = 0 /\ running' = FALSE /\ smu' = Nobody
      /\ UNCHANGED <<prog, pos, starts, tickers, stopCh, tick, closed, cancelled>>
  BY DEF WaitPanics, Idle
<1>2. TypeOK'
  BY <1>1 DEF AnyUse, TypeOK, Steps, TaskStates
<1>3. Counted'
  <2>1. Alive' = {}
    BY <1>1 DEF Alive, Started
  <2> QED
    BY <1>1, <2>1, FS_EmptySet DEF Counted, WaitGroupCounts
<1>4. NoDoubleClose' /\ Registered'
  <2>1. \A t \in Tasks : task'[t] = "none" <=> task[t] = "none"
    BY <1>1
  <2>2. /\ closed \subseteq Tasks
        /\ \A m \in TaskNames : stopCh[m] # NoRun => <<stopCh[m], m>> \in Tasks
    BY NamesAreDistinct DEF AnyUse, TypeOK
  <2> QED
    BY <1>1, <2>1, <2>2 DEF AnyUse, NoDoubleClose, Registered
<1>5. MutexHeld' /\ InMaking'
  BY <1>1, NamesAreDistinct DEF MutexHeld, Stopping, InMaking, Starting
<1> QED
  BY <1>2, <1>3, <1>4, <1>5 DEF AnyUse

(* A task's own steps leave the callers and the map as they are. *)
LEMMA TaskMoves ==
  ASSUME AnyUse, NEW t \in Tasks, NEW to \in {"select", "working"},
         Started(t), task' = [task EXCEPT ![t] = to], tick' \subseteq Tasks,
         UNCHANGED <<prog, pos, at, smu, running, starts, registry, wg, cancelled>>
  PROVE  AnyUse'
<1>1. task \in [Tasks -> TaskStates] /\ task[t] \in {"select", "working"}
  BY DEF AnyUse, TypeOK, Started
<1>2. \A x \in Tasks : task'[x] = IF x = t THEN to ELSE task[x]
  BY <1>1
<1>3. TypeOK'
  <2>1. task' \in [Tasks -> TaskStates]
    BY <1>1 DEF TaskStates
  <2> QED
    BY <2>1 DEF AnyUse, TypeOK, registry
<1>4. Counted'
  <2>1. Alive' = Alive
    BY <1>1, <1>2 DEF Alive, Started
  <2> QED
    BY <2>1 DEF AnyUse, Counted, WaitGroupCounts
<1>5. NoDoubleClose' /\ Registered'
  <2>1. \A x \in Tasks : task'[x] = "none" <=> task[x] = "none"
    BY <1>1, <1>2
  <2>2. /\ closed \subseteq Tasks
        /\ \A m \in TaskNames : stopCh[m] # NoRun => <<stopCh[m], m>> \in Tasks
    BY NamesAreDistinct DEF AnyUse, TypeOK
  <2> QED
    BY <2>1, <2>2 DEF AnyUse, NoDoubleClose, Registered, registry
<1>6. MutexHeld'
  BY DEF AnyUse, MutexHeld, Stopping
<1>7. InMaking'
  <2>1. \A x \in Tasks : task[x] \in {"none", "made"} => task'[x] = task[x]
    BY <1>1, <1>2
  <2>2. \A q \in Procs : (Starting(q))' => Starting(q) /\ at'[q] = at[q]
    BY DEF Starting
  <2> QED
    BY <2>1, <2>2, MakingKept
<1> QED
  BY <1>3, <1>4, <1>5, <1>6, <1>7 DEF AnyUse

LEMMA TickStep ==
  ASSUME AnyUse, NEW t \in Tasks, Tick(t)
  PROVE  AnyUse'
<1>1. TypeOK' /\ Counted' /\ NoDoubleClose' /\ Registered' /\ MutexHeld'
  BY DEF Tick, AnyUse, TypeOK, Counted, WaitGroupCounts, Alive, Started, NoDoubleClose,
         Registered, registry, MutexHeld, Stopping
<1>2. InMaking'
  <2>1. \A q \in Procs : (Starting(q))' => Starting(q) /\ at'[q] = at[q]
    BY DEF Tick, Starting
  <2> QED
    BY <2>1, MakingKept DEF Tick
<1> QED
  BY <1>1, <1>2 DEF AnyUse

(* The goroutine that returns is counted, so the counter stays a number.    *)
LEMMA ExitStep ==
  ASSUME AnyUse, NEW t \in Tasks, Exit(t)
  PROVE  AnyUse'
<1>1. /\ task \in [Tasks -> TaskStates] /\ task[t] = "select"
      /\ at \in [Procs -> [step : Steps, run : Runs \cup {NoRun}, k : Nat]]
      /\ task' = [task EXCEPT ![t] = "done"] /\ wg' = wg - 1
      /\ at' = [p \in Procs |->
           IF wg = 1 /\ at[p].step = "waiting" THEN [at[p] EXCEPT !.step = "released"] ELSE at[p]]
      /\ UNCHANGED <<prog, pos, smu, running, starts, registry, tick, cancelled>>
  BY DEF AnyUse, TypeOK, Exit, Done
<1>2. \A x \in Tasks : task'[x] = IF x = t THEN "done" ELSE task[x]
  BY <1>1
<1>3. Counted' /\ wg' \in Nat
  <2>1. Alive' = Alive \ {t} /\ t \in Alive
    BY <1>1, <1>2 DEF Alive, Started
  <2>2. IsFiniteSet(Alive') /\ Cardinality(Alive') = Cardinality(Alive) - 1
    BY <2>1, FS_RemoveElement DEF AnyUse, Counted
  <2>3. Cardinality(Alive') \in Nat
    BY <2>2, FS_CardinalityType
  <2>4. wg' = Cardinality(Alive')
    BY <1>1, <2>2 DEF AnyUse, Counted, WaitGroupCounts
  <2> QED
    BY <2>2, <2>3, <2>4 DEF Counted, WaitGroupCounts
<1>4. \A p \in Procs :
        /\ at'[p] = at[p] \/ (at[p].step = "waiting" /\ at'[p].step = "released")
        /\ at'[p] \in [step : Steps, run : Runs \cup {NoRun}, k : Nat]
  <2> TAKE p \in Procs
  <2>1. at[p] \in [step : Steps, run : Runs \cup {NoRun}, k : Nat]
    BY <1>1
  <2>2. CASE wg = 1 /\ at[p].step = "waiting"
    <3>1. at'[p] = [at[p] EXCEPT !.step = "released"]
      BY <1>1, <2>2
    <3> QED
      BY <2>1, <2>2, <3>1 DEF Steps
  <2>3. CASE ~(wg = 1 /\ at[p].step = "waiting")
    BY <1>1, <2>1, <2>3
  <2> QED
    BY <2>2, <2>3
<1>5. TypeOK'
  <2>1. at' \in [Procs -> [step : Steps, run : Runs \cup {NoRun}, k : Nat]]
    BY <1>1, <1>4
  <2>2. task' \in [Tasks -> TaskStates]
    BY <1>1 DEF TaskStates
  <2> QED
    BY <1>1, <1>3, <2>1, <2>2 DEF AnyUse, TypeOK, registry
<1>6. NoDoubleClose' /\ Registered'
  <2>1. \A x \in Tasks : task'[x] = "none" <=> task[x] = "none"
    BY <1>1, <1>2
  <2>2. /\ closed \subseteq Tasks
        /\ \A m \in TaskNames : stopCh[m] # NoRun => <<stopCh[m], m>> \in Tasks
    BY NamesAreDistinct DEF AnyUse, TypeOK
  <2> QED
    BY <1>1, <2>1, <2>2 DEF AnyUse, NoDoubleClose, Registered, registry
<1>7. MutexHeld'
  BY <1>1, <1>4 DEF AnyUse, MutexHeld, Stopping
<1>8. InMaking'
  <2>1. \A x \in Tasks : task[x] \in {"none", "made"} => task'[x] = task[x]
    BY <1>1, <1>2
  <2>2. \A q \in Procs : (Starting(q))' => Starting(q) /\ at'[q] = at[q]
    BY <1>4 DEF Starting
  <2> QED
    BY <1>1, <2>1, <2>2, MakingKept
<1> QED
  BY <1>3, <1>5, <1>6, <1>7, <1>8 DEF AnyUse

LEMMA AnyUseInit == Init => AnyUse
<1> SUFFICES ASSUME Init PROVE AnyUse
  OBVIOUS
<1>1. /\ at = [p \in Procs |-> [step |-> "idle", run |-> NoRun, k |-> 0]]
      /\ task = [t \in Tasks |-> "none"]
      /\ wg = 0 /\ smu = Nobody /\ closed = {} /\ starts = 0
      /\ stopCh = [n \in TaskNames |-> NoRun]
  BY DEF Init, Idle
<1>2. TypeOK
  <2>1. /\ at \in [Procs -> [step : Steps, run : Runs \cup {NoRun}, k : Nat]]
        /\ task \in [Tasks -> TaskStates]
    BY <1>1 DEF Steps, TaskStates
  <2>2. prog \in [Callers -> Seq(Calls)] /\ pos \in [Callers -> Nat \ {0}] /\ starts \in 0..MaxStarts
    BY ProgramsAssumption, BoundAssumption DEF Init
  <2>3. /\ tickers \in [TaskNames -> Runs \cup {NoRun}]
        /\ stopCh \in [TaskNames -> Runs \cup {NoRun}]
        /\ running \in BOOLEAN /\ cancelled \in BOOLEAN
        /\ ticking = {} /\ tick = {}
    BY DEF Init
  <2> QED
    BY <1>1, <2>1, <2>2, <2>3 DEF TypeOK
<1>3. Counted
  <2>1. Alive = {}
    BY <1>1 DEF Alive, Started
  <2> QED
    BY <1>1, <2>1, FS_EmptySet DEF Counted, WaitGroupCounts
<1>4. NoDoubleClose /\ Registered
  BY <1>1 DEF NoDoubleClose, Registered
<1>5. MutexHeld /\ InMaking
  BY <1>1, NamesAreDistinct DEF MutexHeld, Stopping, InMaking, Starting
<1> QED
  BY <1>2, <1>3, <1>4, <1>5 DEF AnyUse

LEMMA AnyUseStep == AnyUse /\ [Next]_vars => AnyUse'
<1> SUFFICES ASSUME AnyUse, [Next]_vars PROVE AnyUse'
  OBVIOUS
<1>1. ASSUME NEW p \in Procs, CallStep(p) PROVE AnyUse'
  <2>1. ASSUME p \in Callers, Cancel(p) \/ IsRunning(p) \/ StartTwice(p) PROVE AnyUse'
    <3>1. cancelled \in BOOLEAN
      BY DEF AnyUse, TypeOK
    <3> QED
      BY <2>1, <3>1, IdleCall DEF Cancel, IsRunning, StartTwice, Calling, Return
  <2>2. CASE p \in Callers /\ BeginStart(p)
    BY <2>2, BeginStartStep
  <2>3. CASE p \in Callers /\ Register(p)
    BY <2>3, RegisterStep
  <2>4. CASE p \in Callers /\ Launch(p)
    BY <2>4, LaunchStep
  <2>5. CASE p \in Callers /\ EndStart(p)
    BY <2>5, EndStartStep
  <2>6. CASE StopNothing(p)
    <3>1. cancelled \in BOOLEAN /\ at[p].step = "idle"
      BY <2>6 DEF AnyUse, TypeOK, StopNothing, CallsStop, Calling, Idle
    <3> QED
      BY <2>6, <3>1, IdleCall DEF StopNothing, StopReturns
  <2>7. CASE BeginStop(p)
    BY <2>7, BeginStopStep
  <2>8. CASE Wait(p)
    BY <2>8, WaitStep
  <2>9. CASE EndStop(p)
    BY <2>9, EndStopStep
  <2>10. CASE WaitPanics(p)
    BY <2>10, WaitPanicsStep
  <2> QED
    BY <1>1, <2>1, <2>2, <2>3, <2>4, <2>5, <2>6, <2>7, <2>8, <2>9, <2>10
    DEF CallStep, StartStep, StopStep
<1>2. ASSUME NEW t \in Tasks, Tick(t) \/ TaskStep(t) PROVE AnyUse'
  <2>1. CASE Tick(t)
    BY <2>1, TickStep
  <2>2. ASSUME Work(t) PROVE AnyUse'
    <3>1. tick' \subseteq Tasks /\ Started(t)
      BY <2>2 DEF AnyUse, TypeOK, Work, Started
    <3> QED
      BY <2>2, <3>1, TaskMoves DEF Work
  <2>3. ASSUME EndWork(t) PROVE AnyUse'
    <3>1. tick' \subseteq Tasks /\ Started(t)
      BY <2>3 DEF AnyUse, TypeOK, EndWork, Started
    <3> QED
      BY <2>3, <3>1, TaskMoves DEF EndWork
  <2>4. CASE Exit(t)
    BY <2>4, ExitStep
  <2> QED
    BY <1>2, <2>1, <2>2, <2>3, <2>4 DEF TaskStep
<1>3. CASE UNCHANGED vars
  BY <1>3 DEF vars, registry, AnyUse, TypeOK, Counted, WaitGroupCounts, Alive, Started,
              NoDoubleClose, Registered, MutexHeld, Stopping, InMaking, Starting,
              RunInMaking, Current
<1> QED
  BY <1>1, <1>2, <1>3 DEF Next

-----------------------------------------------------------------------------
(* Sequential use.                                                          *)

(* Only one caller starts, stops and cancels. *)
LEMMA OneMaster ==
  ASSUME Sequential
  PROVE  \E m \in Callers :
           /\ \A c \in Callers, i \in Nat :
                i \in DOMAIN prog[c] /\ prog[c][i] # "IsRunning" => c = m
           /\ \A c \in Callers : \A i, j \in DOMAIN prog[c] :
                i < j /\ prog[c][i] = "Cancel" => prog[c][j] # "Start"
<1>1. PICK m \in Callers :
        /\ \A c \in Callers \ {m} : \A i \in DOMAIN prog[c] : prog[c][i] = "IsRunning"
        /\ \A i, j \in DOMAIN prog[m] :
             i < j /\ prog[m][i] = "Cancel" => prog[m][j] # "Start"
  BY DEF Sequential
<1> QED
  BY <1>1

(* A caller that is at a call is at an index of its program. *)
LEMMA CallIsInProgram ==
  ASSUME AnyUse, NEW c \in Callers, NEW call \in Calls, Calling(c, call)
  PROVE  pos[c] \in DOMAIN prog[c] /\ prog[c][pos[c]] = call /\ at[c].step = "idle"
<1>1. prog[c] \in Seq(Calls) /\ pos[c] \in Nat \ {0}
  BY DEF AnyUse, TypeOK
<1>2. at[c].step = "idle" /\ pos[c] <= Len(prog[c]) /\ prog[c][pos[c]] = call
  BY DEF Calling
<1>3. Len(prog[c]) \in Nat /\ DOMAIN prog[c] = 1..Len(prog[c])
  BY <1>1
<1> QED
  BY <1>1, <1>2, <1>3

(* A call by a process between two calls, which leaves the service as it    *)
(* is, and cancels only if that is the call.                                *)
LEMMA SequentialIdleCall ==
  ASSUME AnyUse, SequentialUse, Sequential, NEW p \in Procs, at[p].step = "idle",
         at' = [at EXCEPT ![p] = Idle],
         pos' = pos \/ (p \in Callers /\ pos' = [pos EXCEPT ![p] = @ + 1]),
         cancelled' = cancelled \/ (p \in Callers /\ Calling(p, "Cancel")
                                    /\ pos' = [pos EXCEPT ![p] = @ + 1]),
         UNCHANGED <<prog, smu, running, starts, registry, tick, task, wg>>
  PROVE  SequentialUse'
<1>1. PICK m \in Callers :
        /\ \A c \in Callers, i \in Nat :
             i \in DOMAIN prog[c] /\ prog[c][i] # "IsRunning" => c = m
        /\ \A c \in Callers : \A i, j \in DOMAIN prog[c] :
             i < j /\ prog[c][i] = "Cancel" => prog[c][j] # "Start"
  BY OneMaster
<1>2. /\ \A q \in Procs : q # p => at'[q] = at[q]
      /\ at'[p].step = "idle"
  BY DEF AnyUse, TypeOK, Idle
<1>3. /\ pos \in [Callers -> Nat \ {0}] /\ prog \in [Callers -> Seq(Calls)]
      /\ \A c \in Callers : pos'[c] \in Nat /\ pos'[c] >= pos[c]
      /\ \A c \in Callers : DOMAIN prog[c] \subseteq Nat
  <2>1. pos \in [Callers -> Nat \ {0}] /\ prog \in [Callers -> Seq(Calls)]
    BY DEF AnyUse, TypeOK
  <2>2. \A c \in Callers : pos'[c] = pos[c] \/ pos'[c] = pos[c] + 1
    BY <2>1
  <2>3. \A c \in Callers : pos'[c] \in Nat /\ pos'[c] >= pos[c]
    BY <2>1, <2>2
  <2>4. \A c \in Callers : DOMAIN prog[c] = 1..Len(prog[c])
    BY <2>1
  <2> QED
    BY <2>1, <2>3, <2>4
<1>4. cancelled' => \A c \in Callers : \A i \in DOMAIN prog[c] :
                      i >= pos'[c] => prog[c][i] # "Start"
  <2>1. CASE cancelled' = cancelled
    BY <1>3, <2>1 DEF SequentialUse
  <2>2. CASE p \in Callers /\ Calling(p, "Cancel") /\ pos' = [pos EXCEPT ![p] = @ + 1]
    <3>1. pos[p] \in DOMAIN prog[p] /\ prog[p][pos[p]] = "Cancel"
      BY <2>2, CallIsInProgram DEF Calls
    <3>2. p = m /\ pos'[p] = pos[p] + 1
      BY <1>1, <1>3, <2>2, <3>1
    <3>3. ASSUME NEW c \in Callers, NEW i \in DOMAIN prog[c], i >= pos'[c]
          PROVE  prog[c][i] # "Start"
      BY <1>1, <1>3, <3>1, <3>2, <3>3
    <3> QED
      BY <3>3
  <2> QED
    BY <2>1, <2>2
<1>5. \A c \in Callers : (Starting(c))' => Starting(c) /\ c # p /\ c \in Procs
  BY <1>2, NamesAreDistinct DEF Starting
<1>6. ASSUME NEW c \in Callers, (Starting(c))'
      PROVE  /\ pos'[c] \in DOMAIN prog'[c] /\ prog'[c][pos'[c]] = "Start"
             /\ running' /\ ~cancelled' /\ smu' = Nobody
  <2>1. /\ pos[c] \in DOMAIN prog[c] /\ prog[c][pos[c]] = "Start"
        /\ running /\ ~cancelled /\ smu = Nobody
        /\ c # p /\ pos'[c] = pos[c]
    BY <1>3, <1>5, <1>6 DEF SequentialUse
  <2>2. cancelled' = cancelled
    <3> SUFFICES ASSUME p \in Callers, Calling(p, "Cancel") PROVE FALSE
      OBVIOUS
    <3>1. pos[p] \in DOMAIN prog[p] /\ prog[p][pos[p]] = "Cancel"
      BY CallIsInProgram DEF Calls
    <3> QED
      BY <1>1, <1>3, <2>1, <3>1
  <2> QED
    BY <2>1, <2>2
<1>7. \A t \in Tasks : task[t] = "made" =>
        \E c \in Callers : at'[c].step = "launching" /\ t = (Current(c))'
  <2> SUFFICES ASSUME NEW t \in Tasks, task[t] = "made"
               PROVE  \E c \in Callers : at'[c].step = "launching" /\ t = (Current(c))'
    OBVIOUS
  <2>1. PICK c \in Callers : at[c].step = "launching" /\ t = Current(c)
    BY DEF SequentialUse
  <2>2. at'[c] = at[c]
    BY <1>2, <2>1, NamesAreDistinct
  <2> QED
    BY <2>1, <2>2 DEF Current
<1>8. \A q \in Procs : at'[q].step = "released" => wg = 0
  BY <1>2 DEF SequentialUse
<1> QED
  BY <1>4, <1>6, <1>7, <1>8 DEF SequentialUse, Quiet

(* Someone who starts the service holds off whoever stops it: no stopping   *)
(* process, and one starter at most.                                        *)
LEMMA StarterIsAlone ==
  ASSUME AnyUse, SequentialUse, Sequential, NEW c \in Callers, Starting(c)
  PROVE  /\ running /\ ~cancelled /\ smu = Nobody
         /\ \A q \in Procs : ~Stopping(q)
         /\ \A d \in Callers : Starting(d) => d = c
         /\ \A q \in Procs : q # c => ~CallsStop(q)
         /\ \A d \in Callers : Calling(d, "Start") => d = c
<1>1. PICK m \in Callers :
        \A d \in Callers, i \in Nat : i \in DOMAIN prog[d] /\ prog[d][i] # "IsRunning" => d = m
  BY OneMaster
<1>2. /\ pos[c] \in DOMAIN prog[c] /\ prog[c][pos[c]] = "Start"
      /\ running /\ ~cancelled /\ smu = Nobody
  BY DEF SequentialUse
<1>3. \A d \in Callers : pos[d] \in Nat
  BY DEF AnyUse, TypeOK
<1>4. c = m
  BY <1>1, <1>2, <1>3
<1>5. \A d \in Callers : Starting(d) => d = c
  BY <1>1, <1>3, <1>4 DEF SequentialUse
<1>6. \A d \in Callers, call \in {"Start", "Stop"} : Calling(d, call) => d = c
  BY <1>1, <1>3, <1>4, CallIsInProgram DEF Calls
<1>7. \A q \in Procs : ~Stopping(q)
  BY <1>2, NamesAreDistinct DEF AnyUse, MutexHeld
<1> QED
  BY <1>2, <1>5, <1>6, <1>7 DEF CallsStop

LEMMA SequentialBeginStart ==
  ASSUME AnyUse, SequentialUse, NEW c \in Callers, BeginStart(c)
  PROVE  SequentialUse'
<1>1. /\ pos[c] \in DOMAIN prog[c] /\ prog[c][pos[c]] = "Start"
      /\ at[c].step = "idle" /\ c \in Procs
      /\ pos[c] \in Nat
  BY CallIsInProgram, NamesAreDistinct DEF BeginStart, Calls, AnyUse, TypeOK
<1>2. /\ smu = Nobody /\ running' = TRUE
      /\ UNCHANGED <<prog, pos, smu, task, wg, cancelled>>
  BY DEF BeginStart
<1>3. /\ \A q \in Procs : q # c => at'[q] = at[q]
      /\ at'[c].step = "starting"
  BY <1>1 DEF BeginStart, AnyUse, TypeOK
<1>4. ~cancelled
  BY <1>1 DEF SequentialUse
<1>5. \A d \in Callers : (Starting(d))' =>
        pos[d] \in DOMAIN prog[d] /\ prog[d][pos[d]] = "Start"
  BY <1>1, <1>3, NamesAreDistinct DEF SequentialUse, Starting
<1>6. ASSUME NEW t \in Tasks, task[t] = "made"
      PROVE  \E d \in Callers : at'[d].step = "launching" /\ t = (Current(d))'
  <2>1. PICK d \in Callers : at[d].step = "launching" /\ t = Current(d)
    BY <1>6 DEF SequentialUse
  <2>2. at'[d] = at[d]
    BY <1>1, <1>3, <2>1, NamesAreDistinct
  <2> QED
    BY <2>1, <2>2 DEF Current
<1>7. \A q \in Procs : at'[q].step # "released"
  BY <1>2, <1>3, NamesAreDistinct DEF AnyUse, MutexHeld, Stopping
<1> QED
  BY <1>2, <1>4, <1>5, <1>6, <1>7 DEF SequentialUse

LEMMA SequentialRegister ==
  ASSUME AnyUse, SequentialUse, Sequential, NEW c \in Callers, Register(c)
  PROVE  SequentialUse'
<1>1. /\ at \in [Procs -> [step : Steps, run : Runs \cup {NoRun}, k : Nat]]
      /\ task \in [Tasks -> TaskStates]
      /\ c \in Procs /\ Starting(c) /\ at[c].k \in DOMAIN Order
  BY NamesAreDistinct, OrderIsInjective
  DEF AnyUse, TypeOK, Register, InMaking, RunInMaking, Starting
<1>2. /\ running /\ ~cancelled /\ smu = Nobody
      /\ \A q \in Procs : ~Stopping(q)
      /\ \A d \in Callers : Starting(d) => d = c
  BY <1>1, StarterIsAlone
<1>3. /\ task' = [task EXCEPT ![Current(c)] = "made"]
      /\ at' = [at EXCEPT ![c].step = "launching"]
      /\ UNCHANGED <<prog, pos, smu, running, wg, cancelled>>
  BY DEF Register, Current
<1>4. /\ \A q \in Procs : q # c => at'[q] = at[q]
      /\ at'[c].step = "launching" /\ (Current(c))' = Current(c)
  BY <1>1, <1>3 DEF Current
<1>5. \A d \in Callers : (Starting(d))' => Starting(d)
  BY <1>1, <1>4, NamesAreDistinct DEF Starting
<1>6. ASSUME NEW t \in Tasks, task'[t] = "made"
      PROVE  \E d \in Callers : at'[d].step = "launching" /\ t = (Current(d))'
  <2>1. at[c].step = "starting"
    BY DEF Register
  <2>2. \A d \in Callers : at[d].step # "launching"
    BY <1>2, <2>1 DEF Starting
  <2>3. task[t] # "made"
    BY <2>2 DEF SequentialUse
  <2>4. t = Current(c)
    BY <1>1, <1>3, <1>6, <2>3
  <2> QED
    BY <1>4, <2>4
<1>7. \A q \in Procs : at'[q].step # "released"
  BY <1>2, <1>4 DEF Stopping
<1> QED
  BY <1>2, <1>3, <1>5, <1>6, <1>7 DEF SequentialUse

LEMMA SequentialLaunch ==
  ASSUME AnyUse, SequentialUse, Sequential, NEW c \in Callers, Launch(c)
  PROVE  SequentialUse'
<1>1. /\ at \in [Procs -> [step : Steps, run : Runs \cup {NoRun}, k : Nat]]
      /\ task \in [Tasks -> TaskStates]
      /\ c \in Procs /\ Starting(c)
  BY NamesAreDistinct DEF AnyUse, TypeOK, Launch, Starting
<1>2. /\ running /\ ~cancelled /\ smu = Nobody
      /\ \A q \in Procs : ~Stopping(q)
      /\ \A d \in Callers : Starting(d) => d = c
  BY <1>1, StarterIsAlone
<1>3. /\ task' = [task EXCEPT ![Current(c)] = "select"]
      /\ at' = [at EXCEPT ![c].step = "starting", ![c].k = @ + 1]
      /\ UNCHANGED <<prog, pos, smu, running, cancelled>>
  BY DEF Launch, Current
<1>4. /\ \A q \in Procs : q # c => at'[q] = at[q]
      /\ at'[c].step = "starting"
  BY <1>1, <1>3
<1>5. \A d \in Callers : (Starting(d))' => Starting(d)
  BY <1>1, <1>4, NamesAreDistinct DEF Starting
<1>6. \A t \in Tasks : task'[t] # "made"
  <2> SUFFICES ASSUME NEW t \in Tasks, task'[t] = "made" PROVE FALSE
    OBVIOUS
  <2>1. task[t] = "made" /\ t # Current(c)
    BY <1>1, <1>3
  <2>2. PICK d \in Callers : at[d].step = "launching" /\ t = Current(d)
    BY <2>1 DEF SequentialUse
  <2> QED
    BY <1>2, <2>1, <2>2 DEF Starting
<1>7. \A q \in Procs : at'[q].step # "released"
  BY <1>2, <1>4 DEF Stopping
<1> QED
  BY <1>2, <1>3, <1>5, <1>6, <1>7 DEF SequentialUse

LEMMA SequentialEndStart ==
  ASSUME AnyUse, SequentialUse, Sequential, NEW c \in Callers, EndStart(c)
  PROVE  SequentialUse'
<1> DEFINE r == at[c].run
<1>1. /\ at \in [Procs -> [step : Steps, run : Runs \cup {NoRun}, k : Nat]]
      /\ c \in Procs /\ Starting(c) /\ at[c].step = "starting"
      /\ r \in Runs /\ r \in Procs /\ r \notin Callers
  BY NamesAreDistinct, BoundAssumption
  DEF AnyUse, TypeOK, EndStart, InMaking, RunInMaking, Starting, Runs
<1>2. /\ running /\ ~cancelled /\ smu = Nobody
      /\ \A q \in Procs : ~Stopping(q)
      /\ \A d \in Callers : Starting(d) => d = c
  BY <1>1, StarterIsAlone
<1>3. /\ at' = [at EXCEPT ![c] = Idle, ![r].run = r]
      /\ UNCHANGED <<prog, smu, running, task, wg, cancelled>>
  BY DEF EndStart
<1> HIDE DEF r
<1>4. /\ \A d \in Callers : d # c => at'[d] = at[d]
      /\ at'[c].step = "idle"
      /\ \A q \in Procs : q # c => at'[q].step = at[q].step
  BY <1>1, <1>3, NamesAreDistinct DEF Idle
<1>5. \A d \in Callers : ~(Starting(d))'
  BY <1>2, <1>4 DEF Starting
<1>6. \A t \in Tasks : task[t] # "made"
  BY <1>1, <1>2 DEF SequentialUse, Starting
<1>7. \A q \in Procs : at'[q].step # "released"
  BY <1>2, <1>4 DEF Stopping
<1> QED
  BY <1>2, <1>3, <1>5, <1>6, <1>7 DEF SequentialUse

(* Nobody is starting while somebody stops. *)
LEMMA StopperIsAlone ==
  ASSUME AnyUse, SequentialUse, Sequential, NEW p \in Procs, CallsStop(p) \/ Stopping(p)
  PROVE  /\ \A c \in Callers : ~Starting(c)
         /\ \A t \in Tasks : task[t] # "made"
<1>1. ASSUME NEW c \in Callers, Starting(c) PROVE FALSE
  <2>1. p # c
    BY <1>1 DEF Starting, Stopping, CallsStop, Calling, Idle
  <2> QED
    BY <1>1, <2>1, StarterIsAlone
<1> QED
  BY <1>1 DEF SequentialUse, Starting

LEMMA SequentialStop ==
  ASSUME AnyUse, SequentialUse, Sequential, NEW p \in Procs, BeginStop(p) \/ Wait(p)
  PROVE  SequentialUse'
<1>1. /\ \A c \in Callers : ~Starting(c)
      /\ \A t \in Tasks : task[t] # "made"
  BY StopperIsAlone DEF BeginStop, Wait, Stopping
<1>2. /\ UNCHANGED <<prog, pos, running, task, wg, cancelled>>
      /\ \A q \in Procs : q # p => at'[q] = at[q]
      /\ at'[p].step \in {"closing", "waiting"}
  BY DEF BeginStop, Wait, AnyUse, TypeOK
<1>3. running
  BY NamesAreDistinct DEF BeginStop, Wait, Stopping, AnyUse, MutexHeld, SequentialUse
<1>4. \A c \in Callers : ~(Starting(c))'
  BY <1>1, <1>2, NamesAreDistinct DEF Starting
<1>5. \A q \in Procs : at'[q].step = "released" => wg = 0
  BY <1>2 DEF SequentialUse
<1> QED
  BY <1>1, <1>2, <1>3, <1>4, <1>5 DEF SequentialUse

(* The counter is 0, so no goroutine is left, and none is about to start.   *)
LEMMA StopEndsQuiet ==
  ASSUME AnyUse, SequentialUse, Sequential, NEW p \in Procs, EndStop(p)
  PROVE  Quiet
<1>1. wg = 0 /\ Stopping(p)
  BY DEF EndStop, WaitOver, Stopping
<1>2. Alive = {}
  BY <1>1, FS_EmptySet DEF AnyUse, Counted, WaitGroupCounts
<1>3. \A t \in Tasks : task[t] # "made" /\ task[t] \in TaskStates
  BY <1>1, StopperIsAlone DEF AnyUse, TypeOK
<1> QED
  BY <1>2, <1>3 DEF Quiet, Alive, Started, TaskStates

LEMMA SequentialEndStop ==
  ASSUME AnyUse, SequentialUse, Sequential, NEW p \in Procs, EndStop(p)
  PROVE  SequentialUse'
<1>1. /\ wg = 0 /\ Stopping(p)
      /\ at' = [at EXCEPT ![p] = Idle] /\ smu' = Nobody /\ running' = FALSE
      /\ UNCHANGED <<prog, task, wg, cancelled>>
  BY DEF EndStop, WaitOver, Stopping, StopReturns
<1>2. /\ \A q \in Procs : q # p => at'[q] = at[q]
      /\ at'[p].step = "idle"
  BY <1>1 DEF AnyUse, TypeOK, Idle
<1>3. Quiet'
  BY <1>1, StopEndsQuiet DEF Quiet
<1>4. \A c \in Callers : ~(Starting(c))'
  BY <1>1, <1>2, StopperIsAlone, NamesAreDistinct DEF Starting
<1>5. cancelled => \A c \in Callers : \A i \in DOMAIN prog[c] :
                     i >= pos'[c] => prog[c][i] # "Start"
  <2>1. /\ pos \in [Callers -> Nat \ {0}]
        /\ \A c \in Callers : pos'[c] = pos[c] \/ pos'[c] = pos[c] + 1
    BY DEF EndStop, StopReturns, AnyUse, TypeOK
  <2>2. \A c \in Callers : DOMAIN prog[c] \subseteq Nat
    <3>1. \A c \in Callers : prog[c] \in Seq(Calls)
      BY DEF AnyUse, TypeOK
    <3>2. \A c \in Callers : DOMAIN prog[c] = 1..Len(prog[c])
      BY <3>1
    <3> QED
      BY <3>2
  <2>3. ASSUME cancelled, NEW c \in Callers, NEW i \in DOMAIN prog[c], i >= pos'[c]
        PROVE  prog[c][i] # "Start"
    <3>1. i >= pos[c]
      BY <2>1, <2>2, <2>3
    <3> QED
      BY <2>3, <3>1 DEF SequentialUse
  <2> QED
    BY <2>3
<1>6. \A t \in Tasks : task[t] # "made"
  BY <1>1, StopperIsAlone
<1> QED
  BY <1>1, <1>3, <1>4, <1>5, <1>6 DEF SequentialUse

(* A task that exists runs only while the service is running. *)
LEMMA SequentialTaskStep ==
  ASSUME AnyUse, SequentialUse, Sequential, AnyUse',
         NEW t \in Tasks, Tick(t) \/ TaskStep(t)
  PROVE  SequentialUse'
<1>1. CASE Tick(t)
  BY <1>1 DEF Tick, SequentialUse, Quiet, Starting, Current
<1>2. ASSUME TaskStep(t) PROVE SequentialUse'
  <2>1. /\ task \in [Tasks -> TaskStates] /\ task[t] \in {"select", "working"}
        /\ task' \in [Tasks -> TaskStates] /\ task'[t] # "made"
        /\ \A x \in Tasks : x # t => task'[x] = task[x]
        /\ UNCHANGED <<prog, pos, smu, running, cancelled>>
    BY <1>2 DEF TaskStep, Work, EndWork, Exit, AnyUse, TypeOK
  <2>2. running
    BY <2>1 DEF SequentialUse, Quiet
  <2>3. \A q \in Procs :
          \/ at'[q] = at[q]
          \/ at[q].step = "waiting" /\ at'[q].step = "released" /\ wg' = 0
    BY <1>2 DEF TaskStep, Work, EndWork, Exit, Done, AnyUse, TypeOK
  <2>4. ASSUME NEW q \in Procs, at'[q].step = "released" PROVE wg' = 0
    <3>1. CASE at'[q] = at[q]
      <4>1. wg = 0
        BY <2>4, <3>1 DEF SequentialUse
      <4>2. wg' = wg \/ wg' = wg - 1
        BY <1>2 DEF TaskStep, Work, EndWork, Exit, Done
      <4>3. wg' \in Nat
        BY DEF AnyUse, TypeOK
      <4> QED
        BY <4>1, <4>2, <4>3
    <3> QED
      BY <2>3, <3>1
  <2>5. \A c \in Callers : Starting(c) \/ (Starting(c))' => at'[c] = at[c]
    BY <2>3, NamesAreDistinct DEF Starting
  <2>6. ASSUME NEW x \in Tasks, task'[x] = "made"
        PROVE  \E c \in Callers : at'[c].step = "launching" /\ x = (Current(c))'
    <3>1. task[x] = "made"
      BY <2>1, <2>6
    <3>2. PICK c \in Callers : at[c].step = "launching" /\ x = Current(c)
      BY <3>1 DEF SequentialUse
    <3>3. at'[c] = at[c]
      BY <2>5, <3>2 DEF Starting
    <3> QED
      BY <3>2, <3>3 DEF Current
  <2>7. \A c \in Callers : (Starting(c))' => Starting(c)
    BY <2>5 DEF Starting
  <2> QED
    BY <2>1, <2>2, <2>4, <2>6, <2>7 DEF SequentialUse
<1> QED
  BY <1>1, <1>2

LEMMA SequentialStep ==
  ASSUME AnyUse, SequentialUse, Sequential, AnyUse', [Next]_vars
  PROVE  SequentialUse'
<1>1. ASSUME NEW p \in Procs, CallStep(p) PROVE SequentialUse'
  <2>1. ASSUME p \in Callers, Cancel(p) \/ IsRunning(p) \/ StartTwice(p) PROVE SequentialUse'
    <3>1. CASE Cancel(p)
      <4>1. cancelled' = cancelled \/ (p \in Callers /\ Calling(p, "Cancel")
                                       /\ pos' = [pos EXCEPT ![p] = @ + 1])
        BY <2>1, <3>1 DEF Cancel, Return
      <4> QED
        BY <2>1, <3>1, <4>1, SequentialIdleCall DEF Cancel, Calling, Return
    <3>2. CASE IsRunning(p) \/ StartTwice(p)
      BY <2>1, <3>2, SequentialIdleCall DEF IsRunning, StartTwice, Calling, Return
    <3> QED
      BY <2>1, <3>1, <3>2
  <2>2. CASE p \in Callers /\ BeginStart(p)
    BY <2>2, SequentialBeginStart
  <2>3. CASE p \in Callers /\ Register(p)
    BY <2>3, SequentialRegister
  <2>4. CASE p \in Callers /\ Launch(p)
    BY <2>4, SequentialLaunch
  <2>5. CASE p \in Callers /\ EndStart(p)
    BY <2>5, SequentialEndStart
  <2>6. CASE StopNothing(p)
    <3>1. at[p].step = "idle"
      BY <2>6 DEF StopNothing, CallsStop, Calling, Idle
    <3> QED
      BY <2>6, <3>1, SequentialIdleCall DEF StopNothing, StopReturns
  <2>7. CASE BeginStop(p) \/ Wait(p)
    BY <2>7, SequentialStop
  <2>8. CASE EndStop(p)
    BY <2>8, SequentialEndStop
  <2>9. CASE WaitPanics(p)
    BY <2>9 DEF WaitPanics, SequentialUse
  <2> QED
    BY <1>1, <2>1, <2>2, <2>3, <2>4, <2>5, <2>6, <2>7, <2>8, <2>9
    DEF CallStep, StartStep, StopStep
<1>2. ASSUME NEW t \in Tasks, Tick(t) \/ TaskStep(t) PROVE SequentialUse'
  BY <1>2, SequentialTaskStep
<1>3. CASE UNCHANGED vars
  BY <1>3 DEF vars, SequentialUse, Quiet, Starting, Current
<1> QED
  BY <1>1, <1>2, <1>3 DEF Next

LEMMA SequentialInit == Init => SequentialUse
BY NamesAreDistinct DEF Init, Idle, SequentialUse, Quiet, Starting

(* The programs never change. *)
LEMMA SequentialForever == [Next]_vars => (Sequential' <=> Sequential)
<1> SUFFICES ASSUME [Next]_vars PROVE prog' = prog
  BY DEF Sequential
<1> QED
  BY DEF Next, vars, CallStep, StartStep, StopStep, TaskStep, Cancel, IsRunning, StartTwice,
         BeginStart, Register, Launch, EndStart, StopNothing, BeginStop, Wait, EndStop,
         WaitPanics, Tick, Work, EndWork, Exit

-----------------------------------------------------------------------------
(* The inductive invariant holds in every state, for every set of callers,  *)
(* every program and every number of starts.                                *)
THEOREM AlwaysIndInv == Spec => []IndInv
<1>1. Init => IndInv
  BY AnyUseInit, SequentialInit DEF IndInv
<1>2. IndInv /\ [Next]_vars => IndInv'
  <2> SUFFICES ASSUME IndInv, [Next]_vars PROVE IndInv'
    OBVIOUS
  <2>1. AnyUse'
    BY AnyUseStep DEF IndInv
  <2>2. Sequential' => SequentialUse'
    BY <2>1, SequentialForever, SequentialStep DEF IndInv
  <2> QED
    BY <2>1, <2>2 DEF IndInv
<1> QED
  BY <1>1, <1>2, PTL DEF Spec

(* Every variable keeps its type; in particular wg.Done never takes the     *)
(* counter below 0 (scheduler_service.go:129).                              *)
THEOREM TypeCorrect == Spec => []TypeOK
<1>1. IndInv => TypeOK
  BY DEF IndInv, AnyUse
<1> QED
  BY <1>1, AlwaysIndInv, PTL

(* However Start and Stop are called, the WaitGroup counts the goroutines   *)
(* that have been launched and have not returned                            *)
(* (scheduler_service.go:127-129).                                          *)
THEOREM WaitGroupIsExact == Spec => []WaitGroupCounts
<1>1. IndInv => WaitGroupCounts
  BY DEF IndInv, AnyUse, Counted
<1> QED
  BY <1>1, AlwaysIndInv, PTL

(* However Start and Stop are called, no stop channel is closed twice       *)
(* (scheduler_service.go:91-95).                                            *)
THEOREM NothingIsClosedTwice == Spec => []NoDoubleClose
<1>1. IndInv => NoDoubleClose
  BY DEF IndInv, AnyUse
<1> QED
  BY <1>1, AlwaysIndInv, PTL

(* In the server's way of using it, a scheduler that is not running has no  *)
(* task left (scheduler_service.go:97-100).                                 *)
THEOREM StoppedIsQuiet == Spec => []StoppedMeansQuiet
<1>1. IndInv => StoppedMeansQuiet
  BY DEF IndInv, SequentialUse, StoppedMeansQuiet
<1> QED
  BY <1>1, AlwaysIndInv, PTL

(* In the server's way of using it, no waiter of Stop wakes to a counter    *)
(* that has grown again, which is the panic of sync.WaitGroup               *)
(* (scheduler_service.go:98, 127).                                          *)
NoReuse == Sequential => \A p \in Procs : at[p].step = "released" => wg = 0
THEOREM WaitGroupIsNotReused == Spec => []NoReuse
<1>1. IndInv => NoReuse
  BY DEF IndInv, SequentialUse, NoReuse
<1> QED
  BY <1>1, AlwaysIndInv, PTL

(* In the server's way of using it, Stop keeps the promise it breaks when   *)
(* Start and Stop race: a Stop that stops the service returns when every    *)
(* task has ended (scheduler_service.go:97-100).                            *)
StopWaitsForAll == [][Sequential => \A p \in Procs : EndStop(p) => Quiet]_vars
THEOREM StopWaits == Spec => StopWaitsForAll
<1>1. IndInv /\ [Next]_vars => [Sequential => \A p \in Procs : EndStop(p) => Quiet]_vars
  BY StopEndsQuiet DEF IndInv
<1> QED
  BY <1>1, AlwaysIndInv, PTL DEF Spec, StopWaitsForAll
=============================================================================
