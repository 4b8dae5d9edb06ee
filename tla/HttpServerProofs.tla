-------------------------- MODULE HttpServerProofs --------------------------
(***************************************************************************)
(* Proofs about HttpServer, for every value of its constants: what the     *)
(* routes reach, whatever the requests, and that the program as written    *)
(* never serves.                                                           *)
(***************************************************************************)
EXTENDS HttpServer, FiniteSetTheorems, SequenceTheorems, TLAPS

-----------------------------------------------------------------------------
(* Start-up. *)

Patterns == {<<"health">>, <<"ready">>, <<"info">>, <<"">>, <<"api", "">>}

LEMMA FiveAndOne ==
  ASSUME NEW S, NEW a \in Seq(S), Len(a) = 5, NEW b \in Seq(S), Len(b) = 1, a[4] = b[1]
  PROVE  a \o b \in Seq(S) /\ Len(a \o b) = 6 /\ (a \o b)[4] = (a \o b)[6]
<1> DEFINE c == a \o b
<1>1. c \in Seq(S) /\ Len(c) = Len(a) + Len(b)
  BY ConcatProperties, Zenon
<1>2. \A i \in 1..(Len(a) + Len(b)) : c[i] = IF i <= Len(a) THEN a[i] ELSE b[i - Len(a)]
  BY ConcatProperties, Zenon
<1> HIDE DEF c
<1>3. c[4] = a[4] /\ c[6] = b[1] /\ Len(c) = 6
  BY <1>1, <1>2
<1> QED
  BY <1>1, <1>3 DEF c

LEMMA ThreeAndTwo ==
  ASSUME NEW S, NEW a \in Seq(S), Len(a) = 3, NEW b \in Seq(S), Len(b) = 2
  PROVE  a \o b = <<a[1], a[2], a[3], b[1], b[2]>>
<1> DEFINE c == a \o b
<1> DEFINE d == <<a[1], a[2], a[3], b[1], b[2]>>
<1>1. c \in Seq(S) /\ Len(c) = Len(a) + Len(b)
  BY ConcatProperties, Zenon
<1>2. \A i \in 1..(Len(a) + Len(b)) : c[i] = IF i <= Len(a) THEN a[i] ELSE b[i - Len(a)]
  BY ConcatProperties, Zenon
<1> HIDE DEF c
<1>3. /\ c[1] = a[1] /\ c[2] = a[2] /\ c[3] = a[3] /\ c[4] = b[1] /\ c[5] = b[2]
      /\ Len(c) = 5
  BY <1>1, <1>2
<1>4. a[1] \in S /\ a[2] \in S /\ a[3] \in S /\ b[1] \in S /\ b[2] \in S
  <2>1. \A s \in Seq(S) : \A i \in 1..Len(s) : s[i] \in S
    BY ElementOfSeq, Zenon
  <2> QED
    BY <2>1, SMTT(30)
<1>5. /\ d \in Seq(S) /\ Len(d) = 5
      /\ d[1] = a[1] /\ d[2] = a[2] /\ d[3] = a[3] /\ d[4] = b[1] /\ d[5] = b[2]
  BY <1>4
<1> HIDE DEF d
<1>6. ASSUME NEW i \in 1..5 PROVE c[i] = d[i]
  <2>1. i = 1 \/ i = 2 \/ i = 3 \/ i = 4 \/ i = 5
    OBVIOUS
  <2> QED
    BY <1>3, <1>5, <2>1
<1>7. c = d
  BY <1>1, <1>3, <1>5, <1>6, SeqEqual
<1> QED
  BY <1>7 DEF c, d

(* The patterns of the first five registrations, one by one. *)
LEMMA FirstRegistrations ==
  HealthPatterns \o <<<<"">>, <<"api", "">>>>
    = <<<<"health">>, <<"ready">>, <<"info">>, <<"">>, <<"api", "">>>>
<1> DEFINE p1 == <<"health">>
<1> DEFINE p2 == <<"ready">>
<1> DEFINE p3 == <<"info">>
<1> DEFINE p4 == <<"">>
<1> DEFINE p5 == <<"api", "">>
<1> DEFINE a == <<p1, p2, p3>>
<1> DEFINE b == <<p4, p5>>
<1>1. p1 \in Patterns /\ p2 \in Patterns /\ p3 \in Patterns /\ p4 \in Patterns /\ p5 \in Patterns
  BY DEF Patterns
<1>2. HealthPatterns = a
  BY DEF HealthPatterns
<1> HIDE DEF p1, p2, p3, p4, p5
<1>3. /\ a \in Seq(Patterns) /\ Len(a) = 3 /\ a[1] = p1 /\ a[2] = p2 /\ a[3] = p3
      /\ b \in Seq(Patterns) /\ Len(b) = 2 /\ b[1] = p4 /\ b[2] = p5
  BY <1>1
<1> HIDE DEF a, b
<1>4. a \o b = <<a[1], a[2], a[3], b[1], b[2]>>
  BY <1>3, ThreeAndTwo
<1>5. a \o b = <<p1, p2, p3, p4, p5>>
  BY <1>3, <1>4
<1> QED
  BY <1>2, <1>5 DEF b, p1, p2, p3, p4, p5

(* The fourth registration and the sixth are the same. *)
LEMMA RegistersTwice ==
  /\ Registrations(TRUE) \in Seq(Patterns)
  /\ Len(Registrations(TRUE)) = 6
  /\ Registrations(TRUE)[4] = Registrations(TRUE)[6]
<1> DEFINE once == <<<<"health">>, <<"ready">>, <<"info">>, <<"">>, <<"api", "">>>>
<1> DEFINE more == <<<<"">>>>
<1>1. once \in Seq(Patterns) /\ Len(once) = 5 /\ once[4] = <<"">>
  <2> DEFINE p1 == <<"health">>
  <2> DEFINE p2 == <<"ready">>
  <2> DEFINE p3 == <<"info">>
  <2> DEFINE p4 == <<"">>
  <2> DEFINE p5 == <<"api", "">>
  <2>1. p1 \in Patterns /\ p2 \in Patterns /\ p3 \in Patterns /\ p4 \in Patterns /\ p5 \in Patterns
    BY DEF Patterns
  <2>2. once = <<p1, p2, p3, p4, p5>>
    OBVIOUS
  <2> HIDE DEF p1, p2, p3, p4, p5, once
  <2>3. once \in Seq(Patterns) /\ Len(once) = 5 /\ once[4] = p4
    BY <2>1, <2>2
  <2> QED
    BY <2>3 DEF p4
<1>2. more \in Seq(Patterns) /\ Len(more) = 1 /\ more[1] = <<"">>
  <2> DEFINE p4 == <<"">>
  <2>1. p4 \in Patterns
    BY DEF Patterns
  <2>2. more = <<p4>>
    OBVIOUS
  <2> HIDE DEF p4, more
  <2>3. more \in Seq(Patterns) /\ Len(more) = 1 /\ more[1] = p4
    BY <2>1, <2>2
  <2> QED
    BY <2>3 DEF p4
<1>3. Registrations(TRUE) = once \o more
  BY FirstRegistrations DEF Registrations
<1> HIDE DEF once, more
<1>4. once[4] = more[1]
  BY <1>1, <1>2
<1>5. /\ once \o more \in Seq(Patterns) /\ Len(once \o more) = 6
      /\ (once \o more)[4] = (once \o more)[6]
  BY <1>1, <1>2, <1>4, FiveAndOne, Zenon
<1> QED
  BY <1>3, <1>5, Zenon

(* As written, main has registered a prefix of its patterns or crashed. *)
StartInv ==
  again =>
    \/ phase = "crashed"
    \/ /\ phase = "registering"
       /\ todo \in Seq(Patterns)
       /\ \E n \in 0..5 :
            /\ Len(todo) = 6 - n
            /\ \A i \in 1..(6 - n) : todo[i] = Registrations(TRUE)[n + i]
            /\ \A i \in 1..n : Registrations(TRUE)[i] \in mux

LEMMA InitStartInv == Init => StartInv
<1> SUFFICES ASSUME Init, again PROVE StartInv
  BY DEF StartInv
<1> DEFINE R == Registrations(TRUE)
<1>1. todo = R /\ phase = "registering"
  BY DEF Init
<1>2. R \in Seq(Patterns) /\ Len(R) = 6
  BY RegistersTwice
<1> HIDE DEF R
<1>3. \E n \in 0..5 : /\ Len(todo) = 6 - n
                      /\ \A i \in 1..(6 - n) : todo[i] = R[n + i]
                      /\ \A i \in 1..n : R[i] \in mux
  <2> WITNESS 0 \in 0..5
  <2> QED
    BY <1>1, <1>2
<1> QED
  BY <1>1, <1>2, <1>3 DEF StartInv, R

LEMMA NextStartInv == StartInv /\ [Next]_hvars => StartInv'
<1> SUFFICES ASSUME StartInv, [Next]_hvars, again' PROVE StartInv'
  BY DEF StartInv
<1>1. again
  BY DEF Next, hvars, Register, RegisterAgain, Listen, ListenFails, Signal, Shutdown, Exit, SchedulerRuns,
         Accept, Serve, Handle, WriteAnswer
<1> DEFINE R == Registrations(TRUE)
<1>0. R[4] = R[6]
  BY RegistersTwice
<1> HIDE DEF R
<1>2. CASE Register
  <2>1. PICK n \in 0..5 : /\ Len(todo) = 6 - n
                          /\ \A i \in 1..(6 - n) : todo[i] = R[n + i]
                          /\ \A i \in 1..n : R[i] \in mux
    BY <1>1, <1>2 DEF StartInv, Register, R
  <2>2. todo \in Seq(Patterns)
    BY <1>1, <1>2 DEF StartInv, Register
  <2>3. Head(todo) = R[n + 1]
    BY <2>1, <2>2
  <2>4. n # 5
    <3> SUFFICES ASSUME n = 5 PROVE FALSE
      OBVIOUS
    <3>1. R[6] = R[4] /\ R[4] \in mux /\ Head(todo) = R[6]
      BY <1>0, <2>1, <2>3
    <3> QED
      BY <1>2, <3>1 DEF Register
  <2>5. todo' \in Seq(Patterns) /\ Len(todo') = 6 - (n + 1) /\ n + 1 \in 0..5
    BY <1>2, <2>1, <2>2, <2>4 DEF Register
  <2>6. \A i \in 1..(6 - (n + 1)) : todo'[i] = R[(n + 1) + i]
    BY <1>2, <2>1, <2>2, <2>4 DEF Register
  <2>7. \A i \in 1..(n + 1) : R[i] \in mux'
    BY <1>2, <2>1, <2>3 DEF Register
  <2> QED
    BY <1>2, <2>5, <2>6, <2>7 DEF StartInv, Register, R
<1>3. CASE RegisterAgain
  BY <1>3 DEF RegisterAgain, StartInv
<1>4. CASE Listen
  <2>1. PICK n \in 0..5 : Len(todo) = 6 - n
    BY <1>1, <1>4 DEF StartInv, Listen
  <2> QED
    BY <1>4, <2>1 DEF Listen
<1>7. CASE ListenFails
  <2>1. CASE phase = "registering" /\ todo = <<>>
    <3>1. PICK n \in 0..5 : Len(todo) = 6 - n
      BY <1>1, <2>1 DEF StartInv
    <3> QED
      BY <2>1, <3>1
  <2>2. CASE phase \in {"serving", "stopping"}
    BY <1>1, <2>2 DEF StartInv
  <2> QED
    BY <1>7, <2>1, <2>2 DEF ListenFails
<1>5. CASE Signal \/ Shutdown \/ Exit
  BY <1>1, <1>5 DEF Signal, Shutdown, Exit, StartInv
<1>6. CASE UNCHANGED <<again, phase, todo, mux>>
  BY <1>6 DEF StartInv
<1> QED
  BY <1>2, <1>3, <1>4, <1>5, <1>6, <1>7
  DEF Next, hvars, SchedulerRuns, Accept, Serve, Handle, WriteAnswer

(* The program as written panics at its second registration of "/", and     *)
(* never serves a request (main.go:292).                                    *)
THEOREM NeverServes == Spec => []AsWrittenNeverServes
<1>1. StartInv => AsWrittenNeverServes
  BY DEF StartInv, AsWrittenNeverServes
<1> QED
  BY <1>1, InitStartInv, NextStartInv, PTL DEF Spec

-----------------------------------------------------------------------------
(* Routing: which handlers a request can reach. *)

(* No handler that changes a rule or an alert, unless it looks for one      *)
(* under the name of the operation.                                         *)
Harmless(handler, path) ==
  /\ handler \notin {"UpdateRule", "DeleteRule", "DeleteAlert"}
  /\ handler \in {"EnableRule", "DisableRule"} => Last(path) \in {"enable", "disable"}
  /\ handler \in {"AcknowledgeAlert", "ResolveAlert"} =>
       Last(path) \in {"acknowledge", "resolve"}

LEMMA ByMethodCalls ==
  ASSUME NEW handlers, NEW m, NEW S, \A x \in DOMAIN handlers : handlers[x] \in S
  PROVE  ByMethod(handlers, m).handler \in S \cup {""}
BY DEF ByMethod, Call, Reply

LEMMA ReplyCallsNobody == \A status : Reply(status).handler = ""
BY DEF Reply

(* What follows a prefix is the name of an operation or reaches nothing. *)
LEMMA SubRouteCalls ==
  ASSUME NEW r, r.path \in Seq(STRING), NEW single, NEW actions
  PROVE  \/ SubRoute(r, single, actions).handler = ""
         \/ /\ Last(r.path) \in DOMAIN actions
            /\ SubRoute(r, single, actions).handler = actions[Last(r.path)]
<1> DEFINE rest == SubSeq(r.path, 3, Len(r.path))
<1>1. CASE rest = <<"">>
  BY <1>1, ReplyCallsNobody DEF SubRoute
<1>2. CASE rest # <<"">> /\ Len(rest) = 1 /\ rest[1] \in DOMAIN actions
  <2>1. rest[1] = Last(r.path)
    <3>1. Len(r.path) \in Nat
      OBVIOUS
    <3>2. Len(rest) = IF 3 <= Len(r.path) THEN Len(r.path) - 2 ELSE 0
      BY <3>1, SubSeqProperties
    <3>0. Len(rest) = 1
      BY <1>2
    <3>3. Len(r.path) = 3
      <4> DEFINE n == Len(r.path)
      <4>1. n \in Nat /\ 1 = IF 3 <= n THEN n - 2 ELSE 0
        BY <3>1, <3>2, <3>0
      <4> HIDE DEF n
      <4>2. n = 3
        BY <4>1
      <4> QED
        BY <4>2 DEF n
    <3> HIDE DEF rest
    <3>4. rest[1] = r.path[3]
      BY <3>3 DEF rest
    <3> QED
      BY <3>3, <3>4 DEF Last
  <2>2. SubRoute(r, single, actions) = ByMethod([POST |-> actions[rest[1]]], r.method)
    BY <1>2 DEF SubRoute, RestIsEmpty
  <2>3. \/ SubRoute(r, single, actions).handler = ""
        \/ SubRoute(r, single, actions).handler = actions[rest[1]]
    <3> DEFINE a == actions[rest[1]]
    <3> HIDE DEF a
    <3> DEFINE h == [POST |-> a]
    <3>1. \A x \in DOMAIN h : h[x] \in {a}
      OBVIOUS
    <3> HIDE DEF h
    <3>2. ByMethod(h, r.method).handler \in {a} \cup {""}
      BY <3>1, ByMethodCalls
    <3> QED
      BY <2>2, <3>2 DEF h, a
  <2> QED
    BY <1>2, <2>1, <2>3
<1>3. CASE rest # <<"">> /\ ~(Len(rest) = 1 /\ rest[1] \in DOMAIN actions)
  BY <1>3, ReplyCallsNobody DEF SubRoute, RestIsEmpty
<1> QED
  BY <1>1, <1>2, <1>3

LEMMA RuleRouteHarmless ==
  ASSUME NEW r, r.path \in Seq(STRING), NEW pattern
  PROVE  Harmless(RuleRoute(r, pattern).handler, r.path)
<1>1. CASE pattern = <<"api", "rules">>
  <2>1. RuleRoute(r, pattern).handler \in {"", "CreateRule", "ListRules"}
    <3> DEFINE h == [POST |-> "CreateRule", GET |-> "ListRules"]
    <3>1. \A x \in DOMAIN h : h[x] \in {"CreateRule", "ListRules"}
      OBVIOUS
    <3>2. RuleRoute(r, pattern) = ByMethod(h, r.method)
      BY <1>1 DEF RuleRoute
    <3> HIDE DEF h
    <3> QED
      BY <3>1, <3>2, ByMethodCalls, ZenonT(60)
  <2> QED
    BY <2>1 DEF Harmless
<1>2. CASE pattern # <<"api", "rules">>
  <2> DEFINE actions == [enable |-> "EnableRule", disable |-> "DisableRule"]
  <2>1. /\ DOMAIN actions = {"enable", "disable"}
        /\ \A x \in DOMAIN actions : actions[x] \in {"EnableRule", "DisableRule"}
    OBVIOUS
  <2>2. \/ RuleRoute(r, pattern).handler = ""
        \/ /\ Last(r.path) \in DOMAIN actions
           /\ RuleRoute(r, pattern).handler = actions[Last(r.path)]
    BY <1>2, SubRouteCalls DEF RuleRoute
  <2> HIDE DEF actions
  <2> QED
    BY <2>1, <2>2 DEF Harmless
<1> QED
  BY <1>1, <1>2

LEMMA AlertRouteHarmless ==
  ASSUME NEW r, r.path \in Seq(STRING), NEW pattern
  PROVE  Harmless(AlertRoute(r, pattern).handler, r.path)
<1>1. CASE pattern \in {<<"api", "alerts">>, <<"api", "alerts", "active", "count">>}
  <2>1. AlertRoute(r, pattern).handler \in {"", "ListAlerts", "CountActive"}
    <3> DEFINE h == [GET |-> "ListAlerts"]
    <3> DEFINE g == [GET |-> "CountActive"]
    <3>1. /\ \A x \in DOMAIN h : h[x] \in {"ListAlerts", "CountActive"}
          /\ \A x \in DOMAIN g : g[x] \in {"ListAlerts", "CountActive"}
      OBVIOUS
    <3>2. \/ AlertRoute(r, pattern) = ByMethod(h, r.method)
          \/ AlertRoute(r, pattern) = ByMethod(g, r.method)
      BY <1>1 DEF AlertRoute
    <3> HIDE DEF h, g
    <3>3. ByMethod(h, r.method).handler \in {"ListAlerts", "CountActive"} \cup {""}
      BY <3>1, ByMethodCalls
    <3>4. ByMethod(g, r.method).handler \in {"ListAlerts", "CountActive"} \cup {""}
      BY <3>1, ByMethodCalls
    <3> QED
      BY <3>2, <3>3, <3>4
  <2> QED
    BY <2>1 DEF Harmless
<1>2. CASE pattern \notin {<<"api", "alerts">>, <<"api", "alerts", "active", "count">>}
  <2> DEFINE actions == [acknowledge |-> "AcknowledgeAlert", resolve |-> "ResolveAlert"]
  <2>1. /\ DOMAIN actions = {"acknowledge", "resolve"}
        /\ \A x \in DOMAIN actions : actions[x] \in {"AcknowledgeAlert", "ResolveAlert"}
    OBVIOUS
  <2>2. \/ AlertRoute(r, pattern).handler = ""
        \/ /\ Last(r.path) \in DOMAIN actions
           /\ AlertRoute(r, pattern).handler = actions[Last(r.path)]
    BY <1>2, SubRouteCalls DEF AlertRoute
  <2> HIDE DEF actions
  <2> QED
    BY <2>1, <2>2 DEF Harmless
<1> QED
  BY <1>1, <1>2

LogHandlers ==
  {"CreateLog", "QueryLogs", "DeleteBySource", "CreateBatchLogs", "GetLog", "DeleteLog"}

LEMMA LogMethods ==
  ASSUME NEW m
  PROVE  /\ ByMethod([POST |-> "CreateLog", GET |-> "QueryLogs", DELETE |-> "DeleteBySource"],
                     m).handler \in LogHandlers \cup {""}
         /\ ByMethod([POST |-> "CreateBatchLogs"], m).handler \in LogHandlers \cup {""}
         /\ ByMethod([GET |-> "GetLog", DELETE |-> "DeleteLog"], m).handler
              \in LogHandlers \cup {""}
<1> DEFINE all == [POST |-> "CreateLog", GET |-> "QueryLogs", DELETE |-> "DeleteBySource"]
<1> DEFINE batch == [POST |-> "CreateBatchLogs"]
<1> DEFINE one == [GET |-> "GetLog", DELETE |-> "DeleteLog"]
<1>1. \A x \in DOMAIN all : all[x] \in LogHandlers
  BY DEF LogHandlers
<1>2. \A x \in DOMAIN batch : batch[x] \in LogHandlers
  BY DEF LogHandlers
<1>3. \A x \in DOMAIN one : one[x] \in LogHandlers
  BY DEF LogHandlers
<1> HIDE DEF all, batch, one
<1>4. ByMethod(all, m).handler \in LogHandlers \cup {""}
  BY <1>1, ByMethodCalls
<1>5. ByMethod(batch, m).handler \in LogHandlers \cup {""}
  BY <1>2, ByMethodCalls
<1>6. ByMethod(one, m).handler \in LogHandlers \cup {""}
  BY <1>3, ByMethodCalls
<1> QED
  BY <1>4, <1>5, <1>6 DEF all, batch, one

LEMMA LogRouteHarmless ==
  ASSUME NEW r, NEW pattern,
         pattern \in {<<"api", "logs">>, <<"api", "logs", "batch">>, <<"api", "logs", "">>}
  PROVE  Harmless(LogRoute(r, pattern).handler, r.path)
<1> DEFINE all == [POST |-> "CreateLog", GET |-> "QueryLogs", DELETE |-> "DeleteBySource"]
<1> DEFINE batch == [POST |-> "CreateBatchLogs"]
<1> DEFINE one == [GET |-> "GetLog", DELETE |-> "DeleteLog"]
<1>2. \/ LogRoute(r, pattern) = Reply(405)
      \/ LogRoute(r, pattern) = ByMethod(all, r.method)
      \/ LogRoute(r, pattern) = ByMethod(batch, r.method)
      \/ LogRoute(r, pattern) = ByMethod(one, r.method)
  <2>1. CASE pattern = <<"api", "logs">>
    BY <2>1 DEF LogRoute
  <2>2. CASE pattern = <<"api", "logs", "batch">>
    BY <2>2 DEF LogRoute
  <2>3. CASE pattern = <<"api", "logs", "">>
    BY <2>3 DEF LogRoute
  <2> QED
    BY <2>1, <2>2, <2>3
<1>3. /\ ByMethod(all, r.method).handler \in LogHandlers \cup {""}
      /\ ByMethod(batch, r.method).handler \in LogHandlers \cup {""}
      /\ ByMethod(one, r.method).handler \in LogHandlers \cup {""}
  BY LogMethods
<1> HIDE DEF all, batch, one
<1>4. LogRoute(r, pattern).handler \in LogHandlers \cup {""}
  <2>1. CASE LogRoute(r, pattern) = Reply(405)
    BY <2>1, ReplyCallsNobody, ZenonT(60)
  <2>2. CASE LogRoute(r, pattern) = ByMethod(all, r.method)
    BY ONLY <2>2, <1>3
  <2>3. CASE LogRoute(r, pattern) = ByMethod(batch, r.method)
    BY ONLY <2>3, <1>3
  <2>4. CASE LogRoute(r, pattern) = ByMethod(one, r.method)
    BY ONLY <2>4, <1>3
  <2> QED
    BY ONLY <1>2, <2>1, <2>2, <2>3, <2>4
<1> QED
  BY <1>4 DEF Harmless, LogHandlers

LEMMA StatsRouteHarmless ==
  ASSUME NEW r, NEW pattern
  PROVE  Harmless(StatsRoute(r, pattern).handler, r.path)
<1> DEFINE S == {"GetStatistics", "GetDailyReport", "GetTrends"}
<1> DEFINE a == IF pattern = <<"api", "stats">> THEN "GetStatistics"
                ELSE IF Last(pattern) = "daily" THEN "GetDailyReport" ELSE "GetTrends"
<1> DEFINE h == [GET |-> a]
<1>1. a \in S
  OBVIOUS
<1>2. StatsRoute(r, pattern) = ByMethod(h, r.method)
  BY DEF StatsRoute
<1> HIDE DEF a, S
<1>3. \A x \in DOMAIN h : h[x] \in S
  BY <1>1
<1> HIDE DEF h
<1>4. StatsRoute(r, pattern).handler \in S \cup {""}
  BY <1>2, <1>3, ByMethodCalls
<1> QED
  BY <1>4 DEF Harmless, S

-----------------------------------------------------------------------------
(* The pattern that serves a path. *)

LEMMA ThreeSegments ==
  \A a, b, c : /\ Len(<<a, b, c>>) \in 2..4
               /\ <<a, b, c>>[2] = b
OBVIOUS

LEMMA ShapeOfPatterns ==
  \A p \in ApiPatterns :
    /\ Len(p) \in 2..4
    /\ p[2] \in {"logs", "rules", "alerts", "stats"}
    /\ p[2] = "logs" =>
         p \in {<<"api", "logs">>, <<"api", "logs", "batch">>, <<"api", "logs", "">>}
<1> SUFFICES ASSUME NEW p \in ApiPatterns
             PROVE  /\ Len(p) \in 2..4
                    /\ p[2] \in {"logs", "rules", "alerts", "stats"}
                    /\ p[2] = "logs" => p \in {<<"api", "logs">>, <<"api", "logs", "batch">>,
                                                <<"api", "logs", "">>}
  OBVIOUS
<1>1. CASE p = <<"api", "logs">>
  BY <1>1
<1>2. CASE p = <<"api", "logs", "batch">>
  BY <1>2
<1>3. CASE p = <<"api", "logs", "">>
  BY <1>3, ThreeSegments, Zenon
<1>4. CASE p = <<"api", "rules">>
  BY <1>4
<1>5. CASE p = <<"api", "rules", "">>
  BY <1>5, ThreeSegments, Zenon
<1>6. CASE p = <<"api", "alerts">>
  BY <1>6
<1>7. CASE p = <<"api", "alerts", "active", "count">>
  BY <1>7
<1>8. CASE p = <<"api", "alerts", "">>
  BY <1>8, ThreeSegments, Zenon
<1>9. CASE p = <<"api", "stats">>
  BY <1>9
<1>10. CASE p = <<"api", "stats", "hourly">>
  BY <1>10
<1>11. CASE p = <<"api", "stats", "sources">>
  BY <1>11
<1>12. CASE p = <<"api", "stats", "daily">>
  BY <1>12
<1>13. CASE p = <<"api", "stats", "error-rate">>
  BY <1>13
<1> QED
  BY <1>1, <1>2, <1>3, <1>4, <1>5, <1>6, <1>7, <1>8,
     <1>9, <1>10, <1>11, <1>12, <1>13 DEF ApiPatterns

LEMMA LongestCovers ==
  ASSUME NEW path, \E p \in ApiPatterns : Covers(p, path)
  PROVE  Longest(ApiPatterns, path) \in ApiPatterns
<1> DEFINE C == {q \in ApiPatterns : Covers(q, path)}
<1> DEFINE Best(p) == \A q \in ApiPatterns : Covers(q, path) => Len(q) <= Len(p)
<1>1. ASSUME NEW q \in C PROVE Len(q) \in Nat /\ 2 <= Len(q) /\ Len(q) <= 4
  <2>1. q \in ApiPatterns
    OBVIOUS
  <2> DEFINE n == Len(q)
  <2>2. n \in 2..4
    BY <2>1, ShapeOfPatterns
  <2> HIDE DEF n
  <2>3. n \in Nat /\ 2 <= n /\ n <= 4
    BY <2>2
  <2> QED
    BY <2>3 DEF n
<1>2. \E p \in C : Best(p)
  <2> SUFFICES \E p \in C : \A q \in C : Len(q) <= Len(p)
    OBVIOUS
  <2> HIDE DEF C
  <2>1. CASE \E p \in C : Len(p) = 4
    BY <1>1, <2>1
  <2>2. CASE (\E p \in C : Len(p) = 3) /\ ~\E p \in C : Len(p) = 4
    BY <1>1, <2>2
  <2>3. CASE ~(\E p \in C : Len(p) = 3) /\ ~\E p \in C : Len(p) = 4
    <3>1. ASSUME NEW q \in C PROVE Len(q) = 2
      <4> DEFINE n == Len(q)
      <4>1. n \in Nat /\ 2 <= n /\ n <= 4 /\ n # 3 /\ n # 4
        BY <1>1, <2>3
      <4> HIDE DEF n
      <4>2. n = 2
        BY <4>1
      <4> QED
        BY <4>2 DEF n
    <3>2. PICK p \in C : TRUE
      BY DEF C
    <3> QED
      BY <3>1, <3>2
  <2> QED
    BY <2>1, <2>2, <2>3
<1>3. Longest(ApiPatterns, path) = CHOOSE p \in C : Best(p)
  BY DEF Longest
<1> HIDE DEF Best
<1>4. (CHOOSE p \in C : Best(p)) \in C
  BY <1>2
<1> QED
  BY <1>3, <1>4

LEMMA RouteHarmless ==
  ASSUME NEW r \in Request
  PROVE  Harmless(Route(r).handler, r.path)
<1>0. r.path \in Seq(STRING)
  BY DEF Request
<1>1. Harmless("", r.path) /\ Harmless("Health", r.path)
  BY DEF Harmless
<1>2. Harmless(ApiRoute(r).handler, r.path)
  <2>1. CASE \A p \in ApiPatterns : ~Covers(p, r.path)
    BY <1>1, <2>1, ReplyCallsNobody DEF ApiRoute
  <2>2. CASE ~\A p \in ApiPatterns : ~Covers(p, r.path)
    <3> DEFINE p == Longest(ApiPatterns, r.path)
    <3>1. /\ p[2] \in {"logs", "rules", "alerts", "stats"}
          /\ p[2] = "logs" =>
               p \in {<<"api", "logs">>, <<"api", "logs", "batch">>, <<"api", "logs", "">>}
      BY <2>2, LongestCovers, ShapeOfPatterns
    <3>2. ApiRoute(r) = CASE p[2] = "logs"   -> LogRoute(r, p)
                          [] p[2] = "rules"  -> RuleRoute(r, p)
                          [] p[2] = "alerts" -> AlertRoute(r, p)
                          [] p[2] = "stats"  -> StatsRoute(r, p)
      BY <2>2 DEF ApiRoute
    <3> HIDE DEF p
    <3>3. CASE p[2] = "logs"
      BY <3>1, <3>2, <3>3, LogRouteHarmless
    <3>4. CASE p[2] = "rules"
      BY <1>0, <3>2, <3>4, RuleRouteHarmless
    <3>5. CASE p[2] = "alerts"
      BY <1>0, <3>2, <3>5, AlertRouteHarmless
    <3>6. CASE p[2] = "stats"
      BY <3>2, <3>6, StatsRouteHarmless
    <3> QED
      BY <3>1, <3>3, <3>4, <3>5, <3>6
  <2> QED
    BY <2>1, <2>2
<1>3. Harmless(Chain(r).handler, r.path)
  BY <1>1, <1>2, ReplyCallsNobody, ZenonT(60) DEF Chain
<1>4. Harmless(Home(r).handler, r.path)
  BY <1>1, ReplyCallsNobody, ZenonT(60) DEF Home
<1>5. Call("Health").handler = "Health"
  BY DEF Call
<1> DEFINE pattern == Longest(mux, r.path)
<1>6. Route(r) = CASE Append(r.path, "") \in mux -> Reply(301)
                   [] pattern = <<"api", "">> -> Chain(r)
                   [] pattern = <<"">> -> Home(r)
                   [] OTHER -> Call("Health")
  BY DEF Route
<1> HIDE DEF pattern
<1>7. Route(r) \in {Reply(301), Chain(r), Home(r), Call("Health")}
  BY <1>6
<1> QED
  BY <1>1, <1>3, <1>4, <1>5, <1>7, ReplyCallsNobody

-----------------------------------------------------------------------------
(* Handlers. *)

(* A state of the stores that keeps the rules and the alerts of db. *)
Keeps(d) ==
  /\ DOMAIN d = {"logs", "rules", "alerts"}
  /\ DOMAIN d.rules = RuleIds
  /\ d.alerts = db.alerts
  /\ \A x \in RuleIds : db.rules[x] # NoRule => d.rules[x] = db.rules[x]

StoresInv ==
  /\ DOMAIN db = {"logs", "rules", "alerts"}
  /\ DOMAIN db.rules = RuleIds

LEMMA LogsKeep ==
  ASSUME StoresInv
  PROVE  /\ Keeps(db)
         /\ \A kept : Keeps([db EXCEPT !.logs = kept])
BY DEF StoresInv, Keeps

LEMMA NewRuleKeeps ==
  ASSUME StoresInv, NEW id \in RuleIds, db.rules[id] = NoRule, NEW v
  PROVE  Keeps([db EXCEPT !.rules[id] = v])
BY DEF StoresInv, Keeps

LEMMA DoneIs ==
  ASSUME NEW status, NEW d, NEW o \in Done(status, d)
  PROVE  o.db = d
BY DEF Done

LEMMA StoreLogKeeps ==
  ASSUME StoresInv, NEW status, NEW o \in StoreLog(status)
  PROVE  Keeps(o.db)
<1> DEFINE After(kept) == [db EXCEPT !.logs = kept]
<1> DEFINE Lost(kept) == [status |-> Panic, db |-> After(kept), did |-> 0]
<1>1. \A kept : Lost(kept).db = After(kept)
  OBVIOUS
<1>2. \A kept : Keeps(After(kept))
  BY LogsKeep
<1> DEFINE stored == {Done(status, After((db.logs \ gone) \cup {id})) :
                         id \in LogIds \ db.logs, gone \in Evictions}
<1> DEFINE lost == {Lost(db.logs \ gone) : gone \in Evictions \ {{}}}
<1>3. StoreLog(status) = (UNION stored) \cup lost
  BY DEF StoreLog, StoresInv
<1> HIDE DEF After, Lost
<1>4. /\ \A T \in stored : \E id \in LogIds \ db.logs, gone \in Evictions :
           T = Done(status, After((db.logs \ gone) \cup {id}))
      /\ \A l \in lost : \E gone \in Evictions : l = Lost(db.logs \ gone)
  OBVIOUS
<1> HIDE DEF stored, lost
<1>5. CASE o \in UNION stored
  <2>1. PICK T \in stored : o \in T
    BY <1>5
  <2>2. PICK id \in LogIds \ db.logs, gone \in Evictions :
          T = Done(status, After((db.logs \ gone) \cup {id}))
    BY <1>4, <2>1
  <2> QED
    BY <1>2, <2>1, <2>2, DoneIs
<1>6. CASE o \in lost
  BY <1>1, <1>2, <1>4, <1>6
<1>7. o \in (UNION stored) \cup lost
  BY <1>3, Zenon
<1> QED
  BY <1>5, <1>6, <1>7

LEMMA AnswerKeeps ==
  ASSUME StoresInv, NEW status, NEW o \in Answer(status)
  PROVE  Keeps(o.db)
BY LogsKeep DEF Answer

LEMMA BatchOutcomes ==
  ASSUME NEW k, NEW o \in CreateBatchLogs(k)
  PROVE  \/ \E status : o \in Answer(status)
         \/ \E status : o \in StoreLog(status)
<1> DEFINE left == k.req.entries - k.did
<1> DEFINE c1 == k.req.input = "broken" \/ k.req.entries = 0
<1> DEFINE c2 == k.req.input \in {"bad level", "invalid"} /\ k.req.entries > 0
<1> DEFINE c3 == k.req.input = "valid" /\ left > 1
<1> DEFINE c4 == k.req.input = "valid" /\ left = 1
<1>1. CreateBatchLogs(k) =
        When(c1, Answer(400)) \cup When(c2, Answer(500))
        \cup When(c3, StoreLog(Unfinished)) \cup When(c4, StoreLog(201))
  BY DEF CreateBatchLogs
<1> HIDE DEF c1, c2, c3, c4
<1>2. CreateBatchLogs(k) \subseteq
        Answer(400) \cup Answer(500) \cup StoreLog(Unfinished) \cup StoreLog(201)
  BY <1>1 DEF When
<1> QED
  BY <1>2, ZenonT(60)

LEMMA CreateRuleOutcomes ==
  ASSUME NEW k, NEW o \in CreateRule(k)
  PROVE  \/ \E status : o \in Answer(status)
         \/ \E id \in RuleIds :
              /\ db.rules[id] = NoRule
              /\ o \in Done(201, [db EXCEPT !.rules[id] = [name |-> k.req.name, enabled |-> TRUE]])
<1> DEFINE taken == \E x \in RuleIds : db.rules[x].name = k.req.name
<1> DEFINE After(id) == [db EXCEPT !.rules[id] = [name |-> k.req.name, enabled |-> TRUE]]
<1> DEFINE new == UNION {Done(201, After(id)) : id \in {x \in RuleIds : db.rules[x] = NoRule}}
<1>1. CreateRule(k) =
        When(k.req.input # "valid", Answer(400))
        \cup When(k.req.input = "valid" /\ ~k.checked /\ taken, Answer(409))
        \cup When(k.req.input = "valid" /\ ~k.checked /\ ~taken, Answer(Unfinished))
        \cup When(k.checked, new)
  BY DEF CreateRule
<1> HIDE DEF taken, After
<1>2. o \in new => \E id \in RuleIds : db.rules[id] = NoRule /\ o \in Done(201, After(id))
  OBVIOUS
<1> HIDE DEF new
<1>3. CreateRule(k) \subseteq Answer(400) \cup Answer(409) \cup Answer(Unfinished) \cup new
  BY <1>1 DEF When
<1>4. (\E status : o \in Answer(status)) \/ o \in new
  BY <1>3, ZenonT(60)
<1> QED
  BY <1>2, <1>4 DEF After

LEMMA OutcomesKeep ==
  ASSUME StoresInv, NEW k, Harmless(k.handler, k.req.path), NEW o \in Outcomes(k)
  PROVE  Keeps(o.db)
<1>1. CASE k.handler = "CreateLog"
  <2>1. o \in CreateLog(k)
    BY <1>1 DEF Outcomes
  <2> QED
    BY <2>1, StoreLogKeeps, AnswerKeeps, ZenonT(60) DEF CreateLog, When
<1>2. CASE k.handler = "CreateBatchLogs"
  <2>1. o \in CreateBatchLogs(k)
    BY <1>2 DEF Outcomes
  <2>2. \/ \E status : o \in Answer(status)
        \/ \E status : o \in StoreLog(status)
    BY <2>1, BatchOutcomes
  <2> QED
    BY <2>2, StoreLogKeeps, AnswerKeeps
<1>3. CASE k.handler = "GetLog"
  <2>1. o \in GetLog(k)
    BY <1>3 DEF Outcomes
  <2> QED
    BY <2>1, AnswerKeeps, ZenonT(60) DEF GetLog, When
<1>4. CASE k.handler = "QueryLogs"
  BY <1>4, AnswerKeeps DEF Outcomes, QueryLogs
<1>5. CASE k.handler = "DeleteLog"
  <2>1. o \in DeleteLog(k)
    BY <1>5 DEF Outcomes
  <2> QED
    <3> DEFINE after == [db EXCEPT !.logs = @ \ {Target(k)}]
    <3>1. Keeps(after)
      BY LogsKeep
    <3> HIDE DEF after
    <3>2. (\E status : o \in Answer(status)) \/ o \in Done(204, after)
      BY <2>1, ZenonT(60) DEF DeleteLog, When, after
    <3> QED
      BY <3>1, <3>2, AnswerKeeps, DoneIs
<1>6. CASE k.handler = "DeleteBySource"
  <2>1. o \in DeleteBySource(k)
    BY <1>6 DEF Outcomes
  <2> QED
    BY <2>1, LogsKeep DEF DeleteBySource, Done
<1>7. CASE k.handler = "CreateRule"
  <2>1. o \in CreateRule(k)
    BY <1>7 DEF Outcomes
  <2> DEFINE v == [name |-> k.req.name, enabled |-> TRUE]
  <2> DEFINE After(id) == [db EXCEPT !.rules[id] = v]
  <2>2. \A id \in RuleIds : db.rules[id] = NoRule => Keeps(After(id))
    BY NewRuleKeeps
  <2>3. \/ \E status : o \in Answer(status)
        \/ \E id \in RuleIds : db.rules[id] = NoRule /\ o \in Done(201, After(id))
    BY <2>1, CreateRuleOutcomes
  <2> HIDE DEF After
  <2> QED
    BY <2>2, <2>3, AnswerKeeps, DoneIs
<1>8. CASE k.handler = "GetRule"
  BY <1>8, AnswerKeeps DEF Outcomes, GetRule
<1>9. CASE k.handler \in {"EnableRule", "DisableRule"}
  <2>1. ~Stored(Target(k))
    BY <1>9, HttpAssumption DEF Harmless, Stored, Target
  <2>2. o \in SwitchRule(k, TRUE) \/ o \in SwitchRule(k, FALSE)
    BY <1>9 DEF Outcomes
  <2> QED
    BY <2>1, <2>2, AnswerKeeps DEF SwitchRule
<1>10. CASE k.handler = "GetAlert"
  BY <1>10, AnswerKeeps DEF Outcomes, GetAlert
<1>11. CASE k.handler \in {"AcknowledgeAlert", "ResolveAlert"}
  <2>1. ~Raised(Target(k))
    BY <1>11, HttpAssumption DEF Harmless, Raised, Target
  <2>2. o \in ChangeAlert(k, 200, "acknowledged") \/ o \in ChangeAlert(k, 200, "resolved")
    BY <1>11 DEF Outcomes
  <2> QED
    BY <2>1, <2>2, AnswerKeeps DEF ChangeAlert
<1>12. CASE k.handler = "GetStatistics"
  BY <1>12, AnswerKeeps DEF Outcomes, GetStatistics
<1>13. CASE k.handler = "GetDailyReport"
  BY <1>13, AnswerKeeps DEF Outcomes, GetDailyReport
<1>14. CASE k.handler \notin {"CreateLog", "CreateBatchLogs", "GetLog", "QueryLogs", "DeleteLog",
            "DeleteBySource", "CreateRule", "GetRule", "EnableRule", "DisableRule", "GetAlert",
            "AcknowledgeAlert", "ResolveAlert", "GetStatistics", "GetDailyReport"}
  <2>1. k.handler \notin {"UpdateRule", "DeleteRule", "DeleteAlert"}
    BY DEF Harmless
  <2>2. o \in AlwaysFine
    BY <1>14, <2>1 DEF Outcomes
  <2> QED
    BY <2>2, AnswerKeeps DEF AlwaysFine
<1> QED
  BY <1>1, <1>2, <1>3, <1>4, <1>5, <1>6, <1>7, <1>8, <1>9, <1>10, <1>11, <1>12, <1>13, <1>14

-----------------------------------------------------------------------------
(* Every request under way is of a harmless kind. *)

ConnInv ==
  /\ DOMAIN conn = Clients
  /\ \A c \in Clients : conn[c] # Free =>
       /\ DOMAIN conn[c] = {"stage", "req", "handler", "status", "did", "checked"}
       /\ conn[c].req \in Request
       /\ Harmless(conn[c].handler, conn[c].req.path)

RouteInv == StoresInv /\ ConnInv

LEMMA InitRouteInv == Init => RouteInv
<1> SUFFICES ASSUME Init PROVE RouteInv
  OBVIOUS
<1>1. StoresInv
  BY DEF Init, StoresInv
<1>2. ConnInv
  BY DEF Init, ConnInv
<1> QED
  BY <1>1, <1>2 DEF RouteInv

LEMMA HandleKeeps ==
  ASSUME RouteInv, NEW c \in Clients, Handle(c)
  PROVE  Keeps(db')
<1>1. conn[c] # Free
  <2>1. conn[c].stage = "handling"
    BY DEF Handle
  <2> QED
    BY <2>1 DEF Free
<1>2. PICK o \in Outcomes(conn[c]) : db' = o.db
  BY DEF Handle
<1> QED
  BY <1>1, <1>2, OutcomesKeep DEF RouteInv, ConnInv

LEMMA AcceptRouteInv ==
  ASSUME RouteInv, NEW c \in Clients, NEW r \in Requests[c], Accept(c, r)
  PROVE  RouteInv'
<1>1. r \in Request
  BY HttpAssumption
<1> DEFINE to == Route(r)
<1> DEFINE k == [stage |-> IF to.handler = "" THEN "answering" ELSE "handling", req |-> r,
                 handler |-> to.handler, status |-> to.status, did |-> 0, checked |-> FALSE]
<1>2. conn' = [conn EXCEPT ![c] = k] /\ UNCHANGED db
  BY DEF Accept
<1>3. Harmless(to.handler, r.path)
  BY <1>1, RouteHarmless
<1> HIDE DEF to
<1>4. /\ DOMAIN k = {"stage", "req", "handler", "status", "did", "checked"}
      /\ k.req = r /\ k.handler = to.handler
  OBVIOUS
<1> HIDE DEF k
<1>5. ConnInv'
  <2>1. DOMAIN conn' = Clients /\ conn'[c] = k /\ \A d \in Clients \ {c} : conn'[d] = conn[d]
    BY <1>2 DEF RouteInv, ConnInv
  <2> QED
    BY <1>1, <1>3, <1>4, <2>1 DEF RouteInv, ConnInv
<1>6. StoresInv'
  BY <1>2 DEF RouteInv, StoresInv
<1> QED
  BY <1>5, <1>6 DEF RouteInv

LEMMA HandleRouteInv ==
  ASSUME RouteInv, NEW c \in Clients, Handle(c)
  PROVE  RouteInv'
<1>1. conn[c] # Free
  <2>1. conn[c].stage = "handling"
    BY DEF Handle
  <2> QED
    BY <2>1 DEF Free
<1>2. PICK o \in Outcomes(conn[c]) :
        conn' = [conn EXCEPT ![c] =
            [@ EXCEPT !.status = Recover(o.status), !.did = conn[c].did + o.did,
                      !.checked = TRUE,
                      !.stage = IF o.status = Unfinished THEN "handling" ELSE "answering"]]
  BY DEF Handle
<1> DEFINE k == conn'[c]
<1>3. /\ DOMAIN conn' = Clients
      /\ DOMAIN k = DOMAIN conn[c] /\ k.req = conn[c].req /\ k.handler = conn[c].handler
      /\ \A d \in Clients \ {c} : conn'[d] = conn[d]
  BY <1>1, <1>2 DEF RouteInv, ConnInv
<1>4. ConnInv'
  BY <1>1, <1>3 DEF RouteInv, ConnInv
<1>5. StoresInv'
  BY HandleKeeps DEF Keeps, StoresInv
<1> QED
  BY <1>4, <1>5 DEF RouteInv

LEMMA NextRouteInv == RouteInv /\ [Next]_hvars => RouteInv'
<1> SUFFICES ASSUME RouteInv, [Next]_hvars PROVE RouteInv'
  OBVIOUS
<1>1. CASE UNCHANGED <<db, conn>>
  BY <1>1 DEF RouteInv, StoresInv, ConnInv
<1>2. CASE SchedulerRuns
  <2>1. StoresInv'
    BY <1>2 DEF SchedulerRuns, RouteInv, StoresInv
  <2>2. ConnInv'
    BY <1>2 DEF SchedulerRuns, RouteInv, ConnInv
  <2> QED
    BY <2>1, <2>2 DEF RouteInv
<1>3. ASSUME NEW c \in Clients, WriteAnswer(c) PROVE RouteInv'
  <2>1. DOMAIN conn' = Clients /\ conn'[c] = Free /\ \A d \in Clients \ {c} : conn'[d] = conn[d]
    BY <1>3 DEF WriteAnswer, RouteInv, ConnInv
  <2>2. ConnInv'
    BY <2>1 DEF RouteInv, ConnInv
  <2>3. StoresInv'
    BY <1>3 DEF WriteAnswer, RouteInv, StoresInv
  <2> QED
    BY <2>2, <2>3 DEF RouteInv
<1> QED
  BY <1>1, <1>2, <1>3, AcceptRouteInv, HandleRouteInv
  DEF Next, Serve, hvars, Register, RegisterAgain, Listen, ListenFails, Signal, Shutdown, Exit

(* No request changes or removes a rule, and none changes an alert: no path *)
(* reaches the handlers that would (main.go:128, 188).                      *)
THEOREM RulesAreNeverChanged == Spec => RulesStayAsCreated
<1>1. RouteInv /\ [Next]_hvars =>
        [/\ \A x \in RuleIds : db.rules[x] # NoRule => db'.rules[x] = db.rules[x]
         /\ (\E c \in Clients : Handle(c)) => db'.alerts = db.alerts]_hvars
  <2> SUFFICES ASSUME RouteInv, Next
               PROVE  /\ \A x \in RuleIds : db.rules[x] # NoRule => db'.rules[x] = db.rules[x]
                      /\ (\E c \in Clients : Handle(c)) => db'.alerts = db.alerts
    OBVIOUS
  <2>1. (\E c \in Clients : Handle(c)) => Keeps(db')
    BY HandleKeeps
  <2>2. CASE \E c \in Clients : Handle(c)
    BY <2>1, <2>2 DEF Keeps
  <2>3. CASE ~\E c \in Clients : Handle(c)
    <3>1. db'.rules = db.rules
      <4>1. CASE SchedulerRuns
        BY <4>1 DEF SchedulerRuns, RouteInv, StoresInv
      <4>2. CASE UNCHANGED db
        BY <4>2
      <4> QED
        BY <2>3, <4>1, <4>2
        DEF Next, Serve, Register, RegisterAgain, Listen, ListenFails, Signal, Shutdown, Exit, Accept,
            WriteAnswer
    <3> QED
      BY <2>3, <3>1
  <2> QED
    BY <2>2, <2>3
<1>2. Spec => []RouteInv
  BY InitRouteInv, NextRouteInv, PTL DEF Spec
<1> QED
  BY <1>1, <1>2, PTL DEF Spec, RulesStayAsCreated

-----------------------------------------------------------------------------
(* What an answer tells.  First: what the routes give a request. *)

Writers ==
  {"CreateLog", "CreateBatchLogs", "DeleteLog", "DeleteBySource", "CreateRule", "UpdateRule",
   "DeleteRule", "EnableRule", "DisableRule", "AcknowledgeAlert", "ResolveAlert", "DeleteAlert"}

(* An answer without a handler reports no change and no failure of the      *)
(* server, and a GET reaches no handler that changes something.             *)
RoutedWell(to, r) ==
  /\ to.handler = "" => to.status \in {200, 301, 404, 405, 415}
  /\ r.method = "GET" => to.handler \notin Writers

(* A table of handlers by method. *)
AllHandlers ==
  Writers \cup {"GetLog", "QueryLogs", "GetRule", "ListRules", "GetAlert", "ListAlerts",
                "CountActive", "GetStatistics", "GetDailyReport", "GetTrends", "Health"}

ReadsOnGet(handlers) ==
  /\ \A m \in DOMAIN handlers : handlers[m] \in AllHandlers
  /\ "GET" \in DOMAIN handlers => handlers["GET"] \notin Writers

LEMMA ReplyRoutedWell ==
  ASSUME NEW r, NEW status \in {200, 301, 404, 405, 415}
  PROVE  RoutedWell(Reply(status), r)
BY DEF RoutedWell, Reply, Writers

LEMMA ByMethodRoutedWell ==
  ASSUME NEW r, NEW handlers, ReadsOnGet(handlers)
  PROVE  RoutedWell(ByMethod(handlers, r.method), r)
<1>1. CASE r.method \in DOMAIN handlers
  <2> DEFINE h == handlers[r.method]
  <2>1. ByMethod(handlers, r.method) = Call(h)
    BY <1>1 DEF ByMethod
  <2>2. h \in AllHandlers /\ (r.method = "GET" => h \notin Writers)
    BY <1>1 DEF ReadsOnGet
  <2> HIDE DEF h
  <2>3. Call(h).handler = h
    BY DEF Call
  <2>4. h # ""
    BY <2>2 DEF AllHandlers, Writers
  <2> QED
    BY <2>1, <2>2, <2>3, <2>4, ZenonT(60) DEF RoutedWell
<1>2. CASE r.method \notin DOMAIN handlers
  BY <1>2, ReplyRoutedWell DEF ByMethod
<1> QED
  BY <1>1, <1>2

LEMMA LogMethodsRead ==
  /\ ReadsOnGet([POST |-> "CreateLog", GET |-> "QueryLogs", DELETE |-> "DeleteBySource"])
  /\ ReadsOnGet([POST |-> "CreateBatchLogs"])
  /\ ReadsOnGet([GET |-> "GetLog", DELETE |-> "DeleteLog"])
<1>1. ReadsOnGet([POST |-> "CreateLog", GET |-> "QueryLogs", DELETE |-> "DeleteBySource"])
  BY DEF ReadsOnGet, AllHandlers, Writers
<1>2. ReadsOnGet([POST |-> "CreateBatchLogs"])
  BY DEF ReadsOnGet, AllHandlers, Writers
<1>3. ReadsOnGet([GET |-> "GetLog", DELETE |-> "DeleteLog"])
  BY DEF ReadsOnGet, AllHandlers, Writers
<1> QED
  BY <1>1, <1>2, <1>3

LEMMA LogRoutedWell ==
  ASSUME NEW r, NEW pattern,
         pattern \in {<<"api", "logs">>, <<"api", "logs", "batch">>, <<"api", "logs", "">>}
  PROVE  RoutedWell(LogRoute(r, pattern), r)
<1> DEFINE all == [POST |-> "CreateLog", GET |-> "QueryLogs", DELETE |-> "DeleteBySource"]
<1> DEFINE batch == [POST |-> "CreateBatchLogs"]
<1> DEFINE one == [GET |-> "GetLog", DELETE |-> "DeleteLog"]
<1>1. \/ LogRoute(r, pattern) = Reply(405)
      \/ LogRoute(r, pattern) = ByMethod(all, r.method)
      \/ LogRoute(r, pattern) = ByMethod(batch, r.method)
      \/ LogRoute(r, pattern) = ByMethod(one, r.method)
  <2>1. CASE pattern = <<"api", "logs">>
    BY <2>1 DEF LogRoute
  <2>2. CASE pattern = <<"api", "logs", "batch">>
    BY <2>2 DEF LogRoute
  <2>3. CASE pattern = <<"api", "logs", "">>
    BY <2>3 DEF LogRoute
  <2> QED
    BY <2>1, <2>2, <2>3
<1>2. ReadsOnGet(all) /\ ReadsOnGet(batch) /\ ReadsOnGet(one)
  BY LogMethodsRead
<1> HIDE DEF all, batch, one
<1>5. RoutedWell(ByMethod(all, r.method), r)
  BY <1>2, ByMethodRoutedWell
<1>6. RoutedWell(ByMethod(batch, r.method), r)
  BY <1>2, ByMethodRoutedWell
<1>7. RoutedWell(ByMethod(one, r.method), r)
  BY <1>2, ByMethodRoutedWell
<1>8. RoutedWell(Reply(405), r)
  BY ReplyRoutedWell, ZenonT(60)
<1> QED
  BY ONLY <1>1, <1>5, <1>6, <1>7, <1>8

LEMMA SubRoutedWell ==
  ASSUME NEW r, NEW single, NEW actions,
         ReadsOnGet(single),
         \A a \in DOMAIN actions : actions[a] \in AllHandlers
  PROVE  RoutedWell(SubRoute(r, single, actions), r)
<1> DEFINE rest == SubSeq(r.path, 3, Len(r.path))
<1> DEFINE a == actions[rest[1]]
<1>1. CASE rest = <<"">>
  BY <1>1, ReplyRoutedWell, ZenonT(60) DEF SubRoute
<1>2. CASE rest # <<"">> /\ Len(rest) = 1 /\ rest[1] \in DOMAIN actions
  <2>1. SubRoute(r, single, actions) = ByMethod([POST |-> a], r.method)
    BY <1>2 DEF SubRoute, RestIsEmpty
  <2>2. a \in AllHandlers
    BY <1>2
  <2> HIDE DEF a
  <2> DEFINE h == [POST |-> a]
  <2>3. ReadsOnGet(h)
    BY <2>2 DEF ReadsOnGet
  <2>4. SubRoute(r, single, actions) = ByMethod(h, r.method)
    BY <2>1
  <2> HIDE DEF h
  <2> QED
    BY <2>3, <2>4, ByMethodRoutedWell
<1>3. CASE rest # <<"">> /\ ~(Len(rest) = 1 /\ rest[1] \in DOMAIN actions)
  <2>1. ~RestIsEmpty(rest)
    BY <1>3 DEF RestIsEmpty
  <2>2. SubRoute(r, single, actions) = Reply(404)
    BY <1>3, <2>1 DEF SubRoute
  <2> QED
    BY <2>2, ReplyRoutedWell
<1> QED
  BY <1>1, <1>2, <1>3

LEMMA RuleRoutedWell ==
  ASSUME NEW r, NEW pattern
  PROVE  RoutedWell(RuleRoute(r, pattern), r)
<1>1. CASE pattern = <<"api", "rules">>
  <2> DEFINE h == [POST |-> "CreateRule", GET |-> "ListRules"]
  <2>1. ReadsOnGet(h)
    BY DEF ReadsOnGet, AllHandlers, Writers
  <2>2. RuleRoute(r, pattern) = ByMethod(h, r.method)
    BY <1>1 DEF RuleRoute
  <2> HIDE DEF h
  <2> QED
    BY <2>1, <2>2, ByMethodRoutedWell
<1>2. CASE pattern # <<"api", "rules">>
  <2> DEFINE single == [GET |-> "GetRule", PUT |-> "UpdateRule", DELETE |-> "DeleteRule"]
  <2> DEFINE actions == [enable |-> "EnableRule", disable |-> "DisableRule"]
  <2>1. ReadsOnGet(single)
    BY DEF ReadsOnGet, AllHandlers, Writers
  <2>2. \A a \in DOMAIN actions : actions[a] \in AllHandlers
    BY DEF AllHandlers, Writers
  <2>3. RuleRoute(r, pattern) = SubRoute(r, single, actions)
    BY <1>2 DEF RuleRoute
  <2> HIDE DEF single, actions
  <2> QED
    BY <2>1, <2>2, <2>3, SubRoutedWell
<1> QED
  BY <1>1, <1>2

LEMMA AlertRoutedWell ==
  ASSUME NEW r, NEW pattern
  PROVE  RoutedWell(AlertRoute(r, pattern), r)
<1> DEFINE h == [GET |-> "ListAlerts"]
<1> DEFINE g == [GET |-> "CountActive"]
<1> DEFINE single == [GET |-> "GetAlert", DELETE |-> "DeleteAlert"]
<1> DEFINE actions == [acknowledge |-> "AcknowledgeAlert", resolve |-> "ResolveAlert"]
<1>1. \/ AlertRoute(r, pattern) = ByMethod(h, r.method)
      \/ AlertRoute(r, pattern) = ByMethod(g, r.method)
      \/ AlertRoute(r, pattern) = SubRoute(r, single, actions)
  <2>1. CASE pattern = <<"api", "alerts">>
    BY <2>1 DEF AlertRoute
  <2>2. CASE pattern = <<"api", "alerts", "active", "count">>
    BY <2>2 DEF AlertRoute
  <2>3. CASE pattern \notin {<<"api", "alerts">>, <<"api", "alerts", "active", "count">>}
    BY <2>3 DEF AlertRoute
  <2> QED
    BY <2>1, <2>2, <2>3
<1>2. ReadsOnGet(h)
  BY DEF ReadsOnGet, AllHandlers, Writers
<1>3. ReadsOnGet(g)
  BY DEF ReadsOnGet, AllHandlers, Writers
<1>4. ReadsOnGet(single)
  BY DEF ReadsOnGet, AllHandlers, Writers
<1>5. \A a \in DOMAIN actions : actions[a] \in AllHandlers
  BY DEF AllHandlers, Writers
<1> HIDE DEF h, g, single, actions
<1>6. RoutedWell(ByMethod(h, r.method), r)
  BY <1>2, ByMethodRoutedWell
<1>7. RoutedWell(ByMethod(g, r.method), r)
  BY <1>3, ByMethodRoutedWell
<1>8. RoutedWell(SubRoute(r, single, actions), r)
  BY <1>4, <1>5, SubRoutedWell
<1> QED
  BY ONLY <1>1, <1>6, <1>7, <1>8

LEMMA StatsRoutedWell ==
  ASSUME NEW r, NEW pattern
  PROVE  RoutedWell(StatsRoute(r, pattern), r)
<1> DEFINE a == IF pattern = <<"api", "stats">> THEN "GetStatistics"
                ELSE IF Last(pattern) = "daily" THEN "GetDailyReport" ELSE "GetTrends"
<1> DEFINE h == [GET |-> a]
<1>1. a \in {"GetStatistics", "GetDailyReport", "GetTrends"}
  OBVIOUS
<1>2. StatsRoute(r, pattern) = ByMethod(h, r.method)
  BY DEF StatsRoute
<1> HIDE DEF a
<1>3. ReadsOnGet(h)
  BY <1>1 DEF ReadsOnGet, AllHandlers, Writers
<1> HIDE DEF h
<1> QED
  BY <1>2, <1>3, ByMethodRoutedWell

LEMMA RouteRoutedWell ==
  ASSUME NEW r
  PROVE  RoutedWell(Route(r), r)
<1>1. RoutedWell(ApiRoute(r), r)
  <2>1. CASE \A p \in ApiPatterns : ~Covers(p, r.path)
    BY <2>1, ReplyRoutedWell DEF ApiRoute
  <2>2. CASE ~\A p \in ApiPatterns : ~Covers(p, r.path)
    <3> DEFINE p == Longest(ApiPatterns, r.path)
    <3>1. /\ p[2] \in {"logs", "rules", "alerts", "stats"}
          /\ p[2] = "logs" =>
               p \in {<<"api", "logs">>, <<"api", "logs", "batch">>, <<"api", "logs", "">>}
      BY <2>2, LongestCovers, ShapeOfPatterns
    <3>2. ApiRoute(r) = CASE p[2] = "logs"   -> LogRoute(r, p)
                          [] p[2] = "rules"  -> RuleRoute(r, p)
                          [] p[2] = "alerts" -> AlertRoute(r, p)
                          [] p[2] = "stats"  -> StatsRoute(r, p)
      BY <2>2 DEF ApiRoute
    <3> HIDE DEF p
    <3>3. CASE p[2] = "logs"
      BY <3>1, <3>2, <3>3, LogRoutedWell
    <3>4. CASE p[2] = "rules"
      BY <3>2, <3>4, RuleRoutedWell
    <3>5. CASE p[2] = "alerts"
      BY <3>2, <3>5, AlertRoutedWell
    <3>6. CASE p[2] = "stats"
      BY <3>2, <3>6, StatsRoutedWell
    <3> QED
      BY <3>1, <3>3, <3>4, <3>5, <3>6
  <2> QED
    BY <2>1, <2>2
<1>2. RoutedWell(Chain(r), r)
  BY <1>1, ReplyRoutedWell DEF Chain
<1>3. RoutedWell(Home(r), r)
  <2> DEFINE page == r.path = <<"">> \/ ~WebDir
  <2>0. Home(r) = IF page THEN Reply(200) ELSE Reply(404)
    BY DEF Home
  <2> HIDE DEF page
  <2>1. Home(r) = Reply(200) \/ Home(r) = Reply(404)
    BY <2>0
  <2>2. RoutedWell(Reply(200), r) /\ RoutedWell(Reply(404), r)
    BY ReplyRoutedWell
  <2> QED
    BY ONLY <2>1, <2>2
<1>4. RoutedWell(Call("Health"), r)
  <2>1. Call("Health").handler = "Health" /\ "Health" # "" /\ "Health" \notin Writers
    BY DEF Call, Writers
  <2> QED
    BY <2>1 DEF RoutedWell
<1>5. RoutedWell(Reply(301), r)
  BY ReplyRoutedWell
<1> DEFINE pattern == Longest(mux, r.path)
<1>6. Route(r) = CASE Append(r.path, "") \in mux -> Reply(301)
                   [] pattern = <<"api", "">> -> Chain(r)
                   [] pattern = <<"">> -> Home(r)
                   [] OTHER -> Call("Health")
  BY DEF Route
<1> HIDE DEF pattern
<1>7. Route(r) \in {Reply(301), Chain(r), Home(r), Call("Health")}
  BY <1>6
<1> QED
  BY ONLY <1>2, <1>3, <1>4, <1>5, <1>7

-----------------------------------------------------------------------------
(* A server that listens has all its patterns. *)

LEMMA FirstFive ==
  ASSUME NEW S, NEW a \in Seq(S), Len(a) = 5, NEW b \in Seq(S)
  PROVE  /\ a \o b \in Seq(S)
         /\ \A i \in 1..5 : i \in 1..Len(a \o b) /\ (a \o b)[i] = a[i]
<1> DEFINE c == a \o b
<1>1. c \in Seq(S) /\ Len(c) = Len(a) + Len(b)
  BY ConcatProperties, Zenon
<1>2. \A i \in 1..(Len(a) + Len(b)) : c[i] = IF i <= Len(a) THEN a[i] ELSE b[i - Len(a)]
  BY ConcatProperties, Zenon
<1>3. Len(b) \in Nat
  OBVIOUS
<1> HIDE DEF c
<1>4. \A i \in 1..5 : i \in 1..Len(c) /\ c[i] = a[i]
  BY <1>1, <1>2, <1>3
<1> QED
  BY <1>1, <1>4 DEF c

LEMMA RegistersAll ==
  ASSUME NEW twice \in BOOLEAN
  PROVE  /\ Registrations(twice) \in Seq(Patterns)
         /\ \A p \in Patterns :
              \E i \in 1..Len(Registrations(twice)) : Registrations(twice)[i] = p
<1> DEFINE p1 == <<"health">>
<1> DEFINE p2 == <<"ready">>
<1> DEFINE p3 == <<"info">>
<1> DEFINE p4 == <<"">>
<1> DEFINE p5 == <<"api", "">>
<1> DEFINE once == <<p1, p2, p3, p4, p5>>
<1> DEFINE more == IF twice THEN <<p4>> ELSE <<>>
<1>1. Patterns = {p1, p2, p3, p4, p5}
  BY DEF Patterns
<1>2. Registrations(twice) = once \o more
  BY FirstRegistrations DEF Registrations
<1> HIDE DEF p1, p2, p3, p4, p5
<1>3. /\ once \in Seq(Patterns) /\ Len(once) = 5
      /\ once[1] = p1 /\ once[2] = p2 /\ once[3] = p3 /\ once[4] = p4 /\ once[5] = p5
  BY <1>1
<1>4. more \in Seq(Patterns)
  <2>1. <<p4>> \in Seq(Patterns) /\ <<>> \in Seq(Patterns)
    BY <1>1
  <2> QED
    BY <2>1, Zenon
<1> HIDE DEF once, more
<1>5. /\ once \o more \in Seq(Patterns)
      /\ \A i \in 1..5 : i \in 1..Len(once \o more) /\ (once \o more)[i] = once[i]
  BY <1>3, <1>4, FirstFive
<1> QED
  BY <1>1, <1>2, <1>3, <1>5

MuxInv ==
  /\ phase \in {"registering", "crashed"} \/ mux = Patterns
  /\ mux \subseteq Patterns
  /\ phase = "registering" =>
       /\ todo \in Seq(Patterns)
       /\ \A p \in Patterns : p \in mux \/ \E i \in 1..Len(todo) : todo[i] = p

LEMMA InitMuxInv == Init => MuxInv
<1> SUFFICES ASSUME Init PROVE MuxInv
  OBVIOUS
<1> QED
  BY RegistersAll DEF Init, MuxInv

LEMMA NextMuxInv == MuxInv /\ [Next]_hvars => MuxInv'
<1> SUFFICES ASSUME MuxInv, [Next]_hvars PROVE MuxInv'
  OBVIOUS
<1>1. CASE Register
  <2>1. todo \in Seq(Patterns) /\ todo # <<>> /\ mux' = mux \cup {Head(todo)} /\ todo' = Tail(todo)
        /\ phase' = phase /\ phase = "registering"
    BY <1>1 DEF Register, MuxInv
  <2>2. /\ Head(todo) = todo[1] /\ Head(todo) \in Patterns
        /\ Tail(todo) \in Seq(Patterns) /\ Len(Tail(todo)) = Len(todo) - 1
        /\ \A i \in 1..(Len(todo) - 1) : Tail(todo)[i] = todo[i + 1]
        /\ Len(todo) \in Nat
    BY <2>1, HeadTailProperties
  <2>3. ASSUME NEW p \in Patterns, p \notin mux'
        PROVE  \E i \in 1..Len(todo') : todo'[i] = p
    <3>1. PICK i \in 1..Len(todo) : todo[i] = p
      BY <2>1, <2>3 DEF MuxInv
    <3>2. i # 1
      BY <2>1, <2>2, <2>3, <3>1
    <3>3. i - 1 \in 1..(Len(todo) - 1) /\ (i - 1) + 1 = i
      BY <2>2, <3>2
    <3> QED
      BY <2>1, <2>2, <3>1, <3>3
  <2> QED
    BY <2>1, <2>2, <2>3 DEF MuxInv
<1>2. CASE RegisterAgain
  BY <1>2 DEF RegisterAgain, MuxInv
<1>3. CASE Listen
  <2>1. mux' = mux /\ \A p \in Patterns : p \in mux
    BY <1>3 DEF Listen, MuxInv
  <2>2. phase' = "serving" /\ phase = "registering"
    BY <1>3 DEF Listen
  <2> QED
    BY <2>1, <2>2 DEF MuxInv
<1>6. CASE ListenFails
  <2>1. mux' = mux /\ phase' = "exited"
    BY <1>6 DEF ListenFails
  <2>2. CASE phase = "registering" /\ todo = <<>>
    <3>1. \A p \in Patterns : p \in mux
      BY <2>2 DEF MuxInv
    <3> QED
      BY <2>1, <3>1 DEF MuxInv
  <2>3. CASE phase \in {"serving", "stopping"}
    BY <2>1, <2>3 DEF MuxInv
  <2> QED
    BY <1>6, <2>2, <2>3 DEF ListenFails
<1>4. CASE Signal \/ Shutdown \/ Exit
  BY <1>4 DEF Signal, Shutdown, Exit, MuxInv
<1>5. CASE UNCHANGED <<again, phase, todo, mux>>
  BY <1>5 DEF MuxInv
<1> QED
  BY <1>1, <1>2, <1>3, <1>4, <1>5, <1>6
  DEF Next, hvars, SchedulerRuns, Accept, Serve, Handle, WriteAnswer

(* A POST or PUT to the API that declares its content type. *)
Refused(r) ==
  /\ r.method \in {"POST", "PUT"} /\ r.type # NoType
  /\ r.path[1] = "api" /\ Len(r.path) > 1

LEMMA LengthOne == \A a : Len(<<a>>) = 1 /\ <<a>>[1] = a
OBVIOUS

LEMMA LengthTwo ==
  ASSUME NEW a, NEW b
  PROVE  /\ Len(<<a, b>>) = 2 /\ <<a, b>>[1] = a /\ <<a, b>>[2] = b
         /\ <<a, b>> \in Seq({a, b})
OBVIOUS

LEMMA LengthOfAppend ==
  ASSUME NEW S, NEW s \in Seq(S), NEW e
  PROVE  Len(Append(s, e)) = Len(s) + 1 /\ Len(s) \in Nat
<1>1. s \in Seq(S \cup {e}) /\ e \in S \cup {e}
  BY SeqMonotonic
<1>2. Len(Append(s, e)) = Len(s) + 1
  BY <1>1, AppendProperties, Zenon
<1> QED
  BY <1>2, LenProperties

LEMMA FirstOf ==
  ASSUME NEW S, NEW s \in Seq(S), Len(s) >= 1
  PROVE  SubSeq(s, 1, 1) = <<s[1]>>
<1> DEFINE x == SubSeq(s, 1, 1)
<1> DEFINE y == <<s[1]>>
<1>1. \A i \in 1..1 : s[i] \in S
  OBVIOUS
<1>2. x \in Seq(S) /\ Len(x) = 1 /\ x[1] = s[1]
  BY <1>1, SubSeqProperties
<1>3. y \in Seq(S) /\ Len(y) = 1 /\ y[1] = s[1]
  BY <1>1
<1> HIDE DEF x, y
<1>4. \A i \in 1..Len(x) : x[i] = y[i]
  BY <1>2, <1>3
<1>5. x = y
  BY <1>2, <1>3, <1>4, SeqEqual, Zenon
<1> QED
  BY <1>5 DEF x, y

(* A pattern of two segments covers the paths that go on after the first. *)
LEMMA CoversWhatGoesOn ==
  ASSUME NEW S, NEW path \in Seq(S), Len(path) > 1, NEW a, path[1] = a,
         NEW pattern, pattern = <<a, "">>
  PROVE  Covers(pattern, path)
<1>1. pattern \in Seq({a, ""}) /\ Len(pattern) = 2 /\ pattern[1] = a /\ pattern[2] = ""
  BY LengthTwo
<1>0. Len(path) \in Nat /\ Len(path) > 1
  BY LenProperties
<1> DEFINE m == Len(path)
<1> DEFINE n == Len(pattern)
<1>b. m \in Nat /\ m > 1 /\ n = 2
  BY <1>0, <1>1
<1> HIDE DEF m, n
<1>c. m >= 1 /\ n >= 1 /\ n - 1 = 1 /\ n <= m
  BY ONLY <1>b
<1>2. SubSeq(path, 1, 1) = <<a>>
  BY <1>c, FirstOf, Zenon DEF m
<1>3. SubSeq(pattern, 1, 1) = <<a>>
  BY <1>c, <1>1, FirstOf, Zenon DEF n
<1>4. Last(pattern) = "" /\ Front(pattern) = SubSeq(path, 1, Len(pattern) - 1)
  BY <1>c, <1>1, <1>2, <1>3, Zenon DEF Last, Front, n
<1> QED
  BY <1>4, <1>c, Zenon DEF Covers, m, n

LEMMA LengthsOfPatterns ==
  ASSUME NEW p \in Patterns
  PROVE  Len(p) \in {1, 2} /\ (Len(p) = 2 => p = <<"api", "">>)
<1>1. CASE p = <<"health">> \/ p = <<"ready">> \/ p = <<"info">> \/ p = <<"">>
  <2>1. Len(p) = 1
    BY <1>1, LengthOne, Zenon
  <2> QED
    BY <2>1
<1>2. CASE p = <<"api", "">>
  <2>1. Len(p) = 2
    BY <1>2, LengthTwo, Zenon
  <2> QED
    BY <1>2, <2>1
<1> QED
  BY <1>1, <1>2 DEF Patterns

LEMMA ServedByApi ==
  ASSUME mux = Patterns, NEW path \in Seq(STRING), Len(path) > 1, path[1] = "api"
  PROVE  /\ Append(path, "") \notin mux
         /\ Longest(mux, path) = <<"api", "">>
<1> DEFINE api == <<"api", "">>
<1>1. \A p \in Patterns : Len(p) \in {1, 2} /\ (Len(p) = 2 => p = api)
  BY LengthsOfPatterns
<1>2. Append(path, "") \notin mux
  <2>2. Len(Append(path, "")) = Len(path) + 1 /\ Len(path) \in Nat
    BY LengthOfAppend, Zenon
  <2> DEFINE n == Len(Append(path, ""))
  <2>3. n \notin {1, 2}
    BY <2>2
  <2> HIDE DEF n
  <2>4. \A p \in Patterns : Len(p) \in {1, 2}
    BY <1>1
  <2> QED
    BY <2>3, <2>4, Zenon DEF n
<1>3. Covers(api, path)
  BY CoversWhatGoesOn
<1>4. api \in Patterns /\ Len(api) = 2
  BY DEF Patterns
<1> HIDE DEF api
<1> DEFINE C == {q \in mux : Covers(q, path)}
<1> DEFINE Best(p) == \A q \in mux : Covers(q, path) => Len(q) <= Len(p)
<1>5. Longest(mux, path) = CHOOSE p \in C : Best(p)
  BY DEF Longest
<1>6. api \in C /\ Best(api)
  <2>1. ASSUME NEW q \in mux PROVE Len(q) <= Len(api)
    <3> DEFINE n == Len(q)
    <3> DEFINE m == Len(api)
    <3>1. n \in {1, 2} /\ m = 2
      BY <1>1, <1>4, Zenon
    <3> HIDE DEF n, m
    <3>2. n <= m
      BY ONLY <3>1
    <3> QED
      BY <3>2 DEF n, m
  <2> QED
    BY <1>3, <1>4, <2>1
<1>7. ASSUME NEW p \in C, Best(p) PROVE p = api
  <2>1. p \in Patterns /\ Len(api) <= Len(p)
    BY <1>6, <1>7
  <2>2. Len(p) \in {1, 2}
    BY <1>1, <2>1, Zenon
  <2>3. Len(p) = 2
    <3> DEFINE n == Len(p)
    <3> DEFINE m == Len(api)
    <3>1. n \in {1, 2} /\ m = 2 /\ m <= n
      BY <2>1, <2>2, <1>4, Zenon
    <3> HIDE DEF n, m
    <3>2. n = 2
      BY ONLY <3>1
    <3> QED
      BY <3>2 DEF n
  <2> QED
    BY <1>1, <2>1, <2>3, Zenon
<1> HIDE DEF C, Best
<1>8. Longest(mux, path) = api
  BY <1>5, <1>6, <1>7
<1> QED
  BY <1>2, <1>8 DEF api

(* The type of a request is cut to ten characters, and the one compared     *)
(* with has sixteen.                                                        *)
LEMMA NeverJson ==
  ASSUME NEW type \in [text : STRING, length : Nat], type # NoType
  PROVE  TenCharacters(type) \notin {Json, NoType}
<1>1. type.length \in Nat /\ DOMAIN type = {"text", "length"}
  OBVIOUS
<1>2. Json.length = 16 /\ NoType.length = 0
  BY DEF Json, NoType
<1>3. CASE type.length > 10
  <2> DEFINE cut == [type EXCEPT !.length = 10]
  <2>1. cut.length = 10 /\ TenCharacters(type) = cut
    BY <1>1, <1>3 DEF TenCharacters
  <2> HIDE DEF cut
  <2> QED
    BY <1>2, <2>1
<1>4. CASE ~(type.length > 10)
  <2>1. TenCharacters(type) = type /\ type.length # 16
    BY <1>1, <1>4 DEF TenCharacters
  <2> QED
    BY <1>2, <2>1
<1> QED
  BY <1>3, <1>4

LEMMA RefusedIsAnswered ==
  ASSUME mux = Patterns, NEW r \in Request, Refused(r)
  PROVE  Route(r) = Reply(415)
<1>1. r.path \in Seq(STRING) /\ r.type \in [text : STRING, length : Nat]
  BY DEF Request
<1>2. Append(r.path, "") \notin mux /\ Longest(mux, r.path) = <<"api", "">>
  BY <1>1, ServedByApi DEF Refused
<1>3. Route(r) = Chain(r)
  <2> DEFINE pattern == Longest(mux, r.path)
  <2> DEFINE redirected == Append(r.path, "") \in mux
  <2>1. Route(r) = CASE redirected -> Reply(301)
                   [] pattern = <<"api", "">> -> Chain(r)
                   [] pattern = <<"">> -> Home(r)
                   [] OTHER -> Call("Health")
    BY DEF Route
  <2>2. ~redirected /\ pattern = <<"api", "">>
    BY <1>2
  <2>3. <<"api", "">> # <<"">>
    OBVIOUS
  <2> HIDE DEF pattern, redirected
  <2> QED
    BY <2>1, <2>2, <2>3
<1>4. TenCharacters(r.type) \notin {Json, NoType}
  BY <1>1, NeverJson DEF Refused
<1>5. WrongType(r)
  BY <1>4 DEF WrongType, Refused
<1> QED
  BY <1>3, <1>5 DEF Chain

-----------------------------------------------------------------------------
(* What the handlers answer and do. *)

(* How much a request asks for. *)
Asked(k) == IF k.handler = "CreateBatchLogs" THEN k.req.entries ELSE 1

(* A request that a handler works on: what has been done of it so far is    *)
(* part of a batch, and it has passed the checks before that.               *)
Underway(k) ==
  /\ k.handler # "" /\ ~Refused(k.req)
  /\ k.req.method = "GET" => k.handler \notin Writers
  /\ k.did \in Nat
  /\ k.did > 0 => k.handler = "CreateBatchLogs" /\ k.req.input = "valid" /\ k.did < k.req.entries
  /\ k.handler = "CreateRule" /\ k.checked => k.req.input = "valid"

(* What the next service call may answer after which effect. *)
Blames(k, o) == o.status \in {400, 404, 409} /\ o.did = 0 /\ k.did = 0
Fails(k, o) == o.status \in {Panic, 500} /\ o.did = 0 /\ k.did < Asked(k)
Reads(k, o) == o.status = 200 /\ o.did = 0
Completes(k, o) ==
  /\ o.status \in {200, 201, 204} /\ o.did = 1 /\ k.handler \in Writers
  /\ k.did + 1 = Asked(k)
Proceeds(k, o) ==
  /\ o.status = Unfinished /\ k.req.input = "valid"
  /\ \/ k.handler = "CreateBatchLogs" /\ o.did = 1 /\ k.did + 1 < k.req.entries
     \/ k.handler = "CreateRule" /\ o.did = 0 /\ k.did = 0
Fits(k, o) == Blames(k, o) \/ Fails(k, o) \/ Reads(k, o) \/ Completes(k, o) \/ Proceeds(k, o)

LEMMA AnswerIs ==
  ASSUME NEW status, NEW o \in Answer(status)
  PROVE  o.status = status /\ o.did = 0 /\ o.db = db
BY DEF Answer

LEMMA DoneDid ==
  ASSUME NEW status, NEW d, NEW o \in Done(status, d)
  PROVE  o.status = status /\ o.did = 1
BY DEF Done

LEMMA StoreLogDid ==
  ASSUME NEW status, NEW o \in StoreLog(status)
  PROVE  (o.status = status /\ o.did = 1) \/ (o.status = Panic /\ o.did = 0)
<1> DEFINE With(gone, id) == [db EXCEPT !.logs = (@ \ gone) \cup {id}]
<1> DEFINE Lost(gone) == [status |-> Panic, db |-> [db EXCEPT !.logs = @ \ gone], did |-> 0]
<1>1. \A gone : Lost(gone).status = Panic /\ Lost(gone).did = 0
  OBVIOUS
<1> DEFINE stored == {Done(status, With(gone, id)) : id \in LogIds \ db.logs, gone \in Evictions}
<1> DEFINE lost == {Lost(gone) : gone \in Evictions \ {{}}}
<1>2. o \in (UNION stored) \cup lost
  BY DEF StoreLog
<1> HIDE DEF With, Lost
<1>3. CASE o \in UNION stored
  <2>1. PICK id \in LogIds \ db.logs, gone \in Evictions : o \in Done(status, With(gone, id))
    BY <1>3
  <2>2. o.status = status /\ o.did = 1
    BY <2>1, DoneDid, Zenon
  <2> QED
    BY <2>2, Zenon
<1>4. CASE o \in lost
  BY <1>1, <1>4
<1> QED
  BY <1>2, <1>3, <1>4

LEMMA WritesNamed ==
  /\ "CreateLog" \in Writers /\ "CreateBatchLogs" \in Writers /\ "DeleteLog" \in Writers
  /\ "DeleteBySource" \in Writers /\ "CreateRule" \in Writers
BY DEF Writers

LEMMA NothingDone ==
  ASSUME NEW k, Underway(k), k.handler # "CreateBatchLogs"
  PROVE  k.did = 0 /\ Asked(k) = 1
<1>1. k.did \in Nat /\ ~(k.did > 0) /\ Asked(k) = 1
  BY DEF Underway, Asked
<1> QED
  BY <1>1

(* An answer without effect from a handler other than the batch. *)
LEMMA AnswerFits ==
  ASSUME NEW k, Underway(k), k.handler # "CreateBatchLogs",
         NEW status \in {200, 400, 404, 409, 500}, NEW o \in Answer(status)
  PROVE  Fits(k, o)
<1>1. o.status = status /\ o.did = 0 /\ k.did = 0 /\ Asked(k) = 1
  BY AnswerIs, NothingDone
<1> QED
  BY <1>1 DEF Fits, Blames, Fails, Reads

LEMMA DoneFits ==
  ASSUME NEW k, Underway(k), k.handler # "CreateBatchLogs", k.handler \in Writers,
         NEW status \in {200, 201, 204}, NEW d, NEW o \in Done(status, d)
  PROVE  Fits(k, o)
<1>1. o.status = status /\ o.did = 1 /\ k.did = 0 /\ Asked(k) = 1
  BY DoneDid, NothingDone
<1>2. k.did + 1 = Asked(k)
  BY <1>1
<1> QED
  BY <1>1, <1>2 DEF Fits, Completes

LEMMA BatchFits ==
  ASSUME NEW k, Underway(k), k.handler = "CreateBatchLogs", k.req.entries \in Nat,
         NEW o \in CreateBatchLogs(k)
  PROVE  Fits(k, o)
<1> DEFINE left == k.req.entries - k.did
<1> DEFINE c1 == k.req.input = "broken" \/ k.req.entries = 0
<1> DEFINE c2 == k.req.input \in {"bad level", "invalid"} /\ k.req.entries > 0
<1> DEFINE c3 == k.req.input = "valid" /\ left > 1
<1> DEFINE c4 == k.req.input = "valid" /\ left = 1
<1>0. CreateBatchLogs(k) =
        When(c1, Answer(400)) \cup When(c2, Answer(500))
        \cup When(c3, StoreLog(Unfinished)) \cup When(c4, StoreLog(201))
  BY DEF CreateBatchLogs
<1> HIDE DEF c1, c2, c3, c4
<1>1. \/ c1 /\ o \in Answer(400)
      \/ c2 /\ o \in Answer(500)
      \/ c3 /\ o \in StoreLog(Unfinished)
      \/ c4 /\ o \in StoreLog(201)
  BY <1>0 DEF When
<1>2. /\ k.did \in Nat /\ Asked(k) = k.req.entries
      /\ k.did > 0 => k.req.input = "valid" /\ k.did < k.req.entries
  BY DEF Underway, Asked
<1>3. CASE c1 /\ o \in Answer(400)
  <2>1. k.did = 0
    BY <1>2, <1>3 DEF c1
  <2> QED
    BY <1>3, <2>1, AnswerIs DEF Fits, Blames
<1>4. CASE c2 /\ o \in Answer(500)
  <2>1. k.req.input # "valid" /\ k.req.entries > 0
    BY <1>4 DEF c2
  <2>2. k.did = 0 /\ k.did < Asked(k)
    BY <1>2, <2>1
  <2> QED
    BY <1>4, <2>2, AnswerIs DEF Fits, Fails
<1>5. CASE c3 /\ o \in StoreLog(Unfinished)
  <2>1. k.req.input = "valid" /\ k.did + 1 < k.req.entries /\ k.did < Asked(k)
    BY <1>2, <1>5 DEF c3
  <2>2. (o.status = Unfinished /\ o.did = 1) \/ (o.status = Panic /\ o.did = 0)
    BY <1>5, StoreLogDid
  <2> QED
    BY <2>1, <2>2 DEF Fits, Fails, Proceeds
<1>6. CASE c4 /\ o \in StoreLog(201)
  <2>1. k.did + 1 = Asked(k) /\ k.did < Asked(k)
    BY <1>2, <1>6 DEF c4
  <2>2. (o.status = 201 /\ o.did = 1) \/ (o.status = Panic /\ o.did = 0)
    BY <1>6, StoreLogDid
  <2> QED
    BY <2>1, <2>2, WritesNamed DEF Fits, Fails, Completes
<1> QED
  BY <1>1, <1>3, <1>4, <1>5, <1>6

LEMMA CreateRuleFits ==
  ASSUME NEW k, Underway(k), k.handler = "CreateRule", NEW o \in CreateRule(k)
  PROVE  Fits(k, o)
<1> DEFINE taken == \E x \in RuleIds : db.rules[x].name = k.req.name
<1> DEFINE After(id) == [db EXCEPT !.rules[id] = [name |-> k.req.name, enabled |-> TRUE]]
<1> DEFINE new == UNION {Done(201, After(id)) : id \in {x \in RuleIds : db.rules[x] = NoRule}}
<1>1. CreateRule(k) =
        When(k.req.input # "valid", Answer(400))
        \cup When(k.req.input = "valid" /\ ~k.checked /\ taken, Answer(409))
        \cup When(k.req.input = "valid" /\ ~k.checked /\ ~taken, Answer(Unfinished))
        \cup When(k.checked, new)
  BY DEF CreateRule
<1> HIDE DEF taken, After
<1>2. o \in new => \E d : o \in Done(201, d)
  OBVIOUS
<1> HIDE DEF new
<1>3. \/ o \in Answer(400) \/ o \in Answer(409)
      \/ o \in Answer(Unfinished) /\ k.req.input = "valid"
      \/ o \in new
  BY <1>1 DEF When
<1>4. k.handler # "CreateBatchLogs" /\ k.handler \in Writers
  BY WritesNamed
<1>5. CASE o \in Answer(Unfinished) /\ k.req.input = "valid"
  <2>1. k.did = 0
    BY <1>4, NothingDone
  <2> QED
    BY <1>5, <2>1, AnswerIs DEF Fits, Proceeds
<1> QED
  BY <1>2, <1>3, <1>4, <1>5, AnswerFits, DoneFits

(* Every outcome of a handler that a request can reach is of one of these   *)
(* kinds.                                                                   *)
LEMMA OutcomesFit ==
  ASSUME NEW k, Underway(k), k.req.entries \in Nat, Harmless(k.handler, k.req.path),
         NEW o \in Outcomes(k)
  PROVE  Fits(k, o)
<1>1. CASE k.handler = "CreateLog"
  <2>1. o \in CreateLog(k)
    BY <1>1 DEF Outcomes
  <2>2. o \in Answer(400) \/ o \in Answer(500) \/ o \in StoreLog(201)
    BY <2>1 DEF CreateLog, When
  <2>3. CASE o \in StoreLog(201)
    <3>1. k.did = 0 /\ Asked(k) = 1
      BY <1>1, NothingDone
    <3>2. k.did < Asked(k) /\ k.did + 1 = Asked(k)
      BY <3>1
    <3>3. (o.status = 201 /\ o.did = 1) \/ (o.status = Panic /\ o.did = 0)
      BY <2>3, StoreLogDid
    <3> QED
      BY <1>1, <3>2, <3>3, WritesNamed DEF Fits, Fails, Completes
  <2> QED
    BY <1>1, <2>2, <2>3, AnswerFits
<1>2. CASE k.handler = "CreateBatchLogs"
  BY <1>2, BatchFits DEF Outcomes
<1>3. CASE k.handler = "GetLog"
  <2>1. o \in GetLog(k)
    BY <1>3 DEF Outcomes
  <2>2. o \in Answer(400) \/ o \in Answer(404) \/ o \in Answer(200)
    BY <2>1, Zenon DEF GetLog, When
  <2> QED
    BY <1>3, <2>2, AnswerFits
<1>4. CASE k.handler = "QueryLogs"
  <2>1. o \in Answer(500) \/ o \in Answer(200)
    BY <1>4 DEF Outcomes, QueryLogs
  <2> QED
    BY <1>4, <2>1, AnswerFits
<1>5. CASE k.handler = "DeleteLog"
  <2>1. o \in DeleteLog(k)
    BY <1>5 DEF Outcomes
  <2>2. o \in Answer(400) \/ o \in Answer(404) \/ \E d : o \in Done(204, d)
    BY <2>1, Zenon DEF DeleteLog, When
  <2> QED
    BY <1>5, <2>2, AnswerFits, DoneFits, WritesNamed
<1>6. CASE k.handler = "DeleteBySource"
  <2>1. o \in DeleteBySource(k)
    BY <1>6 DEF Outcomes
  <2>2. \E d : o \in Done(200, d)
    BY <2>1, Zenon DEF DeleteBySource
  <2> QED
    BY <1>6, <2>2, DoneFits, WritesNamed
<1>7. CASE k.handler = "CreateRule"
  BY <1>7, CreateRuleFits DEF Outcomes
<1>8. CASE k.handler = "GetRule"
  <2>1. o \in Answer(200) \/ o \in Answer(404)
    BY <1>8 DEF Outcomes, GetRule
  <2> QED
    BY <1>8, <2>1, AnswerFits
<1>9. CASE k.handler \in {"EnableRule", "DisableRule"}
  <2>1. ~Stored(Target(k))
    BY <1>9, HttpAssumption DEF Harmless, Stored, Target
  <2>2. o \in SwitchRule(k, TRUE) \/ o \in SwitchRule(k, FALSE)
    BY <1>9 DEF Outcomes
  <2>3. o \in Answer(404)
    BY <2>1, <2>2 DEF SwitchRule
  <2> QED
    BY <1>9, <2>3, AnswerFits
<1>10. CASE k.handler = "GetAlert"
  <2>1. o \in Answer(200) \/ o \in Answer(404)
    BY <1>10 DEF Outcomes, GetAlert
  <2> QED
    BY <1>10, <2>1, AnswerFits
<1>11. CASE k.handler \in {"AcknowledgeAlert", "ResolveAlert"}
  <2>1. ~Raised(Target(k))
    BY <1>11, HttpAssumption DEF Harmless, Raised, Target
  <2>2. o \in ChangeAlert(k, 200, "acknowledged") \/ o \in ChangeAlert(k, 200, "resolved")
    BY <1>11 DEF Outcomes
  <2>3. o \in Answer(404)
    BY <2>1, <2>2 DEF ChangeAlert
  <2> QED
    BY <1>11, <2>3, AnswerFits
<1>12. CASE k.handler = "GetStatistics"
  <2>1. o \in Answer(400) \/ o \in Answer(500) \/ o \in Answer(200)
    BY <1>12 DEF Outcomes, GetStatistics
  <2> QED
    BY <1>12, <2>1, AnswerFits
<1>13. CASE k.handler = "GetDailyReport"
  <2>1. o \in Answer(400) \/ o \in Answer(200)
    BY <1>13 DEF Outcomes, GetDailyReport
  <2> QED
    BY <1>13, <2>1, AnswerFits
<1>14. CASE k.handler \notin {"CreateLog", "CreateBatchLogs", "GetLog", "QueryLogs", "DeleteLog",
            "DeleteBySource", "CreateRule", "GetRule", "EnableRule", "DisableRule", "GetAlert",
            "AcknowledgeAlert", "ResolveAlert", "GetStatistics", "GetDailyReport"}
  <2>1. k.handler \notin {"UpdateRule", "DeleteRule", "DeleteAlert"}
    BY DEF Harmless
  <2>2. o \in Answer(200) /\ k.handler # "CreateBatchLogs"
    BY <1>14, <2>1 DEF Outcomes, AlwaysFine
  <2> QED
    BY <2>2, AnswerFits
<1> QED
  BY <1>1, <1>2, <1>3, <1>4, <1>5, <1>6, <1>7, <1>8, <1>9, <1>10, <1>11, <1>12, <1>13, <1>14

-----------------------------------------------------------------------------
(* The answers. *)

(* What AnswerTellsEffect says of one connection. *)
Tells(k) ==
  /\ k.status \in {201, 204} => k.did = Asked(k)
  /\ k.status \in 400..499 \/ k.req.method = "GET" => k.did = 0
  /\ k.status = 500 => k.did < Asked(k)
  /\ Refused(k.req) => k.status = 415 /\ k.did = 0

Truthful(k) ==
  \/ k.stage = "handling" /\ Underway(k)
  \/ k.stage = "answering" /\ k.status \in 200..599 /\ Tells(k)

(* The inductive invariant: a request is under way, or answered truthfully. *)
EffectInv ==
  \A c \in Clients : conn[c] # Free => conn[c].req \in Requests[c] /\ Truthful(conn[c])

LEMMA AcceptIsTruthful ==
  ASSUME NEW r \in Request, mux = Patterns, NEW to, to = Route(r),
         NEW k,
         k = [stage |-> IF to.handler = "" THEN "answering" ELSE "handling", req |-> r,
              handler |-> to.handler, status |-> to.status, did |-> 0, checked |-> FALSE]
  PROVE  Truthful(k)
<1>1. RoutedWell(to, r)
  BY RouteRoutedWell
<1>2. Refused(r) => to = Reply(415)
  BY RefusedIsAnswered
<1>3. Reply(415).status = 415 /\ Reply(415).handler = ""
  BY DEF Reply
<1>4. /\ k.stage = IF to.handler = "" THEN "answering" ELSE "handling"
      /\ k.req = r /\ k.handler = to.handler /\ k.status = to.status /\ k.did = 0
      /\ k.checked = FALSE
  OBVIOUS
<1>5. CASE to.handler = ""
  <2>1. k.status \in {200, 301, 404, 405, 415} /\ k.stage = "answering"
    BY <1>1, <1>4, <1>5, ZenonT(60) DEF RoutedWell
  <2>2. /\ k.status \notin {201, 204} /\ k.status # 500
        /\ k.status \in 200..599
    BY ONLY <2>1
  <2>3. Refused(k.req) => k.status = 415
    BY <1>2, <1>3, <1>4
  <2> QED
    BY <1>4, <2>1, <2>2, <2>3 DEF Truthful, Tells
<1>6. CASE to.handler # ""
  <2>1. ~Refused(r)
    BY <1>2, <1>3, <1>6
  <2>2. k.stage = "handling" /\ k.did \in Nat /\ ~(k.did > 0)
    <3>1. k.stage = "handling" /\ k.did = 0
      BY <1>4, <1>6, Zenon
    <3>2. 0 \in Nat /\ ~(0 > 0)
      BY ONLY SMT
    <3> QED
      BY <3>1, <3>2, Zenon
  <2>3. k.req.method = "GET" => k.handler \notin Writers
    BY <1>1, <1>4, ZenonT(60) DEF RoutedWell
  <2> QED
    BY <1>4, <1>6, <2>1, <2>2, <2>3 DEF Truthful, Underway
<1> QED
  BY <1>5, <1>6

(* The four kinds of answers that a handler gives. *)
LEMMA AnswersWell ==
  ASSUME NEW l, l.stage = "answering", ~Refused(l.req),
         \/ l.status \in {400, 404, 409} /\ l.did = 0
         \/ l.status = 500 /\ l.did < Asked(l) /\ (l.req.method = "GET" => l.did = 0)
         \/ l.status = 200 /\ (l.req.method = "GET" => l.did = 0)
         \/ l.status \in {200, 201, 204} /\ l.did = Asked(l) /\ l.req.method # "GET"
  PROVE  Truthful(l)
<1>1. l.status \in {200, 201, 204, 400, 404, 409, 500}
  OBVIOUS
<1>2. l.status \in 200..599
  BY ONLY <1>1
<1>3. Tells(l)
  BY DEF Tells
<1> QED
  BY <1>2, <1>3 DEF Truthful

(* One service call and what follows it. *)
LEMMA DoneSoFar ==
  ASSUME NEW m \in Nat
  PROVE  /\ m + 0 = m /\ m + 1 > 0 /\ m + 1 \in Nat
         /\ ~(m > 0) => m = 0
OBVIOUS

LEMMA HandleIsTruthful ==
  ASSUME NEW k, Underway(k), k.req.entries \in Nat, NEW o, Fits(k, o),
         NEW l, l.req = k.req, l.handler = k.handler, l.status = Recover(o.status),
         l.did = k.did + o.did,
         l.stage = IF o.status = Unfinished THEN "handling" ELSE "answering"
  PROVE  Truthful(l)
<1>1. /\ k.did \in Nat /\ k.handler # "" /\ ~Refused(k.req)
      /\ k.req.method = "GET" => k.handler \notin Writers
      /\ k.did > 0 => k.handler = "CreateBatchLogs" /\ k.did < k.req.entries
  BY DEF Underway
<1>2. Asked(l) = Asked(k) /\ ~Refused(l.req)
  BY <1>1 DEF Asked
<1>3. "CreateBatchLogs" \in Writers
  BY DEF Writers
<1>a. k.did + 0 = k.did /\ (~(k.did > 0) => k.did = 0) /\ k.did + 1 \in Nat
  BY <1>1, DoneSoFar, Zenon
<1>4. k.req.method = "GET" => k.did = 0
  BY <1>1, <1>3, <1>a, Zenon
<1>5. CASE Blames(k, o)
  <2>1. l.stage = "answering" /\ l.status \in {400, 404, 409} /\ l.did = 0
    BY <1>5 DEF Blames, Recover, Panic, Unfinished
  <2> QED
    BY <1>2, <2>1, AnswersWell
<1>6. CASE Fails(k, o)
  <2>1. l.stage = "answering" /\ l.status = 500
    BY <1>6 DEF Fails, Recover, Panic, Unfinished
  <2>2. l.did = k.did /\ k.did < Asked(k)
    BY <1>a, <1>6, ZenonT(60) DEF Fails
  <2> QED
    <3>1. l.status = 500 /\ l.did < Asked(l) /\ (l.req.method = "GET" => l.did = 0)
      BY <1>2, <1>4, <2>1, <2>2, Zenon
    <3> QED
      BY <1>2, <2>1, <3>1, AnswersWell
<1>7. CASE Reads(k, o)
  <2>1. l.stage = "answering" /\ l.status = 200
    BY <1>7 DEF Reads, Recover, Panic, Unfinished
  <2>2. l.did = k.did
    BY <1>a, <1>7, Zenon DEF Reads
  <2>3. l.req.method = "GET" => l.did = 0
    BY <1>4, <2>2, Zenon
  <2> QED
    BY <1>2, <2>1, <2>3, AnswersWell
<1>8. CASE Completes(k, o)
  <2>1. l.stage = "answering" /\ l.status \in {200, 201, 204}
    BY <1>8 DEF Completes, Recover, Panic, Unfinished
  <2>2. l.did = Asked(k)
    BY <1>8 DEF Completes
  <2>3. l.req.method # "GET"
    BY <1>1, <1>8 DEF Completes
  <2> QED
    <3>1. l.did = Asked(l)
      BY <1>2, <2>2, Zenon
    <3> QED
      BY <1>2, <2>1, <2>3, <3>1, AnswersWell
<1>9. CASE Proceeds(k, o)
  <2>1. l.stage = "handling" /\ l.req.input = "valid"
    BY <1>9 DEF Proceeds
  <2>2. l.did \in Nat
    BY <1>1, <1>a, <1>9, Zenon DEF Proceeds
  <2>3. l.did > 0 => l.handler = "CreateBatchLogs" /\ l.did < l.req.entries
    <3>1. ~(0 > 0)
      BY ONLY SMT
    <3> QED
      BY <1>a, <1>9, <3>1, Zenon DEF Proceeds
  <2>4. Underway(l)
    BY <1>1, <1>2, <2>1, <2>2, <2>3, Zenon DEF Underway
  <2> QED
    BY <2>1, <2>4 DEF Truthful
<1> QED
  BY <1>5, <1>6, <1>7, <1>8, <1>9 DEF Fits

LEMMA InitEffectInv == Init => EffectInv
BY DEF Init, EffectInv

LEMMA NextEffectInv ==
  ASSUME RouteInv, MuxInv, EffectInv, [Next]_hvars
  PROVE  EffectInv'
<1>0. DOMAIN conn = Clients
  BY DEF RouteInv, ConnInv
<1>1. CASE UNCHANGED conn
  BY <1>1 DEF EffectInv
<1>2. ASSUME NEW c \in Clients, NEW r \in Requests[c], Accept(c, r)
      PROVE  EffectInv'
  <2>1. r \in Request
    BY HttpAssumption
  <2>2. mux = Patterns
    BY <1>2 DEF Accept, MuxInv
  <2> DEFINE to == Route(r)
  <2> DEFINE k == [stage |-> IF to.handler = "" THEN "answering" ELSE "handling", req |-> r,
                   handler |-> to.handler, status |-> to.status, did |-> 0, checked |-> FALSE]
  <2>3. conn' = [conn EXCEPT ![c] = k]
    BY <1>2 DEF Accept
  <2>4. Truthful(k)
    BY <2>1, <2>2, AcceptIsTruthful
  <2>5. k.req = r
    OBVIOUS
  <2> HIDE DEF k
  <2>6. conn'[c] = k /\ \A d \in Clients \ {c} : conn'[d] = conn[d]
    BY <1>0, <2>3
  <2> QED
    BY <2>4, <2>5, <2>6 DEF EffectInv
<1>3. ASSUME NEW c \in Clients, Handle(c)
      PROVE  EffectInv'
  <2> DEFINE k == conn[c]
  <2> DEFINE l == conn'[c]
  <2>1. k # Free /\ k.stage = "handling"
    <3>1. k.stage = "handling"
      BY <1>3 DEF Handle
    <3> QED
      BY <3>1 DEF Free
  <2>2. PICK o \in Outcomes(k) :
        conn' = [conn EXCEPT ![c] =
            [@ EXCEPT !.status = Recover(o.status), !.did = conn[c].did + o.did,
                      !.checked = TRUE,
                      !.stage = IF o.status = Unfinished THEN "handling" ELSE "answering"]]
    BY <1>3 DEF Handle
  <2>3. /\ DOMAIN k = {"stage", "req", "handler", "status", "did", "checked"}
        /\ k.req \in Request /\ Harmless(k.handler, k.req.path)
    BY <2>1 DEF RouteInv, ConnInv
  <2>4. /\ l.req = k.req /\ l.handler = k.handler /\ l.status = Recover(o.status)
        /\ l.did = k.did + o.did
        /\ l.stage = IF o.status = Unfinished THEN "handling" ELSE "answering"
        /\ \A d \in Clients \ {c} : conn'[d] = conn[d]
    <3>2. l.req = k.req /\ l.handler = k.handler /\ l.status = Recover(o.status)
      BY <1>0, <2>2, <2>3
    <3>3. l.did = k.did + o.did
      BY <1>0, <2>2, <2>3
    <3>4. l.stage = IF o.status = Unfinished THEN "handling" ELSE "answering"
      BY <1>0, <2>2, <2>3
    <3>5. \A d \in Clients \ {c} : conn'[d] = conn[d]
      BY <1>0, <2>2
    <3> QED
      BY <3>2, <3>3, <3>4, <3>5
  <2>5. Underway(k) /\ k.req \in Requests[c]
    BY <2>1 DEF EffectInv, Truthful
  <2>6. k.req.entries \in Nat
    BY <2>3 DEF Request
  <2> HIDE DEF k, l
  <2>7. Fits(k, o)
    BY <2>2, <2>3, <2>5, <2>6, OutcomesFit
  <2>8. Truthful(l)
    BY <2>4, <2>5, <2>6, <2>7, HandleIsTruthful
  <2> QED
    BY <2>4, <2>5, <2>8 DEF EffectInv, k, l
<1>4. ASSUME NEW c \in Clients, WriteAnswer(c)
      PROVE  EffectInv'
  <2>1. conn'[c] = Free /\ \A d \in Clients \ {c} : conn'[d] = conn[d]
    BY <1>0, <1>4 DEF WriteAnswer
  <2> QED
    BY <2>1 DEF EffectInv
<1> QED
  BY <1>1, <1>2, <1>3, <1>4
  DEF Next, Serve, hvars, Register, RegisterAgain, Listen, ListenFails, Signal, Shutdown, Exit, SchedulerRuns

LEMMA EffectInvImplies == EffectInv => AnswerTellsEffect
<1> SUFFICES ASSUME EffectInv, NEW c \in Clients, conn[c] # Free, conn[c].stage = "answering"
             PROVE  Tells(conn[c])
  BY DEF AnswerTellsEffect, Tells, Asked, Refused
<1> QED
  BY DEF EffectInv, Truthful

(* For every set of clients and whatever they ask: an answer tells what its *)
(* request has done, and a POST or PUT that declares a content type is      *)
(* refused without effect (middleware.go:80-84).                            *)
THEOREM AnswersTellTheEffect == Spec => []AnswerTellsEffect
<1> DEFINE IInv == RouteInv /\ MuxInv /\ EffectInv
<1>1. Init => IInv
  BY InitRouteInv, InitMuxInv, InitEffectInv
<1>2. IInv /\ [Next]_hvars => IInv'
  BY NextRouteInv, NextMuxInv, NextEffectInv
<1>3. IInv => AnswerTellsEffect
  BY EffectInvImplies
<1> QED
  BY <1>1, <1>2, <1>3, PTL DEF Spec

-----------------------------------------------------------------------------
(* Types. *)

LogsFit(logs) == logs \in SUBSET LogIds /\ IsFiniteSet(logs) /\ Cardinality(logs) <= Capacity
RuleType == [name : Names, enabled : BOOLEAN]
AlertStates == {"none", "active", "acknowledged", "resolved"}

WellStored(d) ==
  /\ LogsFit(d.logs)
  /\ d.rules \in [RuleIds -> RuleType]
  /\ d.alerts \in [AlertIds -> AlertStates]

TypeInv ==
  /\ again \in BOOLEAN
  /\ phase \in {"registering", "crashed", "serving", "stopping", "shutting down", "exited"}
  /\ WellStored(db)

LEMMA RoomAtAll == Capacity \in Nat /\ Capacity > 0
<1>1. Capacity \in Nat \ {0}
  BY HttpAssumption, Zenon
<1> QED
  BY <1>1

LEMMA NamesOfRules ==
  /\ NoRule \in RuleType
  /\ \A c \in Clients : \A r \in Requests[c], e \in BOOLEAN : [name |-> r.name, enabled |-> e] \in RuleType
<1>1. NoRule.name \in Names /\ NoRule = [name |-> NoRule.name, enabled |-> FALSE]
  BY DEF Names, NoRule
<1>2. \A c \in Clients : \A r \in Requests[c] : r.name \in Names
  BY DEF Names
<1>3. ASSUME NEW n \in Names, NEW e \in BOOLEAN PROVE [name |-> n, enabled |-> e] \in RuleType
  BY DEF RuleType
<1>4. FALSE \in BOOLEAN
  OBVIOUS
<1> HIDE DEF NoRule
<1>5. NoRule \in RuleType
  BY <1>1, <1>3, <1>4, Zenon
<1> QED
  BY <1>2, <1>3, <1>5, Zenon

LEMMA FewerLogs ==
  ASSUME LogsFit(db.logs), NEW kept \in SUBSET db.logs
  PROVE  LogsFit(kept)
<1>1. IsFiniteSet(kept) /\ Cardinality(kept) <= Cardinality(db.logs)
  BY FS_Subset DEF LogsFit
<1>2. Cardinality(kept) \in Nat /\ Cardinality(db.logs) \in Nat
  BY <1>1, FS_CardinalityType DEF LogsFit
<1> QED
  BY <1>1, <1>2, RoomAtAll DEF LogsFit

(* Room for one entry is made before it is added. *)
LEMMA RoomForOne ==
  ASSUME LogsFit(db.logs), NEW gone \in Evictions, NEW id \in LogIds \ db.logs
  PROVE  LogsFit(db.logs \ gone) /\ LogsFit((db.logs \ gone) \cup {id})
<1>1. LogsFit(db.logs \ gone)
  BY FewerLogs
<1>2. Cardinality(db.logs \ gone) + 1 <= Capacity
  <2>1. CASE Cardinality(db.logs) < Capacity
    <3>1. gone = {}
      BY <2>1 DEF Evictions
    <3>2. Cardinality(db.logs \ gone) = Cardinality(db.logs)
      <4>1. db.logs \ gone = db.logs
        BY <3>1
      <4> QED
        BY <4>1, Zenon
    <3>3. Cardinality(db.logs) \in Nat
      BY FS_CardinalityType DEF LogsFit
    <3> QED
      BY <2>1, <3>2, <3>3, RoomAtAll
  <2>2. CASE ~(Cardinality(db.logs) < Capacity)
    <3>1. PICK x \in db.logs : gone = {x}
      BY <2>2 DEF Evictions
    <3>2. Cardinality(db.logs \ gone) = Cardinality(db.logs) - 1
      BY <3>1, FS_RemoveElement DEF LogsFit
    <3> QED
      BY <3>2, FS_CardinalityType, RoomAtAll DEF LogsFit
  <2> QED
    BY <2>1, <2>2
<1>3. /\ IsFiniteSet((db.logs \ gone) \cup {id})
      /\ Cardinality((db.logs \ gone) \cup {id}) = Cardinality(db.logs \ gone) + 1
  BY <1>1, FS_AddElement DEF LogsFit
<1> QED
  BY <1>1, <1>2, <1>3 DEF LogsFit

LEMMA WithOtherLogs ==
  ASSUME StoresInv, WellStored(db), NEW kept, LogsFit(kept)
  PROVE  WellStored([db EXCEPT !.logs = kept])
BY DEF StoresInv, WellStored

LEMMA WithOneRule ==
  ASSUME StoresInv, WellStored(db), NEW id \in RuleIds, NEW v \in RuleType
  PROVE  WellStored([db EXCEPT !.rules[id] = v])
BY DEF StoresInv, WellStored

LEMMA StoreLogTyped ==
  ASSUME StoresInv, WellStored(db), NEW status, NEW o \in StoreLog(status)
  PROVE  WellStored(o.db)
<1> DEFINE After(kept) == [db EXCEPT !.logs = kept]
<1> DEFINE Lost(kept) == [status |-> Panic, db |-> After(kept), did |-> 0]
<1>1. \A kept : Lost(kept).db = After(kept)
  OBVIOUS
<1>2. \A kept : LogsFit(kept) => WellStored(After(kept))
  BY WithOtherLogs
<1> DEFINE stored == {Done(status, After((db.logs \ gone) \cup {id})) :
                         id \in LogIds \ db.logs, gone \in Evictions}
<1> DEFINE lost == {Lost(db.logs \ gone) : gone \in Evictions \ {{}}}
<1>3. StoreLog(status) = (UNION stored) \cup lost
  BY DEF StoreLog, StoresInv
<1> HIDE DEF After, Lost
<1>4. /\ \A T \in stored : \E id \in LogIds \ db.logs, gone \in Evictions :
           T = Done(status, After((db.logs \ gone) \cup {id}))
      /\ \A l \in lost : \E gone \in Evictions : l = Lost(db.logs \ gone)
  OBVIOUS
<1> HIDE DEF stored, lost
<1>0. LogsFit(db.logs)
  BY DEF WellStored
<1>5. CASE o \in UNION stored
  <2>1. PICK T \in stored : o \in T
    BY <1>5
  <2>2. PICK id \in LogIds \ db.logs, gone \in Evictions :
          T = Done(status, After((db.logs \ gone) \cup {id}))
    BY <1>4, <2>1
  <2>3. LogsFit((db.logs \ gone) \cup {id})
    BY <1>0, RoomForOne
  <2> QED
    BY <1>2, <2>1, <2>2, <2>3, DoneIs
<1>6. CASE o \in lost
  <2>1. PICK gone \in Evictions : o = Lost(db.logs \ gone)
    BY <1>4, <1>6
  <2>2. LogsFit(db.logs \ gone)
    BY <1>0, FewerLogs
  <2> QED
    BY <1>1, <1>2, <2>1, <2>2
<1>7. o \in (UNION stored) \cup lost
  BY <1>3, Zenon
<1> QED
  BY <1>5, <1>6, <1>7

LEMMA AnswerTyped ==
  ASSUME WellStored(db), NEW status, NEW o \in Answer(status)
  PROVE  WellStored(o.db)
BY AnswerIs

LEMMA OutcomesTyped ==
  ASSUME StoresInv, WellStored(db), NEW c \in Clients, NEW k, k.req \in Requests[c],
         Harmless(k.handler, k.req.path), NEW o \in Outcomes(k)
  PROVE  WellStored(o.db)
<1>0. LogsFit(db.logs)
  BY DEF WellStored
<1>1. CASE k.handler = "CreateLog"
  <2>1. o \in CreateLog(k)
    BY <1>1 DEF Outcomes
  <2> QED
    BY <2>1, StoreLogTyped, AnswerTyped, ZenonT(60) DEF CreateLog, When
<1>2. CASE k.handler = "CreateBatchLogs"
  <2>1. o \in CreateBatchLogs(k)
    BY <1>2 DEF Outcomes
  <2>2. \/ \E status : o \in Answer(status)
        \/ \E status : o \in StoreLog(status)
    BY <2>1, BatchOutcomes
  <2> QED
    BY <2>2, StoreLogTyped, AnswerTyped
<1>3. CASE k.handler = "GetLog"
  <2>1. o \in GetLog(k)
    BY <1>3 DEF Outcomes
  <2> QED
    BY <2>1, AnswerTyped, ZenonT(60) DEF GetLog, When
<1>4. CASE k.handler = "QueryLogs"
  BY <1>4, AnswerTyped DEF Outcomes, QueryLogs
<1>5. CASE k.handler = "DeleteLog"
  <2>1. o \in DeleteLog(k)
    BY <1>5 DEF Outcomes
  <2> QED
    <3> DEFINE kept == db.logs \ {Target(k)}
    <3> DEFINE after == [db EXCEPT !.logs = kept]
    <3>1. WellStored(after)
      <4>1. LogsFit(kept)
        BY <1>0, FewerLogs
      <4> HIDE DEF kept
      <4> QED
        BY <4>1, WithOtherLogs
    <3>2. (\E status : o \in Answer(status)) \/ o \in Done(204, after)
      BY <2>1, ZenonT(60) DEF DeleteLog, When, after, kept
    <3> HIDE DEF after
    <3> QED
      BY <3>1, <3>2, AnswerTyped, DoneIs
<1>6. CASE k.handler = "DeleteBySource"
  <2>1. o \in DeleteBySource(k)
    BY <1>6 DEF Outcomes
  <2>2. PICK kept \in SUBSET db.logs : o \in Done(200, [db EXCEPT !.logs = kept])
    BY <2>1, Zenon DEF DeleteBySource
  <2>3. WellStored([db EXCEPT !.logs = kept])
    BY <1>0, FewerLogs, WithOtherLogs
  <2> QED
    BY <2>2, <2>3, DoneIs, ZenonT(60)
<1>7. CASE k.handler = "CreateRule"
  <2>1. o \in CreateRule(k)
    BY <1>7 DEF Outcomes
  <2>2. \/ \E status : o \in Answer(status)
        \/ \E id \in RuleIds :
             o \in Done(201, [db EXCEPT !.rules[id] = [name |-> k.req.name, enabled |-> TRUE]])
    BY <2>1, CreateRuleOutcomes
  <2> DEFINE v == [name |-> k.req.name, enabled |-> TRUE]
  <2>3. v \in RuleType
    BY NamesOfRules
  <2> HIDE DEF v
  <2>4. \A id \in RuleIds : WellStored([db EXCEPT !.rules[id] = v])
    BY <2>3, WithOneRule
  <2>5. \/ \E status : o \in Answer(status)
        \/ \E id \in RuleIds : o \in Done(201, [db EXCEPT !.rules[id] = v])
    BY <2>2, Zenon DEF v
  <2>6. \A id \in RuleIds :
          o \in Done(201, [db EXCEPT !.rules[id] = v]) => o.db = [db EXCEPT !.rules[id] = v]
    BY DoneIs
  <2> QED
    BY <2>4, <2>5, <2>6, AnswerTyped
<1>8. CASE k.handler = "GetRule"
  BY <1>8, AnswerTyped DEF Outcomes, GetRule
<1>9. CASE k.handler \in {"EnableRule", "DisableRule"}
  <2>1. ~Stored(Target(k))
    BY <1>9, HttpAssumption DEF Harmless, Stored, Target
  <2>2. o \in SwitchRule(k, TRUE) \/ o \in SwitchRule(k, FALSE)
    BY <1>9 DEF Outcomes
  <2> QED
    BY <2>1, <2>2, AnswerTyped DEF SwitchRule
<1>10. CASE k.handler = "GetAlert"
  BY <1>10, AnswerTyped DEF Outcomes, GetAlert
<1>11. CASE k.handler \in {"AcknowledgeAlert", "ResolveAlert"}
  <2>1. ~Raised(Target(k))
    BY <1>11, HttpAssumption DEF Harmless, Raised, Target
  <2>2. o \in ChangeAlert(k, 200, "acknowledged") \/ o \in ChangeAlert(k, 200, "resolved")
    BY <1>11 DEF Outcomes
  <2> QED
    BY <2>1, <2>2, AnswerTyped DEF ChangeAlert
<1>12. CASE k.handler = "GetStatistics"
  BY <1>12, AnswerTyped DEF Outcomes, GetStatistics
<1>13. CASE k.handler = "GetDailyReport"
  BY <1>13, AnswerTyped DEF Outcomes, GetDailyReport
<1>14. CASE k.handler \notin {"CreateLog", "CreateBatchLogs", "GetLog", "QueryLogs", "DeleteLog",
            "DeleteBySource", "CreateRule", "GetRule", "EnableRule", "DisableRule", "GetAlert",
            "AcknowledgeAlert", "ResolveAlert", "GetStatistics", "GetDailyReport"}
  <2>1. k.handler \notin {"UpdateRule", "DeleteRule", "DeleteAlert"}
    BY DEF Harmless
  <2>2. o \in AlwaysFine
    BY <1>14, <2>1 DEF Outcomes
  <2> QED
    BY <2>2, AnswerTyped DEF AlwaysFine
<1> QED
  BY <1>1, <1>2, <1>3, <1>4, <1>5, <1>6, <1>7, <1>8, <1>9, <1>10, <1>11, <1>12, <1>13, <1>14

LEMMA InitTypeInv == Init => TypeInv
<1> SUFFICES ASSUME Init PROVE TypeInv
  OBVIOUS
<1>1. /\ db.logs = {} /\ db.rules = [x \in RuleIds |-> NoRule]
      /\ db.alerts = [x \in AlertIds |-> "none"]
      /\ again \in BOOLEAN /\ phase = "registering"
  BY DEF Init
<1>2. LogsFit({})
  <2>1. Cardinality({}) = 0 /\ IsFiniteSet({})
    BY FS_EmptySet
  <2> QED
    BY <2>1, RoomAtAll DEF LogsFit
<1>3. WellStored(db)
  BY <1>1, <1>2, NamesOfRules DEF WellStored, AlertStates
<1> QED
  BY <1>1, <1>3 DEF TypeInv

LEMMA NextTypeInv ==
  ASSUME RouteInv, EffectInv, TypeInv, [Next]_hvars
  PROVE  TypeInv'
<1>1. /\ phase' \in {phase, "crashed", "serving", "stopping", "shutting down", "exited"}
      /\ again' = again
  BY DEF Next, Serve, hvars, Register, RegisterAgain, Listen, ListenFails, Signal, Shutdown, Exit, SchedulerRuns,
         Accept, Handle, WriteAnswer
<1>2. WellStored(db')
  <2>0. WellStored(db) /\ StoresInv
    BY DEF TypeInv, RouteInv
  <2>1. CASE SchedulerRuns
    <3>1. CASE \E a \in AlertIds, s \in {"none", "active", "resolved"} :
                 db' = [db EXCEPT !.alerts[a] = s]
      <4>1. PICK a \in AlertIds, s \in AlertStates : db' = [db EXCEPT !.alerts[a] = s]
        BY <3>1 DEF AlertStates
      <4> QED
        BY <2>0, <4>1 DEF WellStored, StoresInv
    <3>2. CASE \E kept \in SUBSET db.logs : db' = [db EXCEPT !.logs = kept]
      <4>1. PICK kept \in SUBSET db.logs : db' = [db EXCEPT !.logs = kept]
        BY <3>2
      <4>2. LogsFit(kept)
        BY <2>0, FewerLogs DEF WellStored
      <4> QED
        BY <2>0, <4>1, <4>2, WithOtherLogs
    <3> QED
      BY <2>1, <3>1, <3>2 DEF SchedulerRuns
  <2>2. ASSUME NEW c \in Clients, Handle(c) PROVE WellStored(db')
    <3>1. conn[c] # Free
      <4>1. conn[c].stage = "handling"
        BY <2>2 DEF Handle
      <4> QED
        BY <4>1 DEF Free
    <3>2. PICK o \in Outcomes(conn[c]) : db' = o.db
      BY <2>2 DEF Handle
    <3>3. conn[c].req \in Requests[c] /\ Harmless(conn[c].handler, conn[c].req.path)
      BY <3>1 DEF EffectInv, RouteInv, ConnInv
    <3> QED
      BY <2>0, <3>2, <3>3, OutcomesTyped
  <2>3. CASE UNCHANGED db
    BY <2>0, <2>3
  <2> QED
    BY <2>1, <2>2, <2>3
    DEF Next, Serve, hvars, Register, RegisterAgain, Listen, ListenFails, Signal, Shutdown, Exit, Accept,
        WriteAnswer
<1> QED
  BY <1>1, <1>2 DEF TypeInv

LEMMA TypesHold ==
  ASSUME RouteInv, EffectInv, TypeInv
  PROVE  TypeOK
<1>1. /\ db.logs \in SUBSET LogIds /\ Cardinality(db.logs) <= Capacity
      /\ db.rules \in [RuleIds -> [name : Names, enabled : BOOLEAN]]
      /\ db.alerts \in [AlertIds -> {"none", "active", "acknowledged", "resolved"}]
  BY DEF TypeInv, WellStored, LogsFit, RuleType, AlertStates
<1>2. DOMAIN conn = Clients
  BY DEF RouteInv, ConnInv
<1>3. ASSUME NEW c \in Clients, conn[c] # Free
      PROVE  /\ conn[c].stage \in {"handling", "answering"} /\ conn[c].req \in Requests[c]
             /\ conn[c].stage = "answering" => conn[c].status \in 200..599
             /\ conn[c].stage = "handling" => conn[c].handler # ""
  BY <1>3, ZenonT(60) DEF EffectInv, Truthful, Underway
<1> QED
  BY <1>1, <1>2, <1>3 DEF TypeOK, TypeInv

(* The stores and the connections have their types: however the requests    *)
(* and the scheduler interleave, the log store stays within its capacity,   *)
(* and a request that no handler works on has an answer.                    *)
THEOREM TypeCorrect == Spec => []TypeOK
<1> DEFINE IInv == RouteInv /\ MuxInv /\ EffectInv /\ TypeInv
<1>1. Init => IInv
  BY InitRouteInv, InitMuxInv, InitEffectInv, InitTypeInv
<1>2. IInv /\ [Next]_hvars => IInv'
  BY NextRouteInv, NextMuxInv, NextEffectInv, NextTypeInv
<1>3. IInv => TypeOK
  BY TypesHold
<1> QED
  BY <1>1, <1>2, <1>3, PTL DEF Spec
=============================================================================
