-------------------------- MODULE AlertEngineProofs --------------------------
(***************************************************************************)
(* Proofs about AlertEngine, for every value of its constants.  The        *)
(* invariant IndInv says what the scan knows of the rule it evaluates      *)
(* although others may write it: the rule was enabled at some moment of    *)
(* the scan, and what was read of it is still there unless it is touched.  *)
(***************************************************************************)
EXTENDS AlertEngine, FiniteSetTheorems, TLAPS

(* The locals that were read of the rule under evaluation, at each stage. *)
ReadIsCurrent ==
  LET v == rules[scan.rule].fields IN
  /\ scan.stage \in {"source", "level", "query", "compare", "make", "store"} =>
       scan.window = v.window
  /\ scan.stage \in {"level", "query", "compare", "make", "store"} => scan.source = v.source
  /\ scan.stage \in {"query", "compare", "make", "store"} => scan.level = v.level
  /\ scan.stage \in {"make", "store"} => scan.compared = v.threshold

ScanInv ==
  /\ Enabled \subseteq awake
  /\ scan.rule \notin scan.todo
  /\ scan.stage = "idle" => scan.todo = {}
  /\ scan.rule # NoOne => scan.rule \in awake
  /\ ~touched => ReadIsCurrent
  /\ scan.stage \in {"make", "store"} => scan.total >= scan.compared

IndInv == TypeOK /\ ScanInv /\ EventSaysWhatWasCounted

(* A single write keeps a rule's fields well typed, and changes nothing but *)
(* its field.                                                               *)
LEMMA WriteOneField ==
  ASSUME NEW v \in RuleValues, NEW e \in Edits
  PROVE  /\ [v EXCEPT ![e.field] = e.value] \in RuleValues
         /\ e.field = "enabled" =>
              LET w == [v EXCEPT ![e.field] = e.value] IN
              /\ w.source = v.source /\ w.level = v.level
              /\ w.window = v.window /\ w.threshold = v.threshold
<1>1. e.field \in {"enabled", "source", "level", "window", "threshold"}
      /\ e.value \in FieldType[e.field]
  BY EngineAssumption DEF FieldType
<1>2. CASE e.field = "enabled"
  BY <1>1, <1>2 DEF FieldType, RuleValues
<1>3. CASE e.field = "source"
  BY <1>1, <1>3 DEF FieldType, RuleValues
<1>4. CASE e.field = "level"
  BY <1>1, <1>4 DEF FieldType, RuleValues
<1>5. CASE e.field = "window"
  BY <1>1, <1>5 DEF FieldType, RuleValues
<1>6. CASE e.field = "threshold"
  BY <1>1, <1>6 DEF FieldType, RuleValues
<1> QED
  BY <1>1, <1>2, <1>3, <1>4, <1>5, <1>6

(* A query counts a finite set. *)
LEMMA CountIsNat ==
  ASSUME NEW s, NEW l, NEW w, NEW d
  PROVE  Count(s, l, w, d) \in Nat
<1>1. IsFiniteSet(Matching(s, l, w, d))
  BY EngineAssumption, FS_Subset DEF Matching
<1> QED
  BY <1>1, FS_CardinalityType DEF Count

(* An object that a pointer refers to is none that was never created. *)
LEMMA RuleIsThere ==
  ASSUME NEW v \in [stored : BOOLEAN, fields : RuleValues]
  PROVE  v # NoRule /\ v.stored \in BOOLEAN /\ v.fields \in RuleValues
<1>1. DOMAIN v = {"stored", "fields"}
  OBVIOUS
<1>2. DOMAIN NoRule = {"stored"}
  BY DEF NoRule
<1> QED
  BY <1>1, <1>2

LEMMA Bounds == MaxElapsed \in Nat /\ MaxWindow \in Nat /\ NoOne \notin Rules
BY EngineAssumption

(* The locals at the top of the loop, and before the first scan. *)
LEMMA LoopFields ==
  ASSUME NEW s
  PROVE  /\ ToLoop(s).stage = "loop" /\ ToLoop(s).rule = NoOne
         /\ ToLoop(s).todo = s.todo /\ ToLoop(s).fired = s.fired
         /\ ToLoop(s).event = NoEvent
BY DEF ToLoop, Idle

LEMMA IdleType ==
  ASSUME NEW z, z \in Int, z \in Nat, z \in 0..MaxElapsed, z \in Windows, NEW e \in EventType,
         NEW c, c \in Sources, c \in Levels, NEW t \in SUBSET Rules
  PROVE  [stage |-> "idle", todo |-> t, rule |-> NoOne, elapsed |-> z, window |-> z,
          source |-> c, level |-> c, total |-> z, compared |-> z,
          event |-> e, fired |-> t] \in ScanType
BY DEF ScanType

LEMMA TopOfLoopType ==
  /\ Idle \in ScanType
  /\ \A s \in ScanType : ToLoop(s) \in ScanType
<1>1. 0 \in Nat /\ 0 \in Int /\ 0 \in 0..MaxElapsed /\ 0 \in Windows
  BY Bounds DEF Windows
<1>2. NoEvent \in EventType
  BY DEF EventType
<1>3. "" \in Sources /\ "" \in Levels /\ {} \in SUBSET Rules
  BY EngineAssumption
<1>4. Idle \in ScanType
  BY <1>1, <1>2, <1>3, IdleType DEF Idle
<1>5. ASSUME NEW s \in ScanType PROVE ToLoop(s) \in ScanType
  <2>1. s.todo \in SUBSET Rules /\ s.fired \in SUBSET Rules
    BY DEF ScanType
  <2> QED
    BY <1>4, <2>1 DEF ToLoop, ScanType
<1> QED
  BY <1>4, <1>5

LEMMA InitIndInv == Init => IndInv
<1> SUFFICES ASSUME Init PROVE IndInv
  OBVIOUS
<1>1. TypeOK
  <2>1. rules \in [Rules -> {NoRule}] /\ logs \in [LogIds -> {Absent}]
    BY DEF Init
  <2>2. /\ scan \in ScanType /\ awake \in SUBSET Rules /\ touched \in BOOLEAN
        /\ due \in SUBSET LogIds
    BY TopOfLoopType DEF Init
  <2>3. /\ scan.rule = NoOne /\ scan.stage = "idle" /\ scan.event = NoEvent
        /\ scan.todo = {} /\ scan.fired = {}
    BY DEF Init, Idle
  <2>4. \A r \in Rules : ~Referenced(r)
    BY <2>3, Bounds DEF Referenced
  <2> QED
    BY <2>1, <2>2, <2>3, <2>4 DEF TypeOK
<1>2. ScanInv
  BY DEF Init, ScanInv, Enabled, NoRule, Idle, ReadIsCurrent
<1>3. EventSaysWhatWasCounted
  BY DEF Init, EventSaysWhatWasCounted, At, Idle
<1> QED
  BY <1>1, <1>2, <1>3 DEF IndInv

(* The fields that the scan reads are there and have their types. *)
LEMMA ReferencedFields ==
  ASSUME TypeOK, NEW r \in Rules, Referenced(r)
  PROVE  rules[r].stored \in BOOLEAN /\ rules[r].fields \in RuleValues
BY RuleIsThere DEF TypeOK

-----------------------------------------------------------------------------
(* Steps of the scan leave the rules alone: what they do to the invariant   *)
(* depends on the locals only.                                              *)

LEMMA ScanStepTypes ==
  ASSUME IndInv, UNCHANGED <<rules, logs, awake>>,
         scan' \in ScanType, touched' \in BOOLEAN, due' \in SUBSET LogIds,
         (scan'.rule = NoOne) <=> (scan'.stage \in {"idle", "loop"}),
         (scan'.event # NoEvent) <=> (scan'.stage = "store"),
         \A r \in Rules : Referenced(r)' => Referenced(r)
  PROVE  TypeOK'
BY DEF IndInv, TypeOK

(* Back at the top of the loop the rule under evaluation is dealt with. *)
LEMMA BackToLoop ==
  ASSUME IndInv, UNCHANGED <<rules, logs, awake, touched>>, due' \in SUBSET LogIds,
         scan' = ToLoop(scan)
  PROVE  IndInv'
<1>1. /\ scan'.stage = "loop" /\ scan'.rule = NoOne
      /\ scan'.todo = scan.todo /\ scan'.fired = scan.fired
      /\ scan'.event = NoEvent
  BY LoopFields
<1>2. TypeOK'
  <2>1. scan' \in ScanType
    BY TopOfLoopType DEF IndInv, TypeOK
  <2>2. \A r \in Rules : Referenced(r)' => Referenced(r)
    BY <1>1, Bounds DEF Referenced
  <2> QED
    BY <1>1, <2>1, <2>2, ScanStepTypes DEF IndInv, TypeOK
<1>3. ScanInv'
  <2>1. scan'.rule \notin scan'.todo
    BY <1>1, Bounds DEF IndInv, TypeOK, ScanType
  <2> QED
    BY <1>1, <2>1 DEF IndInv, ScanInv, ReadIsCurrent, Enabled
<1>4. EventSaysWhatWasCounted'
  BY <1>1 DEF EventSaysWhatWasCounted, At
<1> QED
  BY <1>2, <1>3, <1>4 DEF IndInv

LEMMA ListIndInv == IndInv /\ List => IndInv'
<1> SUFFICES ASSUME IndInv, List PROVE IndInv'
  OBVIOUS
<1>1. Idle \in ScanType /\ Stored \in SUBSET Rules
  BY TopOfLoopType DEF Stored
<1>2. scan' = [Idle EXCEPT !.stage = "loop", !.todo = Stored]
  BY DEF List
<1>3. scan' \in ScanType
  BY <1>1, <1>2 DEF ScanType
<1>4. /\ scan'.stage = "loop" /\ scan'.rule = NoOne /\ scan'.todo = Stored
      /\ scan'.fired = {} /\ scan'.event = NoEvent
  BY <1>2 DEF Idle
<1>5. UNCHANGED <<rules, logs, touched, due>> /\ awake' = Enabled
  BY DEF List
<1>6. TypeOK'
  <2>1. \A r \in Rules : Referenced(r)' => rules[r] # NoRule
    <3> SUFFICES ASSUME NEW r \in Rules, r \in Stored PROVE rules[r] # NoRule
      BY <1>4, Bounds DEF Referenced
    <3>1. rules[r].stored
      BY DEF Stored
    <3> QED
      BY <3>1 DEF NoRule
  <2>2. awake' \in SUBSET Rules
    BY <1>5 DEF Enabled
  <2> QED
    BY <1>3, <1>4, <1>5, <2>1, <2>2 DEF IndInv, TypeOK
<1>7. ScanInv'
  <2>1. NoOne \notin Stored
    BY Bounds DEF Stored
  <2> QED
    BY <1>4, <1>5, <2>1 DEF ScanInv, ReadIsCurrent, Enabled
<1>8. EventSaysWhatWasCounted'
  BY <1>4 DEF EventSaysWhatWasCounted, At
<1> QED
  BY <1>6, <1>7, <1>8 DEF IndInv

LEMMA SkipIndInv == ASSUME NEW r \in Rules PROVE IndInv /\ SkipDisabled(r) => IndInv'
<1> SUFFICES ASSUME IndInv, SkipDisabled(r) PROVE IndInv'
  OBVIOUS
<1>1. scan \in ScanType /\ UNCHANGED <<rules, logs, awake, touched, due>>
  BY DEF IndInv, TypeOK, SkipDisabled
<1>2. scan' = [scan EXCEPT !.todo = @ \ {r}] /\ scan.stage = "loop"
  BY DEF SkipDisabled, At
<1>3. scan' \in ScanType
  BY <1>1, <1>2 DEF ScanType
<1>4. /\ scan'.stage = "loop" /\ scan'.rule = scan.rule /\ scan'.todo = scan.todo \ {r}
      /\ scan'.fired = scan.fired /\ scan'.event = scan.event
  BY <1>1, <1>2 DEF ScanType
<1>5. TypeOK'
  <2>1. \A q \in Rules : Referenced(q)' => Referenced(q)
    BY <1>4 DEF Referenced
  <2> QED
    BY <1>1, <1>2, <1>3, <1>4, <2>1, ScanStepTypes DEF IndInv, TypeOK
<1>6. ScanInv'
  BY <1>1, <1>4 DEF IndInv, ScanInv, ReadIsCurrent, Enabled
<1>7. EventSaysWhatWasCounted'
  BY <1>4 DEF EventSaysWhatWasCounted, At
<1> QED
  BY <1>5, <1>6, <1>7 DEF IndInv

LEMMA CallIndInv == ASSUME NEW r \in Rules PROVE IndInv /\ CallEvaluateRule(r) => IndInv'
<1> SUFFICES ASSUME IndInv, CallEvaluateRule(r) PROVE IndInv'
  OBVIOUS
<1>1. scan \in ScanType /\ UNCHANGED <<rules, logs, awake, touched, due>> /\ r \in scan.todo
  BY DEF IndInv, TypeOK, CallEvaluateRule
<1>2. scan' = [scan EXCEPT !.todo = @ \ {r}, !.rule = r, !.stage = "check"]
  BY DEF CallEvaluateRule
<1>3. scan' \in ScanType
  BY <1>1, <1>2 DEF ScanType
<1>4. /\ scan'.stage = "check" /\ scan'.rule = r /\ scan'.todo = scan.todo \ {r}
      /\ scan'.fired = scan.fired /\ scan'.event = scan.event
  BY <1>1, <1>2 DEF ScanType
<1>5. scan.event = NoEvent /\ r # NoOne
  BY Bounds DEF IndInv, TypeOK, CallEvaluateRule, At
<1>6. TypeOK'
  <2>1. \A q \in Rules : Referenced(q)' => Referenced(q)
    BY <1>1, <1>4 DEF Referenced
  <2> QED
    BY <1>1, <1>3, <1>4, <1>5, <2>1, ScanStepTypes DEF IndInv, TypeOK
<1>7. r \in awake
  <2>1. rules[r] # NoRule
    BY <1>1 DEF IndInv, TypeOK, Referenced
  <2> QED
    BY <2>1 DEF IndInv, ScanInv, Enabled, CallEvaluateRule, IsEnabled
<1>8. ScanInv'
  BY <1>1, <1>4, <1>7 DEF IndInv, ScanInv, ReadIsCurrent, Enabled
<1>9. EventSaysWhatWasCounted'
  BY <1>4 DEF EventSaysWhatWasCounted, At
<1> QED
  BY <1>6, <1>8, <1>9 DEF IndInv

(* A step within the evaluation of a rule that makes no event. *)
LEMMA WithinEvaluation ==
  ASSUME IndInv, UNCHANGED <<rules, logs, awake>>, touched' \in BOOLEAN,
         due' \in SUBSET LogIds, scan' \in ScanType,
         scan'.stage \notin {"idle", "loop", "store"},
         scan.stage \notin {"idle", "loop", "store"},
         scan'.rule = scan.rule, scan'.todo = scan.todo, scan'.fired = scan.fired,
         scan'.event = scan.event,
         ~touched' => ReadIsCurrent',
         scan'.stage = "make" => scan'.total >= scan'.compared
  PROVE  IndInv'
<1>1. TypeOK'
  <2>1. \A q \in Rules : Referenced(q)' => Referenced(q)
    BY DEF Referenced
  <2> QED
    BY <2>1, ScanStepTypes DEF IndInv, TypeOK
<1>2. ScanInv'
  BY DEF IndInv, ScanInv, Enabled
<1>3. EventSaysWhatWasCounted'
  BY DEF EventSaysWhatWasCounted, At
<1> QED
  BY <1>1, <1>2, <1>3 DEF IndInv

LEMMA CheckIndInv == IndInv /\ CheckEnabled => IndInv'
<1> SUFFICES ASSUME IndInv, CheckEnabled PROVE IndInv'
  OBVIOUS
<1>1. scan \in ScanType /\ touched \in BOOLEAN /\ scan' = [scan EXCEPT !.stage = "window"]
  BY DEF IndInv, TypeOK, CheckEnabled
<1>2. scan' \in ScanType
  BY <1>1 DEF ScanType
<1>3. /\ scan'.rule = scan.rule /\ scan'.todo = scan.todo /\ scan'.fired = scan.fired
      /\ scan'.event = scan.event /\ scan'.stage = "window"
  BY <1>1 DEF ScanType
<1>4. ReadIsCurrent'
  BY <1>3 DEF ReadIsCurrent
<1> QED
  BY <1>1, <1>2, <1>3, <1>4, WithinEvaluation DEF IndInv, TypeOK, CheckEnabled, At

LEMMA OpenIndInv == IndInv /\ OpenWindow => IndInv'
<1> SUFFICES ASSUME IndInv, OpenWindow PROVE IndInv'
  OBVIOUS
<1>1. /\ scan \in ScanType /\ Rule \in RuleValues
      /\ scan' = [scan EXCEPT !.stage = "source", !.window = Rule.window, !.elapsed = 0]
  <2>1. scan.rule \in Rules
    BY DEF IndInv, TypeOK, ScanType, OpenWindow, At
  <2> QED
    BY <2>1, ReferencedFields DEF IndInv, TypeOK, OpenWindow, Rule, Referenced
<1>2. scan' \in ScanType
  <2>1. Rule.window \in Windows /\ 0 \in 0..MaxElapsed
    BY <1>1, Bounds DEF RuleValues
  <2>2. ASSUME NEW w \in Windows, NEW z \in 0..MaxElapsed
        PROVE  [scan EXCEPT !.stage = "source", !.window = w, !.elapsed = z] \in ScanType
    BY <1>1 DEF ScanType
  <2> QED
    BY <1>1, <2>1, <2>2
<1>3. /\ scan'.rule = scan.rule /\ scan'.todo = scan.todo /\ scan'.fired = scan.fired
      /\ scan'.event = scan.event /\ scan'.stage = "source" /\ scan'.window = Rule.window
  BY <1>1 DEF ScanType
<1>4. ReadIsCurrent'
  BY <1>3 DEF ReadIsCurrent, OpenWindow, Rule
<1> QED
  BY <1>1, <1>2, <1>3, <1>4, WithinEvaluation DEF OpenWindow, At

LEMMA SourceIndInv == IndInv /\ ReadSource => IndInv'
<1> SUFFICES ASSUME IndInv, ReadSource PROVE IndInv'
  OBVIOUS
<1>1. /\ scan \in ScanType /\ Rule \in RuleValues
      /\ scan' = [scan EXCEPT !.stage = "level", !.source = Rule.source]
  <2>1. scan.rule \in Rules
    BY DEF IndInv, TypeOK, ScanType, ReadSource, At
  <2> QED
    BY <2>1, ReferencedFields DEF IndInv, TypeOK, ReadSource, Rule, Referenced
<1>2. scan' \in ScanType
  BY <1>1 DEF ScanType, RuleValues
<1>3. /\ scan'.rule = scan.rule /\ scan'.todo = scan.todo /\ scan'.fired = scan.fired
      /\ scan'.event = scan.event /\ scan'.stage = "level" /\ scan'.window = scan.window
      /\ scan'.source = Rule.source
  BY <1>1 DEF ScanType
<1>4. ~touched' => ReadIsCurrent'
  BY <1>3 DEF IndInv, ScanInv, ReadIsCurrent, ReadSource, At, Rule
<1> QED
  BY <1>1, <1>2, <1>3, <1>4, WithinEvaluation DEF IndInv, TypeOK, ReadSource, At

LEMMA LevelIndInv == IndInv /\ ReadLevel => IndInv'
<1> SUFFICES ASSUME IndInv, ReadLevel PROVE IndInv'
  OBVIOUS
<1>1. /\ scan \in ScanType /\ Rule \in RuleValues
      /\ scan' = [scan EXCEPT !.stage = "query", !.level = Rule.level]
  <2>1. scan.rule \in Rules
    BY DEF IndInv, TypeOK, ScanType, ReadLevel, At
  <2> QED
    BY <2>1, ReferencedFields DEF IndInv, TypeOK, ReadLevel, Rule, Referenced
<1>2. scan' \in ScanType
  BY <1>1 DEF ScanType, RuleValues
<1>3. /\ scan'.rule = scan.rule /\ scan'.todo = scan.todo /\ scan'.fired = scan.fired
      /\ scan'.event = scan.event /\ scan'.stage = "query" /\ scan'.window = scan.window
      /\ scan'.source = scan.source /\ scan'.level = Rule.level
  BY <1>1 DEF ScanType
<1>4. ~touched' => ReadIsCurrent'
  BY <1>3 DEF IndInv, ScanInv, ReadIsCurrent, ReadLevel, At, Rule
<1> QED
  BY <1>1, <1>2, <1>3, <1>4, WithinEvaluation DEF IndInv, TypeOK, ReadLevel, At

LEMMA QueryIndInv == IndInv /\ Query => IndInv'
<1> SUFFICES ASSUME IndInv, Query PROVE IndInv'
  OBVIOUS
<1> DEFINE n == Count(scan.source, scan.level, scan.window, scan.elapsed)
<1>1. /\ scan \in ScanType /\ n \in Nat /\ 0 \in 0..MaxElapsed
      /\ scan' = [scan EXCEPT !.stage = "compare", !.elapsed = 0, !.total = n]
  BY CountIsNat, Bounds DEF IndInv, TypeOK, Query
<1> HIDE DEF n
<1>2. scan' \in ScanType
  <2>1. ASSUME NEW z \in 0..MaxElapsed
        PROVE  [scan EXCEPT !.stage = "compare", !.elapsed = z, !.total = n] \in ScanType
    BY <1>1 DEF ScanType
  <2> QED
    BY <1>1, <2>1
<1>3. /\ scan'.rule = scan.rule /\ scan'.todo = scan.todo /\ scan'.fired = scan.fired
      /\ scan'.event = scan.event /\ scan'.stage = "compare" /\ scan'.window = scan.window
      /\ scan'.source = scan.source /\ scan'.level = scan.level
  BY <1>1 DEF ScanType
<1>4. ~touched' => ReadIsCurrent'
  BY <1>3 DEF IndInv, ScanInv, ReadIsCurrent, Query, At
<1> QED
  BY <1>1, <1>2, <1>3, <1>4, WithinEvaluation DEF IndInv, TypeOK, Query, At

LEMMA ReachedIndInv == IndInv /\ Reached => IndInv'
<1> SUFFICES ASSUME IndInv, Reached PROVE IndInv'
  OBVIOUS
<1>1. /\ scan \in ScanType /\ Rule \in RuleValues
      /\ scan' = [scan EXCEPT !.stage = "make", !.compared = Rule.threshold]
  <2>1. scan.rule \in Rules
    BY DEF IndInv, TypeOK, ScanType, Reached, At
  <2> QED
    BY <2>1, ReferencedFields DEF IndInv, TypeOK, Reached, Rule, Referenced
<1>2. scan' \in ScanType
  BY <1>1 DEF ScanType, RuleValues
<1>3. /\ scan'.rule = scan.rule /\ scan'.todo = scan.todo /\ scan'.fired = scan.fired
      /\ scan'.event = scan.event /\ scan'.stage = "make" /\ scan'.window = scan.window
      /\ scan'.source = scan.source /\ scan'.level = scan.level
      /\ scan'.compared = Rule.threshold /\ scan'.total = scan.total
  BY <1>1 DEF ScanType
<1>4. ~touched' => ReadIsCurrent'
  BY <1>3 DEF IndInv, ScanInv, ReadIsCurrent, Reached, At, Rule
<1>5. scan'.total >= scan'.compared
  BY <1>3 DEF Reached, Fires
<1> QED
  BY <1>1, <1>2, <1>3, <1>4, <1>5, WithinEvaluation DEF IndInv, TypeOK, Reached, At

LEMMA MakeIndInv == IndInv /\ NewAlertEvent => IndInv'
<1> SUFFICES ASSUME IndInv, NewAlertEvent PROVE IndInv'
  OBVIOUS
<1> DEFINE e == Event(Rule, scan.total)
<1>1. /\ scan \in ScanType /\ Rule \in RuleValues
      /\ scan' = [scan EXCEPT !.stage = "store", !.event = e]
  <2>1. scan.rule \in Rules
    BY DEF IndInv, TypeOK, ScanType, NewAlertEvent, At
  <2> QED
    BY <2>1, ReferencedFields DEF IndInv, TypeOK, NewAlertEvent, Rule, Referenced
<1>2. e \in EventType /\ e # NoEvent
  BY <1>1 DEF Event, EventType, NoEvent, RuleValues, ScanType
<1>3. /\ e.count = scan.total /\ e.threshold = Rule.threshold /\ e.source = Rule.source
      /\ e.level = Rule.level /\ e.window = Rule.window
  BY DEF Event
<1> HIDE DEF e
<1>4. scan' \in ScanType
  BY <1>1, <1>2 DEF ScanType
<1>5. /\ scan'.rule = scan.rule /\ scan'.todo = scan.todo /\ scan'.fired = scan.fired
      /\ scan'.event = e /\ scan'.stage = "store" /\ scan'.window = scan.window
      /\ scan'.source = scan.source /\ scan'.level = scan.level
      /\ scan'.compared = scan.compared /\ scan'.total = scan.total
  BY <1>1 DEF ScanType
<1>6. UNCHANGED <<rules, logs, awake, touched, due>> /\ scan.stage = "make"
  BY DEF NewAlertEvent, At
<1>7. TypeOK'
  <2>1. \A q \in Rules : Referenced(q)' => Referenced(q)
    BY <1>5 DEF Referenced
  <2> QED
    BY <1>2, <1>4, <1>5, <1>6, <2>1, ScanStepTypes DEF IndInv, TypeOK
<1>8. ScanInv'
  BY <1>5, <1>6 DEF IndInv, ScanInv, ReadIsCurrent, Enabled
<1>9. EventSaysWhatWasCounted'
  <2>1. scan.total >= scan.compared /\ (~touched => ReadIsCurrent)
    BY <1>6 DEF IndInv, ScanInv
  <2>2. ~touched => /\ scan.window = Rule.window /\ scan.source = Rule.source
                    /\ scan.level = Rule.level /\ scan.compared = Rule.threshold
    BY <1>6, <2>1 DEF ReadIsCurrent, Rule
  <2> QED
    BY <1>3, <1>5, <1>6, <2>1, <2>2 DEF EventSaysWhatWasCounted
<1> QED
  BY <1>7, <1>8, <1>9 DEF IndInv

LEMMA StoreIndInv == IndInv /\ StoreEvent => IndInv'
<1> SUFFICES ASSUME IndInv, StoreEvent PROVE IndInv'
  OBVIOUS
<1> DEFINE l == ToLoop(scan)
<1>1. /\ scan \in ScanType /\ scan.rule \in Rules
      /\ scan' = [l EXCEPT !.fired = @ \cup {scan.rule}]
  BY DEF IndInv, TypeOK, ScanType, StoreEvent, At
<1>2. /\ l \in ScanType /\ l.stage = "loop" /\ l.rule = NoOne /\ l.todo = scan.todo
      /\ l.fired = scan.fired /\ l.event = NoEvent
  BY <1>1, LoopFields, TopOfLoopType
<1> HIDE DEF l
<1>3. scan' \in ScanType
  BY <1>1, <1>2 DEF ScanType
<1>4. /\ scan'.stage = "loop" /\ scan'.rule = NoOne /\ scan'.todo = scan.todo
      /\ scan'.fired = scan.fired \cup {scan.rule} /\ scan'.event = NoEvent
  BY <1>1, <1>2 DEF ScanType
<1>5. UNCHANGED <<rules, logs, awake, touched, due>>
  BY DEF StoreEvent
<1>6. TypeOK'
  <2>1. \A q \in Rules : Referenced(q)' => Referenced(q)
    BY <1>4, Bounds DEF Referenced
  <2> QED
    BY <1>3, <1>4, <1>5, <2>1, ScanStepTypes DEF IndInv, TypeOK
<1>7. ScanInv'
  <2>1. NoOne \notin scan.todo
    BY <1>1, Bounds DEF ScanType
  <2> QED
    BY <1>4, <1>5, <2>1 DEF IndInv, ScanInv, ReadIsCurrent, Enabled
<1>8. EventSaysWhatWasCounted'
  BY <1>4 DEF EventSaysWhatWasCounted, At
<1> QED
  BY <1>6, <1>7, <1>8 DEF IndInv

LEMMA EndScanIndInv == IndInv /\ EndScan => IndInv'
<1> SUFFICES ASSUME IndInv, EndScan PROVE IndInv'
  OBVIOUS
<1>1. /\ scan \in ScanType /\ scan' = [scan EXCEPT !.stage = "idle"]
      /\ scan.stage = "loop" /\ scan.todo = {}
      /\ UNCHANGED <<rules, logs, awake, touched, due>>
  BY DEF IndInv, TypeOK, EndScan, At
<1>2. scan' \in ScanType
  BY <1>1 DEF ScanType
<1>3. /\ scan'.stage = "idle" /\ scan'.rule = scan.rule /\ scan'.todo = scan.todo
      /\ scan'.fired = scan.fired /\ scan'.event = scan.event
  BY <1>1 DEF ScanType
<1>4. TypeOK'
  <2>1. \A q \in Rules : Referenced(q)' => Referenced(q)
    BY <1>3 DEF Referenced
  <2> QED
    BY <1>1, <1>2, <1>3, <2>1, ScanStepTypes DEF IndInv, TypeOK
<1>5. ScanInv'
  BY <1>1, <1>3 DEF IndInv, ScanInv, ReadIsCurrent, Enabled
<1>6. EventSaysWhatWasCounted'
  BY <1>3 DEF EventSaysWhatWasCounted, At
<1> QED
  BY <1>4, <1>5, <1>6 DEF IndInv

LEMMA EvaluateIndInv == IndInv /\ EvaluateAllRules => IndInv'
<1>1. IndInv /\ GiveUpDisabled => IndInv'
  BY BackToLoop DEF GiveUpDisabled, IndInv, TypeOK
<1>2. IndInv /\ QueryFails => IndInv'
  BY BackToLoop DEF QueryFails, IndInv, TypeOK
<1>3. IndInv /\ TooFew => IndInv'
  BY BackToLoop DEF TooFew, IndInv, TypeOK
<1> QED
  BY <1>1, <1>2, <1>3, ListIndInv, EndScanIndInv, SkipIndInv, CallIndInv, CheckIndInv,
     OpenIndInv, SourceIndInv, LevelIndInv, QueryIndInv, ReachedIndInv, MakeIndInv,
     StoreIndInv
  DEF EvaluateAllRules, EvaluateRule

-----------------------------------------------------------------------------
(* Steps of the rest of the program. *)

(* Entries and time do not touch the rules. *)
LEMMA EntriesStep ==
  ASSUME IndInv, UNCHANGED <<rules, scan, awake, touched>>, due' \in SUBSET LogIds,
         logs' \in [LogIds -> {Absent} \cup [age : Ages, source : Sources, level : Levels]]
  PROVE  IndInv'
<1>1. TypeOK'
  BY DEF IndInv, TypeOK, Referenced
<1>2. ScanInv'
  BY DEF IndInv, ScanInv, ReadIsCurrent, Enabled
<1>3. EventSaysWhatWasCounted'
  BY DEF IndInv, EventSaysWhatWasCounted, At
<1> QED
  BY <1>1, <1>2, <1>3 DEF IndInv

LEMMA ArriveIndInv ==
  ASSUME NEW x \in LogIds, NEW k \in LogKinds, NEW age \in Ages
  PROVE  IndInv /\ Arrive(x, k, age) => IndInv'
<1> SUFFICES ASSUME IndInv, Arrive(x, k, age) PROVE IndInv'
  OBVIOUS
<1>1. k.source \in Sources /\ k.level \in Levels
  BY EngineAssumption
<1>2. logs' \in [LogIds -> {Absent} \cup [age : Ages, source : Sources, level : Levels]]
  BY <1>1 DEF IndInv, TypeOK, Arrive
<1> QED
  BY <1>2, EntriesStep DEF IndInv, TypeOK, Arrive

LEMMA DisappearIndInv ==
  ASSUME NEW x \in LogIds PROVE IndInv /\ Disappear(x) => IndInv'
<1> SUFFICES ASSUME IndInv, Disappear(x) PROVE IndInv'
  OBVIOUS
<1>1. logs' \in [LogIds -> {Absent} \cup [age : Ages, source : Sources, level : Levels]]
  BY DEF IndInv, TypeOK, Disappear
<1> QED
  BY <1>1, EntriesStep DEF IndInv, TypeOK, Disappear

LEMMA TickIndInv == IndInv /\ Tick => IndInv'
<1> SUFFICES ASSUME IndInv, Tick PROVE IndInv'
  OBVIOUS
<1>1. scan \in ScanType /\ UNCHANGED <<rules, awake, touched, due>> /\ due \in SUBSET LogIds
  BY DEF IndInv, TypeOK, Tick
<1>2. logs' \in [LogIds -> {Absent} \cup [age : Ages, source : Sources, level : Levels]]
  <2> DEFINE older(x) ==
        IF logs[x] = Absent \/ logs[x].age + 1 \notin Ages THEN Absent
        ELSE [logs[x] EXCEPT !.age = @ + 1]
  <2>1. ASSUME NEW x \in LogIds
        PROVE  older(x) \in {Absent} \cup [age : Ages, source : Sources, level : Levels]
    <3>1. logs[x] = Absent \/ logs[x] \in [age : Ages, source : Sources, level : Levels]
      BY DEF IndInv, TypeOK
    <3> QED
      BY <3>1
  <2> QED
    BY <2>1 DEF Tick
<1>3. CASE Counting
  <2>1. scan' = [scan EXCEPT !.elapsed = @ + 1] /\ scan.elapsed < MaxElapsed
    BY <1>3 DEF Tick
  <2>2. scan.elapsed + 1 \in 0..MaxElapsed
    BY <1>1, <2>1, Bounds DEF ScanType
  <2>3. scan' \in ScanType
    <3>1. ASSUME NEW z \in 0..MaxElapsed PROVE [scan EXCEPT !.elapsed = z] \in ScanType
      BY <1>1 DEF ScanType
    <3> QED
      BY <2>1, <2>2, <3>1, <1>1 DEF ScanType
  <2>4. /\ scan'.stage = scan.stage /\ scan'.rule = scan.rule /\ scan'.todo = scan.todo
        /\ scan'.fired = scan.fired /\ scan'.event = scan.event /\ scan'.window = scan.window
        /\ scan'.source = scan.source /\ scan'.level = scan.level
        /\ scan'.compared = scan.compared /\ scan'.total = scan.total
    BY <1>1, <2>1 DEF ScanType
  <2>5. TypeOK'
    BY <1>1, <1>2, <2>3, <2>4 DEF IndInv, TypeOK, Referenced
  <2>6. ScanInv'
    BY <1>1, <2>4 DEF IndInv, ScanInv, ReadIsCurrent, Enabled
  <2>7. EventSaysWhatWasCounted'
    BY <1>1, <2>4 DEF IndInv, EventSaysWhatWasCounted, At
  <2> QED
    BY <2>5, <2>6, <2>7 DEF IndInv
<1>4. CASE ~Counting
  BY <1>1, <1>2, <1>4, EntriesStep DEF Tick
<1> QED
  BY <1>3, <1>4

(* A request puts another value at one place; what the evaluation has read  *)
(* of the rule there stays current unless touched says otherwise.           *)
LEMMA RulesStep ==
  ASSUME IndInv, UNCHANGED <<logs, scan, due>>,
         NEW r \in Rules, NEW o \in [stored : BOOLEAN, fields : RuleValues],
         rules' = [rules EXCEPT ![r] = o],
         awake' = IF o.fields.enabled THEN awake \cup {r} ELSE awake,
         touched' \in BOOLEAN, touched => touched',
         r = scan.rule /\ Evaluating /\ ~touched' =>
           /\ o.fields.source = rules[r].fields.source
           /\ o.fields.level = rules[r].fields.level
           /\ o.fields.window = rules[r].fields.window
           /\ o.fields.threshold = rules[r].fields.threshold
  PROVE  IndInv' /\ awake' = awake \cup Enabled'
<1> USE DEF IndInv
<1>1. rules \in [Rules -> {NoRule} \cup [stored : BOOLEAN, fields : RuleValues]]
  BY DEF TypeOK
<1>2. rules'[r] = o /\ \A q \in Rules \ {r} : rules'[q] = rules[q]
  BY <1>1
<1>3. rules' \in [Rules -> {NoRule} \cup [stored : BOOLEAN, fields : RuleValues]]
  BY <1>1
<1>4. o # NoRule
  BY RuleIsThere
<1>5. TypeOK'
  <2>1. \A q \in Rules : Referenced(q)' => rules'[q] # NoRule
    BY <1>2, <1>4 DEF TypeOK, Referenced
  <2> QED
    BY <1>3, <2>1 DEF TypeOK
<1>6. awake' = awake \cup Enabled'
  <2>1. Enabled' = {q \in Rules : rules'[q] # NoRule /\ rules'[q].fields.enabled}
    BY DEF Enabled
  <2>2. Enabled' \subseteq Enabled \cup {r}
    BY <1>2, <2>1 DEF Enabled
  <2>3. r \in Enabled' <=> o.fields.enabled
    BY <1>2, <1>4, <2>1
  <2> QED
    BY <2>2, <2>3 DEF ScanInv
<1>7. ScanInv'
  <2>1. ~touched' => ReadIsCurrent'
    <3>1. CASE scan.rule = r
      BY <1>2, <3>1 DEF ScanInv, ReadIsCurrent, Evaluating
    <3>2. CASE scan.rule \in Rules \ {r}
      BY <1>2, <3>2 DEF ScanInv, ReadIsCurrent
    <3>3. CASE scan.rule = NoOne
      BY <3>3 DEF TypeOK, ReadIsCurrent
    <3> QED
      BY <3>1, <3>2, <3>3 DEF TypeOK, ScanType
  <2> QED
    BY <1>6, <2>1 DEF ScanInv
<1>8. EventSaysWhatWasCounted'
  BY DEF EventSaysWhatWasCounted, At
<1> QED
  BY <1>5, <1>6, <1>7, <1>8

LEMMA CreateIndInv ==
  ASSUME NEW r \in Rules, NEW v \in Drafts[r]
  PROVE  IndInv /\ CreateRule(r, v) => IndInv' /\ awake' = awake \cup Enabled'
<1> SUFFICES ASSUME IndInv, CreateRule(r, v) PROVE IndInv' /\ awake' = awake \cup Enabled'
  OBVIOUS
<1> DEFINE o == [stored |-> TRUE, fields |-> v]
<1>1. v \in RuleValues
  BY EngineAssumption
<1>2. o \in [stored : BOOLEAN, fields : RuleValues] /\ o.fields = v
  BY <1>1
<1>3. /\ UNCHANGED <<logs, scan, touched, due>> /\ rules' = [rules EXCEPT ![r] = o]
      /\ awake' = IF v.enabled THEN awake \cup {r} ELSE awake
      /\ r # scan.rule
  BY DEF CreateRule, Referenced
<1>4. touched \in BOOLEAN
  BY DEF IndInv, TypeOK
<1> HIDE DEF o
<1> QED
  BY <1>2, <1>3, <1>4, RulesStep

LEMMA WriteIndInv ==
  ASSUME NEW e \in Edits
  PROVE  IndInv /\ WriteField(e) => IndInv' /\ awake' = awake \cup Enabled'
<1> SUFFICES ASSUME IndInv, WriteField(e) PROVE IndInv' /\ awake' = awake \cup Enabled'
  OBVIOUS
<1> DEFINE r == e.rule
<1> DEFINE v == rules[r].fields
<1> DEFINE w == [v EXCEPT ![e.field] = e.value]
<1> DEFINE o == [rules[r] EXCEPT !.fields = w]
<1>1. r \in Rules
  BY EngineAssumption
<1>2. rules[r] \in [stored : BOOLEAN, fields : RuleValues]
  <2>1. rules[r] # NoRule
    <3>1. CASE rules[r].stored
      BY <3>1 DEF NoRule
    <3>2. CASE Referenced(r)
      BY <1>1, <3>2 DEF IndInv, TypeOK
    <3> QED
      BY <3>1, <3>2 DEF WriteField
  <2> QED
    BY <1>1, <2>1 DEF IndInv, TypeOK
<1>3. /\ w \in RuleValues
      /\ e.field = "enabled" => /\ w.source = v.source /\ w.level = v.level
                                /\ w.window = v.window /\ w.threshold = v.threshold
  BY <1>2, WriteOneField
<1>4. o \in [stored : BOOLEAN, fields : RuleValues] /\ o.fields = w
  BY <1>2, <1>3
<1>5. rules' = [rules EXCEPT ![r] = o]
  BY DEF WriteField
<1>6. rules'[r] = o
  BY <1>1, <1>5 DEF IndInv, TypeOK
<1>7. /\ UNCHANGED <<logs, scan, due>>
      /\ touched' = (touched \/ (r = scan.rule /\ Evaluating /\ e.field # "enabled"))
      /\ awake' = IF o.fields.enabled THEN awake \cup {r} ELSE awake
  BY <1>6 DEF WriteField
<1>8. touched' \in BOOLEAN /\ (touched => touched')
  BY <1>7 DEF IndInv, TypeOK
<1>9. r = scan.rule /\ Evaluating /\ ~touched' => e.field = "enabled"
  BY <1>7
<1> HIDE DEF o, r, w
<1> QED
  BY <1>1, <1>3, <1>4, <1>5, <1>7, <1>8, <1>9, RulesStep

LEMMA DeleteIndInv ==
  ASSUME NEW r \in Rules
  PROVE  IndInv /\ DeleteRule(r) => IndInv' /\ awake' = awake \cup Enabled'
<1> SUFFICES ASSUME IndInv, DeleteRule(r) PROVE IndInv' /\ awake' = awake \cup Enabled'
  OBVIOUS
<1> DEFINE o == [rules[r] EXCEPT !.stored = FALSE]
<1>1. rules[r] # NoRule
  BY DEF DeleteRule, NoRule
<1>2. rules[r] \in [stored : BOOLEAN, fields : RuleValues]
  BY <1>1 DEF IndInv, TypeOK
<1>3. o \in [stored : BOOLEAN, fields : RuleValues] /\ o.fields = rules[r].fields
  BY <1>2
<1>4. UNCHANGED <<logs, scan, awake, touched, due>> /\ rules' = [rules EXCEPT ![r] = o]
  BY DEF DeleteRule
<1>5. awake' = IF o.fields.enabled THEN awake \cup {r} ELSE awake
  BY <1>1, <1>3, <1>4 DEF IndInv, ScanInv, Enabled
<1>6. touched' \in BOOLEAN /\ (touched => touched')
  BY <1>4 DEF IndInv, TypeOK
<1> HIDE DEF o
<1> QED
  BY <1>3, <1>4, <1>5, <1>6, RulesStep

-----------------------------------------------------------------------------
(* Theorems *)

LEMMA StutterIndInv == IndInv /\ UNCHANGED evars => IndInv'
<1> SUFFICES ASSUME IndInv, UNCHANGED evars PROVE IndInv'
  OBVIOUS
<1>1. UNCHANGED <<rules, logs, scan, awake, touched, due>>
  BY DEF evars
<1> QED
  BY <1>1, EntriesStep DEF IndInv, TypeOK

(* The invariant is kept by the scan and by everything around it. *)
THEOREM NextIndInv == IndInv /\ [Next]_evars => IndInv'
<1> SUFFICES ASSUME IndInv, [Next]_evars PROVE IndInv'
  OBVIOUS
<1>1. CASE EvaluateAllRules
  BY <1>1, EvaluateIndInv
<1>2. CASE Requests
  BY <1>2, CreateIndInv, WriteIndInv, DeleteIndInv DEF Requests
<1>3. CASE Entries
  BY <1>3, ArriveIndInv, DisappearIndInv DEF Entries
<1>4. CASE Tick
  BY <1>4, TickIndInv
<1>5. CASE UNCHANGED evars
  BY <1>5, StutterIndInv
<1> QED
  BY <1>1, <1>2, <1>3, <1>4, <1>5 DEF Next

(* In every state the scan knows what the invariant says of its rule. *)
THEOREM AlwaysIndInv == Spec => []IndInv
BY InitIndInv, NextIndInv, PTL DEF Spec

(* Every variable of the engine keeps its type, and the locals of an        *)
(* evaluation are set exactly while one is under way.                       *)
THEOREM TypeCorrect == Spec => []TypeOK
<1>1. IndInv => TypeOK
  BY DEF IndInv
<1> QED
  BY <1>1, AlwaysIndInv, PTL

(* An event's count reached its rule's threshold, and the event says what   *)
(* was compared unless the rule was written meanwhile                       *)
(* (alert_service.go:53-68).                                                *)
THEOREM EventsTellTheTruth == Spec => []EventSaysWhatWasCounted
<1>1. IndInv => EventSaysWhatWasCounted
  BY DEF IndInv
<1> QED
  BY <1>1, AlwaysIndInv, PTL

-----------------------------------------------------------------------------
(* What was in the window when an evaluation took `now`. *)

(* Until the query it stays in the range that was computed then; the entries*)
(* and the range move on together.                                          *)
DueInv ==
  /\ ~Counting => due = {}
  /\ Counting => \A x \in due :
       logs[x] # Absent /\ InRange(logs[x].age, scan.window, scan.elapsed)

LEMMA EntryAge ==
  ASSUME TypeOK, NEW x \in LogIds, logs[x] # Absent
  PROVE  logs[x] \in [age : Ages, source : Sources, level : Levels] /\ logs[x].age \in Nat
<1>1. logs[x] \in [age : Ages, source : Sources, level : Levels]
  BY DEF TypeOK
<1>2. Ages \subseteq Nat
  BY Bounds DEF Ages
<1> QED
  BY <1>1, <1>2

(* A minute later everything that is due is a minute older, and still kept: *)
(* no window and no evaluation is longer than what Ages covers.             *)
LEMMA TickKeepsDue == IndInv /\ DueInv /\ Tick => DueInv'
<1> SUFFICES ASSUME IndInv, DueInv, Tick PROVE DueInv'
  OBVIOUS
<1>1. scan \in ScanType /\ TypeOK /\ due' = due /\ due \in SUBSET LogIds
  BY DEF IndInv, TypeOK, Tick
<1>2. CASE ~Counting
  BY <1>2 DEF Tick, DueInv, Counting
<1>3. CASE Counting
  <2>1. scan' = [scan EXCEPT !.elapsed = @ + 1] /\ scan.elapsed < MaxElapsed
    BY <1>3 DEF Tick
  <2>2. /\ scan'.stage = scan.stage /\ scan'.window = scan.window
        /\ scan'.elapsed = scan.elapsed + 1
    BY <1>1, <2>1 DEF ScanType
  <2>3. /\ scan.elapsed \in Nat /\ scan.window \in Int /\ scan.window <= MaxWindow
        /\ MaxWindow \in Nat /\ MaxElapsed \in Nat
    BY <1>1, Bounds DEF ScanType, Windows
  <2>4. ASSUME NEW x \in due
        PROVE  logs'[x] # Absent /\ InRange(logs'[x].age, scan'.window, scan'.elapsed)
    <3>1. /\ x \in LogIds /\ logs[x] # Absent
          /\ InRange(logs[x].age, scan.window, scan.elapsed)
      BY <1>1, <1>3, <2>4 DEF DueInv
    <3>2. /\ logs[x] \in [age : Ages, source : Sources, level : Levels]
          /\ logs[x].age \in Nat
      BY <1>1, <3>1, EntryAge
    <3>3. /\ logs[x].age + 1 \in Ages
          /\ InRange(logs[x].age + 1, scan.window, scan.elapsed + 1)
      BY <2>1, <2>3, <3>1, <3>2 DEF InRange, Ages
    <3>4. logs'[x] = [logs[x] EXCEPT !.age = @ + 1]
      BY <3>1, <3>3 DEF Tick
    <3>5. logs'[x].age = logs[x].age + 1 /\ logs'[x] # Absent
      <4>1. logs'[x].age = logs[x].age + 1 /\ Absent.age = -1
        BY <3>2, <3>4 DEF Absent
      <4> QED
        BY <3>2, <4>1
    <3> QED
      BY <2>2, <3>3, <3>5
  <2> QED
    BY <1>1, <1>3, <2>2, <2>4 DEF DueInv, Counting
<1> QED
  BY <1>2, <1>3

(* Other steps leave the ages, and the locals of an evaluation between `now`*)
(* and its query, alone.                                                    *)
LEMMA NextDueInv == IndInv /\ DueInv /\ [Next]_evars => DueInv'
<1> SUFFICES ASSUME IndInv, DueInv, [Next]_evars PROVE DueInv'
  OBVIOUS
<1>0. scan \in ScanType /\ TypeOK
  BY DEF IndInv, TypeOK
<1>1. CASE OpenWindow
  <2>1. /\ scan'.stage = "source" /\ scan'.window = Rule.window /\ scan'.elapsed = 0
        /\ due' = {x \in LogIds : logs[x] # Absent /\ logs[x].age \in 0..Rule.window}
        /\ logs' = logs
    BY <1>0, <1>1 DEF OpenWindow, ScanType
  <2>2. Rule.window \in Int
    <3>1. scan.rule \in Rules
      BY <1>0, <1>1 DEF TypeOK, ScanType, OpenWindow, At
    <3> QED
      BY <1>0, <1>1, <3>1, ReferencedFields
      DEF OpenWindow, Rule, Referenced, RuleValues, Windows
  <2>3. ASSUME NEW x \in due' PROVE logs[x] # Absent /\ InRange(logs[x].age, Rule.window, 0)
    BY <2>1, <2>2 DEF InRange
  <2> QED
    BY <2>1, <2>3 DEF DueInv, Counting
<1>2. CASE ReadSource \/ ReadLevel
  <2>1. /\ scan'.window = scan.window /\ scan'.elapsed = scan.elapsed
        /\ logs' = logs /\ due' = due /\ Counting
    BY <1>0, <1>2 DEF ReadSource, ReadLevel, ScanType, At, Counting
  <2>2. scan'.stage \in {"level", "query"}
    BY <1>0, <1>2 DEF ReadSource, ReadLevel, ScanType
  <2> QED
    BY <2>1, <2>2 DEF DueInv, Counting
<1>3. CASE Query \/ QueryFails
  <2>1. due' = {}
    BY <1>3 DEF Query, QueryFails
  <2> QED
    BY <2>1 DEF DueInv
<1>4. CASE List \/ EndScan \/ GiveUpDisabled \/ CheckEnabled \/ TooFew \/ Reached
           \/ NewAlertEvent \/ StoreEvent
  <2>1. ~Counting /\ due' = due
    BY <1>4 DEF List, EndScan, GiveUpDisabled, CheckEnabled, TooFew, Reached,
                NewAlertEvent, StoreEvent, At, Counting
  <2> QED
    BY <2>1 DEF DueInv
<1>5. ASSUME NEW r \in Rules, CallEvaluateRule(r) \/ SkipDisabled(r) PROVE DueInv'
  <2>1. ~Counting /\ due' = due
    BY <1>5 DEF CallEvaluateRule, SkipDisabled, At, Counting
  <2> QED
    BY <2>1 DEF DueInv
<1>6. CASE Requests
  BY <1>6 DEF Requests, CreateRule, WriteField, DeleteRule, DueInv, Counting
<1>7. ASSUME NEW x \in LogIds, NEW k \in LogKinds, NEW age \in Ages, Arrive(x, k, age)
      PROVE  DueInv'
  <2>1. x \notin due
    BY <1>7 DEF Arrive, DueInv
  <2>2. UNCHANGED <<scan, due>> /\ \A y \in due : logs'[y] = logs[y]
    BY <1>0, <1>7, <2>1 DEF Arrive, TypeOK
  <2> QED
    BY <2>2 DEF DueInv, Counting
<1>8. ASSUME NEW x \in LogIds, Disappear(x) PROVE DueInv'
  <2>1. scan' = scan /\ due' = due \ {x} /\ \A y \in due' : y \in due /\ logs'[y] = logs[y]
    BY <1>0, <1>8 DEF Disappear, TypeOK
  <2> QED
    BY <2>1 DEF DueInv, Counting
<1>9. CASE Tick
  BY <1>9, TickKeepsDue
<1>10. CASE UNCHANGED evars
  BY <1>10 DEF evars, DueInv, Counting
<1> QED
  BY <1>1, <1>2, <1>3, <1>4, <1>5, <1>6, <1>7, <1>8, <1>9, <1>10
  DEF Next, EvaluateAllRules, EvaluateRule, Entries

(* Nothing that was visible in the window when an evaluation took `now`,    *)
(* and is still there, is missing from its count, however long the query    *)
(* had to wait (alert_service.go:49-60).                                    *)
THEOREM CountsAreComplete == Spec => CountsWhatWasThere
<1>1. IndInv /\ DueInv => [Query => CountsAll]_evars
  <2> SUFFICES ASSUME IndInv, DueInv, Query
               PROVE  scan'.total >= Cardinality(WantedSinceNow)
    BY DEF CountsAll
  <2> DEFINE found == Matching(scan.source, scan.level, scan.window, scan.elapsed)
  <2>1. scan \in ScanType /\ due \in SUBSET LogIds /\ Counting
    BY DEF IndInv, TypeOK, Query, At, Counting
  <2>2. scan'.total = Cardinality(found)
    BY <2>1 DEF Query, ScanType, Count
  <2>3. WantedSinceNow \subseteq found
    BY <2>1 DEF DueInv, Matching, WantedSinceNow
  <2>4. IsFiniteSet(found)
    BY EngineAssumption, FS_Subset DEF Matching
  <2> HIDE DEF found
  <2>5. Cardinality(WantedSinceNow) <= Cardinality(found) /\ IsFiniteSet(WantedSinceNow)
    BY <2>3, <2>4, FS_Subset
  <2>6. Cardinality(WantedSinceNow) \in Nat /\ Cardinality(found) \in Nat
    BY <2>4, <2>5, FS_CardinalityType
  <2> QED
    BY <2>2, <2>5, <2>6
<1>2. Init => DueInv
  BY DEF Init, DueInv, Idle, Counting
<1> QED
  BY <1>1, <1>2, AlwaysIndInv, NextDueInv, PTL DEF Spec, CountsWhatWasThere

-----------------------------------------------------------------------------
(* The engine implements AlertScan. *)

Pending == scan.todo \cup ({scan.rule} \ {NoOne})

LEMMA InitPromise == Init => Promise!Init
<1> SUFFICES ASSUME Init PROVE Promise!Init
  OBVIOUS
<1>1. Stored = {} /\ Enabled = {}
  BY DEF Init, Stored, Enabled, NoRule
<1>2. scan.todo = {} /\ scan.rule = NoOne /\ scan.fired = {} /\ awake = {}
  BY DEF Init, Idle
<1> QED
  BY <1>1, <1>2 DEF Promise!Init

(* A step of the scan that leaves what is pending and what fired alone. *)
LEMMA Unnoticed ==
  ASSUME UNCHANGED <<rules, awake>>,
         Pending' = Pending, scan'.fired = scan.fired
  PROVE  UNCHANGED Promise!scanVars
BY DEF Promise!scanVars, Pending, Stored, Enabled

(* The rule under evaluation is dealt with, without an event. *)
LEMMA BackIsPassOver ==
  ASSUME IndInv, UNCHANGED <<rules, awake>>, scan.rule \in Rules, scan' = ToLoop(scan)
  PROVE  Promise!PassOver(scan.rule)
<1>1. scan'.todo = scan.todo /\ scan'.rule = NoOne /\ scan'.fired = scan.fired
  BY LoopFields
<1>2. scan.rule \notin scan.todo /\ scan.rule # NoOne /\ NoOne \notin scan.todo
  BY Bounds DEF IndInv, ScanInv, TypeOK, ScanType
<1> QED
  BY <1>1, <1>2 DEF Promise!PassOver, Stored, Enabled

(* Each step of the scan is a step of AlertScan, or none. *)
LEMMA ScanStepSimulates ==
  ASSUME IndInv, EvaluateAllRules
  PROVE  Promise!Next \/ UNCHANGED Promise!scanVars
<1>0. scan \in ScanType
  BY DEF IndInv, TypeOK
<1>1. CASE List
  <2>1. scan.todo = {} /\ scan.rule = NoOne
    BY <1>1 DEF List, At, IndInv, ScanInv, TypeOK
  <2>2. scan'.todo = Stored /\ scan'.rule = NoOne /\ scan'.fired = {}
    BY <1>1 DEF List, Idle
  <2>3. NoOne \notin Stored
    BY Bounds DEF Stored
  <2>4. Promise!Begin
    BY <1>1, <2>1, <2>2, <2>3 DEF List, Promise!Begin, Stored, Enabled
  <2> QED
    BY <2>4 DEF Promise!Next
<1>2. CASE EndScan
  <2>1. scan'.todo = scan.todo /\ scan'.rule = scan.rule /\ scan'.fired = scan.fired
    BY <1>0, <1>2 DEF EndScan, ScanType
  <2> QED
    BY <1>2, <2>1, Unnoticed DEF EndScan, Pending
<1>3. ASSUME NEW r \in Rules, CallEvaluateRule(r)
      PROVE  UNCHANGED Promise!scanVars
  <2>1. scan'.todo = scan.todo \ {r} /\ scan'.rule = r /\ scan'.fired = scan.fired
    BY <1>0, <1>3 DEF CallEvaluateRule, ScanType
  <2>2. r \in scan.todo /\ scan.rule = NoOne /\ r # NoOne
    BY <1>3, Bounds DEF CallEvaluateRule, At, IndInv, TypeOK
  <2> QED
    BY <1>3, <2>1, <2>2, Unnoticed DEF CallEvaluateRule, Pending
<1>4. ASSUME NEW r \in Rules, SkipDisabled(r)
      PROVE  Promise!PassOver(r)
  <2>1. scan'.todo = scan.todo \ {r} /\ scan'.rule = scan.rule /\ scan'.fired = scan.fired
    BY <1>0, <1>4 DEF SkipDisabled, ScanType
  <2>2. r \in scan.todo /\ scan.rule = NoOne
    BY <1>4 DEF SkipDisabled, At, IndInv, TypeOK
  <2> QED
    BY <1>4, <2>1, <2>2 DEF SkipDisabled, Promise!PassOver, Stored, Enabled
<1>5. CASE GiveUpDisabled \/ QueryFails \/ TooFew
  <2>1. scan.rule \in Rules
    BY <1>0, <1>5 DEF GiveUpDisabled, QueryFails, TooFew, At, IndInv, TypeOK, ScanType
  <2>2. scan' = ToLoop(scan) /\ UNCHANGED <<rules, awake>>
    BY <1>5 DEF GiveUpDisabled, QueryFails, TooFew
  <2> QED
    BY <2>1, <2>2, BackIsPassOver DEF Promise!Next
<1>6. CASE CheckEnabled \/ OpenWindow \/ ReadSource \/ ReadLevel \/ Query \/ Reached
           \/ NewAlertEvent
  <2>1. scan'.todo = scan.todo /\ scan'.rule = scan.rule /\ scan'.fired = scan.fired
    BY <1>0, <1>6
    DEF CheckEnabled, OpenWindow, ReadSource, ReadLevel, Query, Reached, NewAlertEvent, ScanType
  <2>2. UNCHANGED <<rules, awake>>
    BY <1>6 DEF CheckEnabled, OpenWindow, ReadSource, ReadLevel, Query, Reached, NewAlertEvent
  <2> QED
    BY <2>1, <2>2, Unnoticed DEF Pending
<1>7. CASE StoreEvent
  <2>1. scan.rule \in Rules /\ scan.rule \in awake
    BY <1>0, <1>7, Bounds DEF StoreEvent, At, IndInv, TypeOK, ScanInv, ScanType
  <2>2. ToLoop(scan) \in ScanType
    BY <1>0, TopOfLoopType
  <2>3. /\ scan'.todo = scan.todo /\ scan'.rule = NoOne
        /\ scan'.fired = scan.fired \cup {scan.rule}
    BY <1>7, <2>2, LoopFields DEF StoreEvent, ScanType
  <2>4. scan.rule \notin scan.todo /\ scan.rule # NoOne /\ NoOne \notin scan.todo
    BY <1>0, <2>1, Bounds DEF IndInv, ScanInv, ScanType
  <2>5. Promise!Fire(scan.rule)
    BY <1>7, <2>1, <2>3, <2>4 DEF StoreEvent, Promise!Fire, Stored, Enabled
  <2> QED
    BY <2>1, <2>5 DEF Promise!Next
<1>8. (\E r \in Rules : SkipDisabled(r)) => Promise!Next
  BY <1>4 DEF Promise!Next
<1> QED
  BY <1>1, <1>2, <1>3, <1>5, <1>6, <1>7, <1>8 DEF EvaluateAllRules, EvaluateRule

(* A request changes the rules, and may wake one. *)
LEMMA RequestSimulates ==
  ASSUME IndInv, Requests
  PROVE  Promise!ChangeRules
<1>1. UNCHANGED scan
  BY DEF Requests, CreateRule, WriteField, DeleteRule
<1>2. awake' = awake \cup Enabled'
  BY CreateIndInv, WriteIndInv, DeleteIndInv DEF Requests
<1>3. Stored' \in SUBSET Rules /\ Enabled' \in SUBSET Rules
  BY DEF Stored, Enabled
<1> QED
  BY <1>1, <1>2, <1>3 DEF Promise!ChangeRules

LEMMA StepSimulates ==
  ASSUME IndInv, [Next]_evars
  PROVE  Promise!Next \/ UNCHANGED Promise!scanVars
<1>1. CASE EvaluateAllRules
  BY <1>1, ScanStepSimulates
<1>2. CASE Requests
  BY <1>2, RequestSimulates DEF Promise!Next
<1>3. CASE Entries
  <2>1. UNCHANGED <<rules, scan, awake>>
    BY <1>3 DEF Entries, Arrive, Disappear
  <2> QED
    BY <2>1, Unnoticed DEF Pending
<1>4. CASE Tick
  <2>1. /\ UNCHANGED <<rules, awake>>
        /\ scan' = scan \/ scan' = [scan EXCEPT !.elapsed = @ + 1]
    BY <1>4 DEF Tick
  <2>2. scan'.todo = scan.todo /\ scan'.rule = scan.rule /\ scan'.fired = scan.fired
    BY <2>1 DEF IndInv, TypeOK, ScanType
  <2> QED
    BY <2>1, <2>2, Unnoticed DEF Pending
<1>5. CASE UNCHANGED evars
  BY <1>5, Unnoticed DEF evars, Pending
<1> QED
  BY <1>1, <1>2, <1>3, <1>4, <1>5 DEF Next

(* The engine never breaks what AlertScan says of one scan: a listed rule   *)
(* is dealt with once, fires at most once, and only if it was enabled at    *)
(* some moment of the scan (alert_service.go:80-107).                       *)
THEOREM ImplementsAlertScanSafely == Spec => Promise!Safe
<1>1. IndInv /\ [Next]_evars => [Promise!Next]_Promise!scanVars
  BY StepSimulates
<1> QED
  BY <1>1, InitPromise, AlwaysIndInv, PTL DEF Spec, Promise!Safe
=============================================================================
