\* Two events, an auto-resolve age of 1 and a retention of 1: events are old
\* enough to be resolved at time 2 and to be cleaned up at time 2 or 3.
CONSTANTS
  Ids = {e1, e2}
  Evaluators = {w1}
  Rules = {r1, r2}
  Sources = {s1}
  EnableAutoResolve = TRUE
  AutoResolveAfter = 1
  DefaultAfter = 2
  Retention = 1
  MaxTime = 3
SPECIFICATION FairSpec
INVARIANTS
  TypeOK
  ResolvedInOrder
PROPERTIES
  ResolutionMovesForward
  CleanupSparesUnresolved
  OverdueGetResolved
