\* One event, resolved and then acknowledged.
CONSTANTS
  Ids = {e1}
  Evaluators = {w1}
  Rules = {r1}
  Sources = {s1}
  EnableAutoResolve = TRUE
  AutoResolveAfter = 1
  DefaultAfter = 2
  Retention = 1
  MaxTime = 2
SPECIFICATION FairSpec
INVARIANT ResolvedAtMeansResolved
