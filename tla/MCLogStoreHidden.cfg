\* The fewest entries with which an eviction hides one that stays stored.
CONSTANTS
  Ids = {i1, i2, i3}
  Clients = {c1, c2}
  s1 = s1
  s2 = s2
  info = info
  error = error
  Upper = Upper
  lower = lower
  Sources <- MCSources
  Levels <- MCLevels
  Keywords <- MCKeywords
  Norm <- MCNorm
  Profiles <- MCProfiles
  MaxEntries = 2
  Retention = 1
  MaxBatch = 1
  MaxTime = 2
SPECIFICATION Spec
SYMMETRY Symmetry
INVARIANT TimeIndexComplete
