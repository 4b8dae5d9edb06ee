\* Four identifiers, capacity 3: eviction, hidden entries and the panic happen.
CONSTANTS
  Ids = {i1, i2, i3, i4}
  Clients = {c1, c2}
  s1 = s1
  s2 = s2
  info = info
  error = error
  Upper = Upper
  lower = lower
  Sources <- MCSources
  Levels <- MCLevels
  Keywords <- MCKeywords
  Norm <- MCNorm
  Profiles <- MCProfiles
  MaxEntries = 3
  Retention = 1
  MaxBatch = 2
  MaxTime = 2
SPECIFICATION Spec
SYMMETRY Symmetry
INVARIANTS
  TypeOK
  Capacity
  TimeIndexSound
  TimeIndexSorted
  SourceIndexSound
  LevelAndKeywordIndexExact
PROPERTIES
  ImplementsBoundedLog
  HiddenOnlyGrow
  OtherSourcesSurvive
