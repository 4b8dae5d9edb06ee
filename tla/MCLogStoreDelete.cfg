\* Three entries of one source: the first number at which the range loop skips one.
CONSTANTS
  Ids = {i1, i2, i3}
  Clients = {c1, c2}
  s1 = s1
  s2 = s2
  info = info
  error = error
  Upper = Upper
  lower = lower
  Sources <- MCSources
  Levels <- MCLevels
  Keywords <- MCKeywords
  Norm <- MCNorm
  Profiles <- MCProfiles
  MaxEntries = 3
  Retention = 1
  MaxBatch = 1
  MaxTime = 2
SPECIFICATION Spec
SYMMETRY Symmetry
PROPERTY DeletesWholeSource
