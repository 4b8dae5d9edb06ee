SPECIFICATION Spec
CONSTANTS
  Ids = {i1, i2}
  Requests = {q1, q2}
  Names = {"n1", "n2"}
  Sources = {"a", "b"}
  Windows = {0, 1, 3}
  Thresholds = {0, 1}
  MaxWindow = 2
  Drafts <- MCDrafts
  Patches <- MCPatches
INVARIANT ListsItsSource
SYMMETRY Symmetry
CHECK_DEADLOCK FALSE
