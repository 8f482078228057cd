SPECIFICATION Spec
CONSTANTS
  Issues = {i1}
  Pages = {g1}
  Comments = {}
  Labels = {l1}
  Values = {v1}
  Writers = {"cli"}
  TrashDays = 0
  MaxSeq = 3
  MaxTime = 1
  Limit = 1
  Realtime = FALSE
  Callers = TRUE
  Faults = {"request"}
SYMMETRY ValueSymmetry
INVARIANTS
  TypeOK
  CurrentBelowCursor
  PullReconciles
PROPERTIES
  FollowsTheStream
