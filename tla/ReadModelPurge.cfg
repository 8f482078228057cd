SPECIFICATION Spec
CONSTANTS
  Issues = {i1}
  Pages = {g1}
  Comments = {}
  Labels = {}
  Values = {v1}
  Writers = {"cli"}
  TrashDays = 1
  MaxSeq = 3
  MaxTime = 3
  Limit = 1
  Realtime = FALSE
  Callers = FALSE
  Faults = {}
INVARIANTS
  DeletionsReachTheReplica
