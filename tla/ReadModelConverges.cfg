SPECIFICATION FairSpec
CONSTANTS
  Issues = {i1}
  Pages = {}
  Comments = {}
  Labels = {}
  Values = {v1}
  Writers = {"api", "cli"}
  TrashDays = 0
  MaxSeq = 2
  MaxTime = 1
  Limit = 1
  Realtime = TRUE
  Callers = FALSE
  Faults = {"request", "close", "lag", "crash"}
INVARIANTS
  QuietTabIsCurrent
PROPERTIES
  Converges
