SPECIFICATION StoreSpec
CONSTANTS
  Issues = {i1}
  Pages = {g1}
  Comments = {c1}
  Labels = {l1, l2}
  Values = {v1, v2}
  Writers = {"cli"}
  TrashDays = 1
  MaxSeq = 6
  MaxTime = 3
SYMMETRY IdSymmetry
INVARIANTS
  StoreTypeOK
  NoOrphanComment
  RestoreIsExact
PROPERTIES
  IsAStream
  CommentsAdvanceTheirIssue
