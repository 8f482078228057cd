SPECIFICATION Spec
CONSTANTS
  Plans = {l1, l2}
  Steps = {s1, s2}
  Issues = {i1}
  Processes = {p1, p2}
  Movers = {p1}
  Root = root
  NoPlan = noPlan
  NoIssue = noIssue
SYMMETRY RowSymmetry
INVARIANTS
  TypeOK
  TreeWhole
  FamiliesStayInTheirPlan
  ReopenedMeansUnchecked
PROPERTIES
  IssuesDriveActivePlans
