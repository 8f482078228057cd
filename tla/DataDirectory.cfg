SPECIFICATION Spec
CONSTANTS
  Projects = {p1}
  Contents = {c1}
  Files = {f1, f2}
  Callers = {u1, u2}
  NoProject = none
  MaxRows = 2
  MaxArchives = 2
  PowerCuts = TRUE
SYMMETRY DataSymmetry
INVARIANTS
  TypeOK
  DumpIsWhole
  NothingLost
PROPERTIES
  SweepSparesLinked
  ShelfKept
