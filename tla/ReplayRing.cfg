SPECIFICATION Spec
CONSTANTS
  Projects = {p1, p2}
  RingCapacity = 2
  RingMaxAge = 2
  MaxSeq = 3
  MaxPublished = 3
  MaxTime = 3
SYMMETRY ProjectSymmetry
INVARIANTS
  TypeOK
  RingIsSuffix
  ReplayIsCompleteInOrder
  DrainedRingIsComplete
  CurrentClientIsNotSentAway
