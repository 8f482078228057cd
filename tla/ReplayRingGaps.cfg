SPECIFICATION Spec
CONSTANTS
  Projects = {p1}
  RingCapacity = 2
  RingMaxAge = 2
  MaxSeq = 3
  MaxPublished = 3
  MaxTime = 3
INVARIANT ReplayHasNoGaps
