SPECIFICATION Spec
CONSTANTS
  Plans = {l1}
  Steps = {s1, s2}
  Issues = {}
  Processes = {p1, p2}
  Movers = {p1, p2}
  Root = root
  NoPlan = noPlan
  NoIssue = noIssue
INVARIANT TreeWhole
