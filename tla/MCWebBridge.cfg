CONSTANTS
  Tabs = {t1, t2}
  Core = {g1}
  Requests = {r1}
  MaxChanges = 2
  MaxNews = 1
  None = None
SPECIFICATION Spec
INVARIANTS
  NewestSeen
  RequestSeen
  OnlyOneJam
SYMMETRY TabSymmetry
CHECK_DEADLOCK FALSE
