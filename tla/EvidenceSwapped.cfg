CONSTANTS
  None = None
  k1 = k1
  k2 = k2
  Work = {w1}
  Issues = {k1, k2}
  Backlog = {k1, k2}
  Titles = {"plain", "key"}
  Queues = {q1}
  Reconcilers = {}
  People = {u1}
  MaxClock = 0
  MaxEdits = 2
  Refs <- MCRefs
  Branch <- MCBranch
SPECIFICATION Spec
PROPERTIES PersonConfirmed
CHECK_DEADLOCK FALSE
