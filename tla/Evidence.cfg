CONSTANTS
  None = None
  k1 = k1
  k2 = k2
  Work = {w1}
  Issues = {k1, k2}
  Backlog = {k2}
  Titles = {"plain", "key"}
  Queues = {q1}
  Reconcilers = {r1}
  People = {u1}
  MaxClock = 3
  MaxEdits = 2
  Refs <- MCRefs
  Branch <- MCBranch
SPECIFICATION Spec
INVARIANTS TypeOK NothingMissed
PROPERTIES NewestWins NoStepOverrules
CHECK_DEADLOCK FALSE
