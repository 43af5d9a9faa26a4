CONSTANTS
  Projects = {p1}
  Sprints = {s1, s2}
  Milestones = {m1, m2, m3}
  Issues = {i1, i2}
  Names = {n1, n2}
  Dates = {1}
  Unfinished = {"todo"}
  Finished = {"done"}
  None = None
  Parents = {None, i1, i2}
  MilestoneStatuses = {"planned"}
SPECIFICATION Spec
SYMMETRY Symmetry
INVARIANTS
  TypeOK
  OneLevelDeep
PROPERTIES
  SnapshotFrozen
