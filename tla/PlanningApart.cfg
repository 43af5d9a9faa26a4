CONSTANTS
  Projects = {p1, p2}
  Sprints = {s1, s2, s3}
  Milestones = {m1, m2}
  Issues = {i1}
  Names = {n1}
  Dates = {1, 2}
  Unfinished = {"todo"}
  Finished = {"done"}
  None = None
  Parents = {None}
  MilestoneStatuses = {"planned"}
SPECIFICATION Spec
SYMMETRY Symmetry
INVARIANTS
  OneActiveSprint
  ProjectAgrees
PROPERTIES
  ProjectsApart
  CarryUnfinished
