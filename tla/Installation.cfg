CONSTANTS
  Workspaces = {w1,w2}
  Installations = {i1}
  Repos = {x1}
  Workers = {t1,t2}
  Readers = {r1}
  Setups = {g1}
  None = None
  MaxMoves = 3
SPECIFICATION Spec
SYMMETRY Symmetry
CHECK_DEADLOCK FALSE
INVARIANTS
  TypeOK
  SyncNeverForgotten
  SuspensionMirrored
  ListingSettled
  EvidenceUndisturbed
