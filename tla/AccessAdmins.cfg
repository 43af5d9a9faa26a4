CONSTANTS
  Users = {u1, u2}
  Invites = {i1}
  Links = {l1, l2}
  Requests = {r1, r2}
  None = None
  Ops = {"setrole", "remove", "leave", "invite"}
  Grants = {"admin", "viewer"}
SPECIFICATION FairSpec
INVARIANTS
  TypeOK
  AdminRetained
  AuthorityHeld
PROPERTIES
  ImplementsOrganisation
  EveryRequestEnds
