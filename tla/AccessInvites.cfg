CONSTANTS
  Users = {u1, u2}
  Invites = {i1, i2}
  Links = {l1, l2, l3}
  Requests = {r1, r2}
  None = None
  Ops = {"dissolve", "invite", "resend", "revoke", "accept", "write"}
  Grants = {"member"}
SPECIFICATION Spec
SYMMETRY Symmetry
INVARIANTS
  OnePendingInvite
  SingleUse
PROPERTIES
  AdmissionByInvitation
  InviteLinksStayBound
