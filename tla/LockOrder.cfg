CONSTANTS
  Txns = {t1, t2, t3}
  Ops = {
    "write", "role", "remove", "revoke", "replace", "accept", "confirmInvite",
    "setup", "start", "bind", "sync", "event", "repos", "evidence", "image",
    "unowned", "issueLink", "logout", "authorize", "claimLink", "claimSetup",
    "linkProfile", "unlinkProfile", "approve", "collect", "rotateToken", "deleteSetup",
    "deleteToken"}
SPECIFICATION Spec
SYMMETRY Symmetry
INVARIANTS
  TypeOK
  NoDeadlock
