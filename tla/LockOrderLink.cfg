CONSTANTS
  Txns = {t1, t2}
  Ops = {"remove", "link"}
SPECIFICATION Spec
SYMMETRY Symmetry
INVARIANT
  NoDeadlock
