---------------------------- MODULE MCLockOrder ----------------------------
(* LockOrder for TLC: interchangeable transactions. *)
EXTENDS LockOrder, TLC

Symmetry == Permutations(Txns)

=============================================================================
