----------------------------- MODULE MCJobQueue -----------------------------
(* JobQueue for TLC: small sets of model values, symmetric for safety runs. *)
EXTENDS JobQueue, TLC

Symmetry == Permutations(Deliveries) \cup Permutations(Workers)

=============================================================================
