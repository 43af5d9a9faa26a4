----------------------------- MODULE MCPlanning -----------------------------
(* Planning for TLC: small tables of interchangeable rows. *)
EXTENDS Planning, TLC

Symmetry == Permutations(Projects) \cup Permutations(Sprints)
  \cup Permutations(Milestones) \cup Permutations(Issues) \cup Permutations(Names)

=============================================================================
