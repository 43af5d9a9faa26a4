--------------------------- MODULE MCInstallation ---------------------------
(* Installation for TLC: interchangeable installations, people and workers. *)
EXTENDS Installation, TLC

Symmetry == Permutations(Workspaces) \cup Permutations(Installations)
  \cup Permutations(Repos) \cup Permutations(Workers) \cup Permutations(Readers)
  \cup Permutations(Setups)

=============================================================================
