------------------------------- MODULE MCCli -------------------------------
(* Two commands at the same time on a machine that two people share.       *)
EXTENDS Cli, TLC

Symmetry == Permutations(Users) \cup Permutations(Processes)

=============================================================================
