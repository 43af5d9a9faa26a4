------------------------------ MODULE MCAccess ------------------------------
(* Access for TLC: people, rows and requests are interchangeable. *)
EXTENDS Access, TLC

Symmetry == Permutations(Users) \cup Permutations(Invites)
  \cup Permutations(Links) \cup Permutations(Requests)

=============================================================================
