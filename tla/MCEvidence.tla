----------------------------- MODULE MCEvidence -----------------------------
(* Evidence for TLC. *)
EXTENDS Evidence, TLC

CONSTANTS k1, k2

\* One title names both issues, of which k1 may not exist yet; the branch names
\* k1.
MCRefs == [title \in Titles |-> IF title = "key" THEN {k1, k2} ELSE {}]
MCBranch == [w \in Work |-> k1]

=============================================================================
