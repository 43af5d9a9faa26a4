---------------------------- MODULE Organisation ----------------------------
(***************************************************************************)
(* What an organisation promises about who belongs to it: somebody founds  *)
(* it and is its first admin; people join, change role and leave one at a  *)
(* time; and while it exists it has an admin.  Nothing here mentions       *)
(* requests, locks, invitations or sign-in links: Access implements this.  *)
(***************************************************************************)

CONSTANTS
  Users,   \* people, by mailbox address
  Roles,   \* membership roles, "admin" among them
  None     \* not a member

VARIABLES
  org,     \* "absent", then "open", then "deleted"
  role     \* role[u]: the role of u, or None

vars == <<org, role>>

Nobody == [u \in Users |-> None]

Init == org = "absent" /\ role = Nobody

Found(u) ==
  /\ org = "absent"
  /\ org' = "open"
  /\ role' = [role EXCEPT ![u] = "admin"]

\* One person joins, leaves or changes role, and an admin remains.
Change(u, r) ==
  /\ org = "open"
  /\ role' = [role EXCEPT ![u] = r]
  /\ \E v \in Users : role'[v] = "admin"
  /\ UNCHANGED org

Dissolve ==
  /\ org = "open"
  /\ org' = "deleted"
  /\ role' = Nobody

Next ==
  \/ \E u \in Users : Found(u) \/ \E r \in Roles \cup {None} : Change(u, r)
  \/ Dissolve

Spec == Init /\ [][Next]_vars

=============================================================================
