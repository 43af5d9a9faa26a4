---------------------------- MODULE AccessProofs ----------------------------
(***************************************************************************)
(* The safety of access changes for every number of people, invitations,   *)
(* sign-in links and concurrent requests, and the implementation of        *)
(* Organisation.                                                           *)
(***************************************************************************)
EXTENDS Access, FiniteSetTheorems, TLAPS

-----------------------------------------------------------------------------
(* The inductive invariant: types, the shape of requests, the critical     *)
(* section, what a checked request may rely on, links, admins, invitations.*)

\* An operation has its arguments, and a confirmation the link it has read.
RequestFits ==
  \A r \in Requests : request[r] # Idle =>
    LET m == request[r]
    IN  /\ m.op \in {"setrole", "remove", "invite"} => m.user \in Users
        /\ m.op \in {"setrole", "invite"} => m.role \in Roles
        /\ m.op \in {"resend", "revoke", "accept", "signin"} => m.invite \in Invites
        /\ m.invite # None => m.op \in {"resend", "revoke", "accept", "signin", "confirm"}
        /\ m.op = "confirm" =>
             /\ m.link \in Links /\ link[m.link].state # "unused"
             /\ m.invite = None => link[m.link].invite = None
             /\ m.invite # None => link[m.link].origin = m.invite

\* Only the lock's holder is between its lock and its commit.
Inside(r) == At(r, "locked") \/ At(r, "checked")
SectionInv ==
  \A r \in Requests : Inside(r) => lock = r /\ org = "open" /\ TakesLock(r)

OtherAdmin(u) == \E v \in Users : v # u /\ role[v] = "admin"

\* What Check established still holds at the commit, expiry apart.
CheckedInv ==
  \A r \in Requests : At(r, "checked") =>
    LET m == request[r]
    IN  /\ MayDo(m.op, role[m.actor])
        /\ m.op \in {"setrole", "remove"} => role[m.user] # None
        /\ m.op = "setrole" /\ m.role # "admin" => OtherAdmin(m.user)
        /\ m.op = "remove" => OtherAdmin(m.user)
        /\ m.op = "leave" => OtherAdmin(m.actor)
        /\ m.invite # None => Pending(m.invite)
        /\ m.op \in {"accept", "confirm"} => invite[m.invite].email = m.actor
        /\ m.op = "confirm" => link[m.link].state \in {"live", "lapsed"}

\* A link loses its invitation only with the organisation, and is consumed
\* then; a link that opened a session is consumed.
LinkInv ==
  \A l \in Links :
    /\ \/ link[l].invite = link[l].origin
       \/ link[l].invite = None /\ link[l].state = "consumed" /\ org = "deleted"
    /\ confirms[l] = 0 \/ (confirms[l] = 1 /\ link[l].state = "consumed")

IInv ==
  /\ TypeOK /\ RequestFits /\ SectionInv /\ CheckedInv
  /\ LinkInv /\ AdminRetained /\ OnePendingInvite

-----------------------------------------------------------------------------
(* Lemmas. *)

MessageRow ==
  [pc : {"received", "locked", "checked"},
   op : AdminOps \cup {"write", "leave", "accept", "confirm", "signin"},
   actor : Users, user : Users \cup {None}, role : Roles \cup {None},
   invite : Invites \cup {None}, link : Links \cup {None}]
LinkRow ==
  [state : {"live", "lapsed", "consumed"}, email : Users,
   invite : Invites \cup {None}, origin : Invites \cup {None}]
InviteRow ==
  [state : {"live", "lapsed", "accepted", "revoked", "deleted"}, email : Users, role : Roles]

\* Rows that are in use have the type of their table.
LEMMA RowTypes ==
  ASSUME TypeOK
  PROVE  /\ \A r \in Requests : request[r] # Idle => request[r] \in MessageRow
         /\ \A l \in Links : link[l].state # "unused" => link[l] \in LinkRow
         /\ \A i \in Invites : invite[i].state # "unused" => invite[i] \in InviteRow
<1>1. \A r \in Requests : request[r] # Idle => request[r] \in MessageRow
  BY DEF TypeOK, MessageRow
<1>2. \A l \in Links : link[l].state # "unused" => link[l] \in LinkRow
  BY DEF TypeOK, LinkRow, NoLink
<1>3. \A i \in Invites : invite[i].state # "unused" => invite[i] \in InviteRow
  BY DEF TypeOK, InviteRow, NoInvite
<1> QED BY <1>1, <1>2, <1>3

\* An admin may go if retainAdminTx finds more than one.
LEMMA AnotherAdmin ==
  ASSUME TypeOK, AdminRetained, org = "open", NEW u \in Users, RetainAdmin(u)
  PROVE  OtherAdmin(u)
<1>1. IsFiniteSet(Admins)
  BY FiniteAssumption, FS_Subset DEF Admins
<1>2. CASE role[u] # "admin"
  BY <1>2 DEF AdminRetained, Admins, OtherAdmin
<1>3. CASE role[u] = "admin"
  <2>1. Cardinality(Admins) > 1
    BY <1>3 DEF RetainAdmin
  <2>2. IsFiniteSet(Admins \ {u}) /\ Cardinality(Admins \ {u}) = Cardinality(Admins) - 1
    BY <1>1, <1>3, FS_RemoveElement DEF Admins
  <2>3. Admins \ {u} # {}
    BY <1>1, <2>1, <2>2, FS_EmptySet, FS_CardinalityType
  <2> QED BY <2>3 DEF Admins, OtherAdmin
<1> QED BY <1>2, <1>3

\* After a commit nobody is inside.
LEMMA CommitLeaves ==
  ASSUME IInv, NEW r \in Requests, NEW ops, Commit(r, ops)
  PROVE  /\ request' = [request EXCEPT ![r] = Idle]
         /\ lock' = None
         /\ request[r] \in MessageRow /\ request[r].op \in ops /\ At(r, "checked")
         /\ org = "open" /\ TakesLock(r)
         /\ \A q \in Requests : request'[q] # Idle =>
              /\ q # r /\ request[q] # Idle /\ request'[q] = request[q]
              /\ request'[q].pc = "received"
<1>1. At(r, "checked") /\ request[r].op \in ops /\ End(r)
  BY DEF Commit
<1>2. lock = r /\ org = "open" /\ TakesLock(r)
  BY <1>1 DEF IInv, SectionInv, Inside
<1>3. request' = [request EXCEPT ![r] = Idle] /\ lock' = None
  BY <1>1, <1>2 DEF End
<1>4. request[r] \in MessageRow
  BY <1>1, RowTypes DEF IInv, At
<1>5. ASSUME NEW q \in Requests, request'[q] # Idle
      PROVE  /\ q # r /\ request[q] # Idle /\ request'[q] = request[q]
             /\ request'[q].pc = "received"
  <2>1. q # r /\ request'[q] = request[q] /\ request[q] \in MessageRow
    BY <1>3, <1>5, RowTypes DEF IInv, TypeOK
  <2>2. ~Inside(q)
    BY <2>1, <1>2 DEF IInv, SectionInv
  <2> QED BY <2>1, <2>2, <1>5 DEF Inside, At, MessageRow
<1> QED BY <1>1, <1>2, <1>3, <1>4, <1>5

\* So the facts of the critical section need no argument there.
LEMMA CommitSection ==
  ASSUME IInv, NEW r \in Requests, NEW ops, Commit(r, ops)
  PROVE  SectionInv' /\ CheckedInv'
<1>1. \A q \in Requests : request'[q] # Idle => request'[q].pc = "received"
  BY CommitLeaves
<1> QED BY <1>1 DEF SectionInv, CheckedInv, Inside, At

\* The empty system.
LEMMA InitIInv == Init => IInv
<1> SUFFICES ASSUME Init PROVE IInv
  OBVIOUS
<1>1. TypeOK
  BY DEF Init, TypeOK, NoInvite, NoLink, Idle
<1>2. RequestFits /\ SectionInv /\ CheckedInv
  BY DEF Init, RequestFits, SectionInv, CheckedInv, Inside, At
<1>3. LinkInv /\ AdminRetained /\ OnePendingInvite
  BY DEF Init, LinkInv, AdminRetained, OnePendingInvite, Pending, NoInvite, NoLink
<1> QED BY <1>1, <1>2, <1>3 DEF IInv

-----------------------------------------------------------------------------
(* Steps that leave the rows alone. *)

\* The rows' own invariants.
LEMMA RowsStutter ==
  ASSUME IInv, UNCHANGED rows
  PROVE  LinkInv' /\ AdminRetained' /\ OnePendingInvite'
BY DEF IInv, rows, LinkInv, AdminRetained, OnePendingInvite, Pending, Admins

\* Types, given those of the requests and the lock.
LEMMA RowsType ==
  ASSUME IInv, UNCHANGED rows, NEW r \in Requests, NEW m \in MessageRow \cup {Idle},
         request' = [request EXCEPT ![r] = m], lock' \in Requests \cup {None}
  PROVE  TypeOK'
BY DEF IInv, rows, TypeOK, MessageRow

\* The middleware admits a request, which waits for the lock.
LEMMA AdmitIInv ==
  ASSUME IInv, NEW r \in Requests, NEW m \in MessageRow, m.pc = "received",
         request' = [request EXCEPT ![r] = m], UNCHANGED <<rows, lock>>,
         /\ m.op \in {"setrole", "remove", "invite"} => m.user \in Users
         /\ m.op \in {"setrole", "invite"} => m.role \in Roles
         /\ m.op \in {"resend", "revoke", "accept", "signin"} => m.invite \in Invites
         /\ m.invite # None => m.op \in {"resend", "revoke", "accept", "signin", "confirm"},
         m.op = "confirm" =>
           /\ m.link \in Links /\ link[m.link].state # "unused"
           /\ m.invite = None => link[m.link].invite = None
           /\ m.invite # None => link[m.link].origin = m.invite
  PROVE  IInv'
<1>1. TypeOK'
  BY RowsType DEF IInv, TypeOK
<1>2. \A q \in Requests : request'[q] = IF q = r THEN m ELSE request[q]
  BY DEF IInv, TypeOK
<1>3. RequestFits'
  BY <1>2 DEF IInv, RequestFits, rows
<1>4. SectionInv'
  BY <1>2 DEF IInv, SectionInv, Inside, At, TakesLock, rows
<1>5. CheckedInv'
  BY <1>2 DEF IInv, CheckedInv, At, OtherAdmin, Pending, rows
<1> QED BY <1>1, <1>3, <1>4, <1>5, RowsStutter DEF IInv

LEMMA ReceiveIInv ==
  ASSUME IInv, NEW r \in Requests, Receive(r)
  PROVE  IInv'
<1>1. PICK u \in session : \E m \in Messages(u) :
        m.op \in Ops /\ request' = [request EXCEPT ![r] = m]
  BY DEF Receive
<1>2. PICK m \in Messages(u) : m.op \in Ops /\ request' = [request EXCEPT ![r] = m]
  BY <1>1
<1>3. u \in Users /\ UNCHANGED <<rows, lock>>
  BY DEF IInv, TypeOK, Receive
<1>4. m \in MessageRow /\ m.pc = "received" /\ m.op \notin {"confirm", "signin"}
  BY <1>2, <1>3, InputsAssumption DEF Messages, Message, MessageRow, AdminOps
<1>5. /\ m.op \in {"setrole", "remove", "invite"} => m.user \in Users
      /\ m.op \in {"setrole", "invite"} => m.role \in Roles
      /\ m.op \in {"resend", "revoke", "accept", "signin"} => m.invite \in Invites
      /\ m.invite # None => m.op \in {"resend", "revoke", "accept", "signin", "confirm"}
  BY <1>2, <1>4, InputsAssumption DEF Messages, Message
<1> QED BY <1>2, <1>3, <1>4, <1>5, AdmitIInv

\* A link loses its invitation only when it is consumed.
LEMMA OpenLinkIInv ==
  ASSUME IInv, NEW r \in Requests, OpenLink(r)
  PROVE  IInv'
<1>1. PICK l \in Links :
        /\ link[l].state # "unused"
        /\ request' = [request EXCEPT ![r] =
             Message("confirm", link[l].email, None, None, link[l].invite, l)]
  BY DEF OpenLink
<1> DEFINE m == Message("confirm", link[l].email, None, None, link[l].invite, l)
<1>2. link[l] \in LinkRow
  BY <1>1, RowTypes DEF IInv
<1>3. m \in MessageRow /\ m.pc = "received" /\ m.op = "confirm" /\ m.link = l /\ m.invite = link[l].invite
  BY <1>2 DEF Message, MessageRow, LinkRow
<1>4. link[l].invite # None => link[l].origin = link[l].invite
  BY DEF IInv, LinkInv
<1>5. UNCHANGED <<rows, lock>>
  BY DEF OpenLink
<1> HIDE DEF m
<1> QED BY <1>1, <1>3, <1>4, <1>5, AdmitIInv DEF m

LEMMA PreviewInviteTokenIInv ==
  ASSUME IInv, NEW r \in Requests, PreviewInviteToken(r)
  PROVE  IInv'
<1>1. PICK i \in Invites :
        /\ invite[i].state = "live"
        /\ request' = [request EXCEPT ![r] =
             Message("signin", invite[i].email, None, None, i, None)]
  BY DEF PreviewInviteToken
<1> DEFINE m == Message("signin", invite[i].email, None, None, i, None)
<1>2. invite[i] \in InviteRow
  BY <1>1, RowTypes DEF IInv
<1>3. m \in MessageRow /\ m.pc = "received" /\ m.op = "signin" /\ m.invite \in Invites
  BY <1>2 DEF Message, MessageRow, InviteRow
<1>4. UNCHANGED <<rows, lock>>
  BY DEF PreviewInviteToken
<1> HIDE DEF m
<1> QED BY <1>1, <1>3, <1>4, AdmitIInv DEF m

\* A request that ends without a write.
LEMMA EndIInv ==
  ASSUME IInv, NEW r \in Requests, End(r), UNCHANGED rows
  PROVE  IInv'
<1>1. lock' \in Requests \cup {None} /\ request' = [request EXCEPT ![r] = Idle]
  BY DEF End, IInv, TypeOK
<1>2. TypeOK'
  BY <1>1, RowsType
<1>3. \A q \in Requests : request'[q] = IF q = r THEN Idle ELSE request[q]
  BY <1>1 DEF IInv, TypeOK
<1>4. RequestFits'
  BY <1>3 DEF IInv, RequestFits, rows
<1>5. SectionInv'
  BY <1>3 DEF IInv, SectionInv, Inside, At, TakesLock, rows, End
<1>6. CheckedInv'
  BY <1>3 DEF IInv, CheckedInv, At, OtherAdmin, Pending, rows
<1> QED BY <1>2, <1>4, <1>5, <1>6, RowsStutter DEF IInv

\* The lock is free, so nobody else is inside.
LEMMA LockWorkspaceIInv ==
  ASSUME IInv, NEW r \in Requests, LockWorkspace(r)
  PROVE  IInv'
<1>1. CASE End(r)
  BY <1>1, EndIInv DEF LockWorkspace
<1>2. CASE ~End(r)
  <2>1. /\ At(r, "received") /\ TakesLock(r) /\ lock = None /\ lock' = r /\ org = "open"
        /\ Goto(r, "locked") /\ UNCHANGED rows
    BY <1>2 DEF LockWorkspace
  <2>2. request[r] \in MessageRow
    BY <2>1, RowTypes DEF IInv, At
  <2> DEFINE m == [request[r] EXCEPT !.pc = "locked"]
  <2>3. m \in MessageRow /\ m.pc = "locked" /\ m # Idle
    BY <2>2 DEF MessageRow, Idle
  <2>4. request' = [request EXCEPT ![r] = m]
    BY <2>1 DEF Goto
  <2>5. \A q \in Requests : request'[q] = IF q = r THEN m ELSE request[q]
    BY <2>4 DEF IInv, TypeOK
  <2>6. /\ m.op = request[r].op /\ m.invite = request[r].invite /\ m.link = request[r].link
        /\ m.user = request[r].user /\ m.role = request[r].role /\ m.actor = request[r].actor
    BY <2>2 DEF MessageRow
  <2> HIDE DEF m
  <2>7. TypeOK'
    BY <2>1, <2>3, <2>4, RowsType
  <2>8. RequestFits'
    BY <2>1, <2>5, <2>6 DEF IInv, RequestFits, rows, At
  <2>9. \A q \in Requests : ~Inside(q)
    BY <2>1, NoneAssumption DEF IInv, SectionInv
  <2>10. SectionInv'
    BY <2>1, <2>3, <2>5, <2>6, <2>9 DEF SectionInv, Inside, At, TakesLock, rows
  <2>11. CheckedInv'
    BY <2>3, <2>5, <2>9 DEF CheckedInv, Inside, At
  <2> QED BY <2>1, <2>7, <2>8, <2>10, <2>11, RowsStutter DEF IInv
<1> QED BY <1>1, <1>2

\* What Check reads is what CheckedInv says.
LEMMA CheckIInv ==
  ASSUME IInv, NEW r \in Requests, Check(r)
  PROVE  IInv'
<1>1. CASE End(r)
  BY <1>1, EndIInv DEF Check
<1>2. CASE ~End(r)
  <2>1. /\ At(r, "locked") /\ Allowed(request[r])
        /\ Goto(r, "checked") /\ UNCHANGED lock /\ UNCHANGED rows
    BY <1>2 DEF Check
  <2>2. request[r] \in MessageRow /\ lock = r /\ org = "open" /\ TakesLock(r)
    BY <2>1, RowTypes DEF IInv, At, SectionInv, Inside
  <2> DEFINE m == [request[r] EXCEPT !.pc = "checked"]
  <2>3. m \in MessageRow /\ m.pc = "checked" /\ m # Idle
    BY <2>2 DEF MessageRow, Idle
  <2>4. request' = [request EXCEPT ![r] = m]
    BY <2>1 DEF Goto
  <2>5. \A q \in Requests : request'[q] = IF q = r THEN m ELSE request[q]
    BY <2>4 DEF IInv, TypeOK
  <2>6. /\ m.op = request[r].op /\ m.invite = request[r].invite /\ m.link = request[r].link
        /\ m.user = request[r].user /\ m.role = request[r].role /\ m.actor = request[r].actor
    BY <2>2 DEF MessageRow
  <2> HIDE DEF m
  <2>7. TypeOK'
    BY <2>1, <2>3, <2>4, RowsType DEF IInv, TypeOK
  <2>8. RequestFits'
    BY <2>1, <2>5, <2>6 DEF IInv, RequestFits, rows, At
  <2>9. SectionInv'
    BY <2>1, <2>2, <2>3, <2>5, <2>6 DEF IInv, SectionInv, Inside, At, TakesLock, rows
  <2>10. /\ MayDo(m.op, role[m.actor])
         /\ m.op \in {"setrole", "remove"} => role[m.user] # None
         /\ m.invite # None => Pending(m.invite)
         /\ m.op \in {"accept", "confirm"} => invite[m.invite].email = m.actor
         /\ m.op = "confirm" => link[m.link].state \in {"live", "lapsed"}
    BY <2>1, <2>2, <2>6 DEF Allowed, IInv, RequestFits, At, TakesLock, Pending
  <2>11. /\ m.op = "setrole" /\ m.role # "admin" => OtherAdmin(m.user)
         /\ m.op = "remove" => OtherAdmin(m.user)
         /\ m.op = "leave" => OtherAdmin(m.actor)
    BY <2>1, <2>2, <2>6, AnotherAdmin DEF Allowed, IInv, RequestFits, At, MessageRow
  <2>12. CheckedInv'
    BY <2>1, <2>5, <2>10, <2>11 DEF IInv, CheckedInv, At, OtherAdmin, Pending, rows
  <2> QED BY <2>1, <2>7, <2>8, <2>9, <2>12, RowsStutter DEF IInv
<1> QED BY <1>1, <1>2

-----------------------------------------------------------------------------
(* Commits.  Each proves what is left: types, the arguments of the others, *)
(* links, admins and invitations.                                          *)

\* Role changes: one member, and an admin remains.
LEMMA RoleCommit ==
  ASSUME IInv, NEW r \in Requests, NEW ops, Commit(r, ops),
         NEW u \in Users, NEW x \in Roles \cup {None},
         role' = [role EXCEPT ![u] = x], x = "admin" \/ OtherAdmin(u),
         UNCHANGED <<org, invite, link, session, confirms>>
  PROVE  IInv'
<1>1. TypeOK'
  BY CommitLeaves DEF IInv, TypeOK
<1>2. RequestFits'
  BY CommitLeaves DEF IInv, RequestFits
<1>3. LinkInv' /\ OnePendingInvite'
  BY DEF IInv, LinkInv, OnePendingInvite, Pending
<1>4. AdminRetained'
  BY DEF IInv, TypeOK, AdminRetained, Admins, OtherAdmin
<1> QED BY <1>1, <1>2, <1>3, <1>4, CommitSection DEF IInv

LEMMA WorkspaceWriteIInv ==
  ASSUME IInv, NEW r \in Requests, WorkspaceWrite(r)
  PROVE  IInv'
BY EndIInv DEF WorkspaceWrite, Commit

LEMMA UpdateWorkspaceMembershipRoleIInv ==
  ASSUME IInv, NEW r \in Requests, UpdateWorkspaceMembershipRole(r)
  PROVE  IInv'
<1>1. Commit(r, {"setrole"})
  BY DEF UpdateWorkspaceMembershipRole
<1>2. request[r].op = "setrole" /\ At(r, "checked")
  BY <1>1, CommitLeaves
<1>3. /\ request[r].user \in Users /\ request[r].role \in Roles
      /\ request[r].role = "admin" \/ OtherAdmin(request[r].user)
  BY <1>2 DEF IInv, RequestFits, CheckedInv, At
<1> QED BY <1>1, <1>3, RoleCommit DEF UpdateWorkspaceMembershipRole

LEMMA RemoveWorkspaceMembershipIInv ==
  ASSUME IInv, NEW r \in Requests, RemoveWorkspaceMembership(r)
  PROVE  IInv'
<1>1. Commit(r, {"remove"})
  BY DEF RemoveWorkspaceMembership
<1>2. request[r].op = "remove" /\ At(r, "checked")
  BY <1>1, CommitLeaves
<1>3. request[r].user \in Users /\ OtherAdmin(request[r].user)
  BY <1>2 DEF IInv, RequestFits, CheckedInv, At
<1> QED BY <1>1, <1>3, RoleCommit DEF RemoveWorkspaceMembership

LEMMA LeaveWorkspaceIInv ==
  ASSUME IInv, NEW r \in Requests, LeaveWorkspace(r)
  PROVE  IInv'
<1>1. Commit(r, {"leave"})
  BY DEF LeaveWorkspace
<1>2. request[r].op = "leave" /\ At(r, "checked") /\ request[r].actor \in Users
  BY <1>1, CommitLeaves DEF MessageRow
<1>3. OtherAdmin(request[r].actor)
  BY <1>2 DEF IInv, CheckedInv
<1> QED BY <1>1, <1>2, <1>3, RoleCommit DEF LeaveWorkspace

\* The trigger consumes every link before its invitation is cleared.
LEMMA DeleteWorkspaceIInv ==
  ASSUME IInv, NEW r \in Requests, DeleteWorkspace(r)
  PROVE  IInv'
<1>1. Commit(r, {"dissolve"})
  BY DEF DeleteWorkspace
<1>2. \A l \in Links : link'[l] = IF link[l].invite = None THEN link[l]
                                 ELSE [link[l] EXCEPT !.state = "consumed", !.invite = None]
  BY DEF DeleteWorkspace
<1>3. \A l \in Links : link[l].invite # None => link[l] \in LinkRow
  BY RowTypes DEF IInv, TypeOK, LinkRow, NoLink
<1>4. \A l \in Links : link[l].invite # None =>
        /\ link'[l] \in LinkRow /\ link'[l].state = "consumed" /\ link'[l].invite = None
        /\ link'[l].origin = link[l].origin
  <2> SUFFICES ASSUME NEW l \in Links, link[l].invite # None
      PROVE  /\ link'[l] \in LinkRow /\ link'[l].state = "consumed"
             /\ link'[l].invite = None /\ link'[l].origin = link[l].origin
    OBVIOUS
  <2> DEFINE old == link[l]
  <2>1. old \in LinkRow /\ link'[l] = [old EXCEPT !.state = "consumed", !.invite = None]
    BY <1>2, <1>3
  <2> HIDE DEF old
  <2> QED BY <2>1 DEF LinkRow, old
<1>5. link' \in [Links -> {NoLink} \cup LinkRow]
  <2>1. \A l \in Links : link'[l] \in {NoLink} \cup LinkRow
    BY <1>2, <1>4 DEF IInv, TypeOK, LinkRow
  <2> QED BY <2>1 DEF DeleteWorkspace
<1>6. \A i \in Invites :
        /\ invite'[i] \in {NoInvite} \cup InviteRow
        /\ invite'[i].state \notin {"live", "lapsed"}
  <2> SUFFICES ASSUME NEW i \in Invites
      PROVE  /\ invite'[i] \in {NoInvite} \cup InviteRow
             /\ invite'[i].state \notin {"live", "lapsed"}
    OBVIOUS
  <2>1. CASE InviteExists(i)
    <3>1. invite[i] \in InviteRow /\ invite'[i] = [invite[i] EXCEPT !.state = "deleted"]
      BY <2>1, RowTypes DEF IInv, DeleteWorkspace, InviteExists
    <3> QED BY <3>1 DEF InviteRow
  <2>2. CASE ~InviteExists(i)
    <3>1. invite'[i] = invite[i] /\ invite[i].state \in {"unused", "deleted"}
      BY <2>2 DEF DeleteWorkspace, InviteExists
    <3> QED BY <3>1 DEF IInv, TypeOK, InviteRow
  <2> QED BY <2>1, <2>2
<1>7. TypeOK'
  <2>1. invite' \in [Invites -> {NoInvite} \cup InviteRow]
    BY <1>6 DEF DeleteWorkspace
  <2>2. role' \in [Users -> Roles \cup {None}] /\ org' = "deleted"
        /\ UNCHANGED <<session, confirms>>
    BY DEF DeleteWorkspace
  <2> QED BY <2>1, <2>2, <1>1, <1>5, CommitLeaves DEF IInv, TypeOK, LinkRow, InviteRow
<1>8. RequestFits'
  <2>1. \A l \in Links : link[l].state # "unused" =>
          /\ link'[l].state # "unused" /\ link'[l].origin = link[l].origin
          /\ link[l].invite = None => link'[l].invite = None
    BY <1>2, <1>4
  <2> QED BY <2>1, <1>1, CommitLeaves DEF IInv, RequestFits
<1>9. LinkInv'
  <2>1. ASSUME NEW l \in Links, link[l].invite = None
        PROVE  link'[l] = link[l]
    BY <2>1, <1>2
  <2> QED BY <2>1, <1>4 DEF DeleteWorkspace, IInv, LinkInv
<1>10. AdminRetained' /\ OnePendingInvite'
  BY <1>6 DEF DeleteWorkspace, AdminRetained, OnePendingInvite, Pending
<1> QED BY <1>1, <1>7, <1>8, <1>9, <1>10, CommitSection DEF IInv

\* Consuming links only closes them.
LEMMA ConsumeLinksKeeps ==
  ASSUME IInv, NEW old \in SUBSET Invites, ConsumeLinks(old)
  PROVE  /\ link' \in [Links -> {NoLink} \cup LinkRow]
         /\ \A l \in Links :
              /\ link'[l].invite = link[l].invite /\ link'[l].origin = link[l].origin
              /\ link'[l].state = link[l].state \/ link'[l].state = "consumed"
              /\ link[l].state = "unused" <=> link'[l].state = "unused"
<1>1. \A l \in Links : link'[l] = IF link[l].invite \in old
                                  THEN [link[l] EXCEPT !.state = "consumed"] ELSE link[l]
  BY DEF ConsumeLinks
<1>2. \A l \in Links : link[l].invite \in old => link[l] \in LinkRow
  BY RowTypes, NoneAssumption DEF IInv, TypeOK, LinkRow, NoLink
<1>3. ASSUME NEW l \in Links
      PROVE  /\ link'[l] \in {NoLink} \cup LinkRow
             /\ link'[l].invite = link[l].invite /\ link'[l].origin = link[l].origin
             /\ link'[l].state = link[l].state \/ link'[l].state = "consumed"
             /\ link[l].state = "unused" <=> link'[l].state = "unused"
  <2>1. CASE link[l].invite \in old
    BY <2>1, <1>1, <1>2 DEF LinkRow
  <2>2. CASE link[l].invite \notin old
    BY <2>2, <1>1 DEF IInv, TypeOK, LinkRow
  <2> QED BY <2>1, <2>2
<1>4. link' \in [Links -> {NoLink} \cup LinkRow]
  BY <1>3 DEF ConsumeLinks
<1> QED BY <1>3, <1>4

\* Whatever is revoked, links and requests keep their parts of the invariant.
LEMMA RevokeCommit ==
  ASSUME IInv, NEW r \in Requests, NEW ops, Commit(r, ops),
         NEW old \in SUBSET Invites, ConsumeLinks(old),
         invite' \in [Invites -> {NoInvite} \cup InviteRow],
         UNCHANGED <<org, role, session, confirms>>
  PROVE  TypeOK' /\ RequestFits' /\ LinkInv' /\ AdminRetained'
<1>1. TypeOK'
  BY CommitLeaves, ConsumeLinksKeeps DEF IInv, TypeOK, LinkRow, InviteRow
<1>2. RequestFits'
  BY CommitLeaves, ConsumeLinksKeeps DEF IInv, RequestFits
<1>3. LinkInv'
  BY ConsumeLinksKeeps DEF IInv, LinkInv
<1>4. AdminRetained'
  BY DEF IInv, AdminRetained, Admins
<1> QED BY <1>1, <1>2, <1>3, <1>4

\* A new invitation replaces every pending one for its address.
LEMMA ReissueCommit ==
  ASSUME IInv, NEW r \in Requests, NEW ops, Commit(r, ops),
         NEW old \in SUBSET Invites, NEW email \in Users, NEW grant \in Roles,
         \A i \in old : Pending(i),
         \A i \in Invites : Pending(i) /\ invite[i].email = email => i \in old,
         Reissue(old, email, grant)
  PROVE  IInv'
<1>1. PICK i \in Invites :
        /\ invite[i].state = "unused"
        /\ invite' = [j \in Invites |->
             IF j = i THEN [state |-> "live", email |-> email, role |-> grant]
             ELSE IF j \in old THEN [invite[j] EXCEPT !.state = "revoked"]
             ELSE invite[j]]
  BY DEF Reissue
<1>2. ConsumeLinks(old) /\ UNCHANGED <<org, role, session, confirms>>
  BY DEF Reissue
<1>3. \A j \in old : invite[j] \in InviteRow
  BY RowTypes DEF IInv, Pending
<1>4. \A j \in Invites :
        /\ invite'[j] \in {NoInvite} \cup InviteRow
        /\ j # i /\ invite'[j].state \in {"live", "lapsed"} => j \notin old /\ invite'[j] = invite[j]
        /\ j = i => invite'[j].email = email
  BY <1>1, <1>3 DEF IInv, TypeOK, InviteRow
<1>5. invite' \in [Invites -> {NoInvite} \cup InviteRow]
  BY <1>1, <1>4
<1>6. OnePendingInvite'
  BY <1>4 DEF IInv, OnePendingInvite, Pending
<1> QED BY <1>2, <1>5, <1>6, RevokeCommit, CommitSection DEF IInv

LEMMA CreateInviteIInv ==
  ASSUME IInv, NEW r \in Requests, CreateInvite(r)
  PROVE  IInv'
<1>1. Commit(r, {"invite"})
  BY DEF CreateInvite
<1>2. request[r].op = "invite" /\ At(r, "checked")
  BY <1>1, CommitLeaves
<1>3. request[r].user \in Users /\ request[r].role \in Roles
  BY <1>2 DEF IInv, RequestFits, At
<1> QED BY <1>1, <1>3, ReissueCommit DEF CreateInvite

LEMMA ReplaceInviteIInv ==
  ASSUME IInv, NEW r \in Requests, ReplaceInvite(r)
  PROVE  IInv'
<1>1. Commit(r, {"resend"})
  BY DEF ReplaceInvite
<1>2. request[r].op = "resend" /\ At(r, "checked")
  BY <1>1, CommitLeaves
<1> DEFINE i == request[r].invite
<1>3. i \in Invites /\ Pending(i)
  BY <1>2, NoneAssumption DEF IInv, RequestFits, CheckedInv, At
<1>4. invite[i].email \in Users /\ invite[i].role \in Roles
  BY <1>3, RowTypes DEF IInv, Pending, InviteRow
<1>5. \A j \in Invites : Pending(j) /\ invite[j].email = invite[i].email => j \in {i}
  BY <1>3 DEF IInv, OnePendingInvite
<1>6. Reissue({i}, invite[i].email, invite[i].role)
  BY DEF ReplaceInvite
<1> HIDE DEF i
<1> QED BY <1>1, <1>3, <1>4, <1>5, <1>6, ReissueCommit

LEMMA RevokeInviteIInv ==
  ASSUME IInv, NEW r \in Requests, RevokeInvite(r)
  PROVE  IInv'
<1>1. Commit(r, {"revoke"})
  BY DEF RevokeInvite
<1>2. request[r].op = "revoke" /\ At(r, "checked")
  BY <1>1, CommitLeaves
<1> DEFINE i == request[r].invite
<1>3. i \in Invites /\ Pending(i)
  BY <1>2, NoneAssumption DEF IInv, RequestFits, CheckedInv, At
<1>4. invite' = [invite EXCEPT ![i].state = "revoked"] /\ ConsumeLinks({i})
  BY DEF RevokeInvite
<1>5. invite[i] \in InviteRow
  BY <1>3, RowTypes DEF IInv, Pending
<1> HIDE DEF i
<1>6. \A j \in Invites :
        /\ invite'[j] \in {NoInvite} \cup InviteRow
        /\ invite'[j].state \in {"live", "lapsed"} => invite'[j] = invite[j]
  BY <1>3, <1>4, <1>5 DEF IInv, TypeOK, InviteRow
<1>7. invite' \in [Invites -> {NoInvite} \cup InviteRow]
  BY <1>4, <1>6 DEF IInv, TypeOK
<1>8. OnePendingInvite'
  BY <1>6 DEF IInv, OnePendingInvite, Pending
<1>9. UNCHANGED <<org, role, session, confirms>>
  BY DEF RevokeInvite
<1> QED BY <1>1, <1>3, <1>4, <1>7, <1>8, <1>9, RevokeCommit, CommitSection DEF IInv

\* Accepting adds a member or changes nobody's role, and takes one
\* invitation away.
LEMMA AcceptKeeps ==
  ASSUME IInv, NEW i \in Invites, Pending(i), NEW u \in Users, AcceptInvite(i, u)
  PROVE  /\ invite' \in [Invites -> {NoInvite} \cup InviteRow]
         /\ role' \in [Users -> Roles \cup {None}]
         /\ Admins \subseteq {v \in Users : role'[v] = "admin"}
         /\ OnePendingInvite'
<1>1. invite[i] \in InviteRow /\ invite' = [invite EXCEPT ![i].state = "accepted"]
  BY RowTypes DEF IInv, Pending, AcceptInvite
<1>2. \A j \in Invites :
        /\ invite'[j] \in {NoInvite} \cup InviteRow
        /\ invite'[j].state \in {"live", "lapsed"} => invite'[j] = invite[j]
  BY <1>1 DEF IInv, TypeOK, InviteRow
<1>3. OnePendingInvite'
  BY <1>2 DEF IInv, OnePendingInvite, Pending
<1>4. role' = [role EXCEPT ![u] = IF role[u] = None THEN invite[i].role ELSE role[u]]
  BY DEF AcceptInvite
<1>5. role' \in [Users -> Roles \cup {None}]
  BY <1>1, <1>4 DEF IInv, TypeOK, InviteRow
<1>6. Admins \subseteq {v \in Users : role'[v] = "admin"}
  BY <1>4, NoneAssumption DEF IInv, TypeOK, Admins, Roles
<1>7. invite' \in [Invites -> {NoInvite} \cup InviteRow]
  BY <1>1, <1>2 DEF IInv, TypeOK
<1> QED BY <1>3, <1>5, <1>6, <1>7

LEMMA AcceptMyInviteIInv ==
  ASSUME IInv, NEW r \in Requests, AcceptMyInvite(r)
  PROVE  IInv'
<1>1. Commit(r, {"accept"}) /\ UNCHANGED <<org, link, session, confirms>>
  BY DEF AcceptMyInvite
<1>2. request[r].op = "accept" /\ At(r, "checked") /\ request[r].actor \in Users
  BY <1>1, CommitLeaves DEF MessageRow
<1>3. request[r].invite \in Invites /\ Pending(request[r].invite)
  BY <1>2, NoneAssumption DEF IInv, RequestFits, CheckedInv, At
<1>4. AcceptInvite(request[r].invite, request[r].actor)
  BY DEF AcceptMyInvite
<1>5. /\ invite' \in [Invites -> {NoInvite} \cup InviteRow]
      /\ role' \in [Users -> Roles \cup {None}]
      /\ Admins \subseteq {v \in Users : role'[v] = "admin"} /\ OnePendingInvite'
  BY <1>2, <1>3, <1>4, AcceptKeeps
<1>6. TypeOK'
  BY <1>1, <1>5, CommitLeaves DEF IInv, TypeOK, InviteRow
<1>7. RequestFits' /\ LinkInv'
  BY <1>1, CommitLeaves DEF IInv, RequestFits, LinkInv
<1>8. AdminRetained'
  BY <1>1, <1>5 DEF IInv, AdminRetained, Admins
<1> QED BY <1>1, <1>5, <1>6, <1>7, <1>8, CommitSection DEF IInv

\* The link a confirmation was checked on opens one session.
LEMMA ConfirmInvitationIInv ==
  ASSUME IInv, NEW r \in Requests, ConfirmInvitation(r)
  PROVE  IInv'
<1>1. Commit(r, {"confirm"}) /\ UNCHANGED org
  BY DEF ConfirmInvitation
<1>2. /\ request[r].op = "confirm" /\ At(r, "checked") /\ TakesLock(r)
      /\ request[r] \in MessageRow
  BY <1>1, CommitLeaves
<1> DEFINE l == request[r].link
<1> DEFINE i == request[r].invite
<1> DEFINE u == request[r].actor
<1>3. i \in Invites /\ Pending(i) /\ u \in Users
  BY <1>2 DEF IInv, CheckedInv, TakesLock, MessageRow
<1>4. l \in Links /\ link[l].state \in {"live", "lapsed"}
  BY <1>2 DEF IInv, RequestFits, CheckedInv, At
<1>5. link[l] \in LinkRow
  BY <1>4, RowTypes DEF IInv
<1>6. /\ link' = [link EXCEPT ![l].state = "consumed"]
      /\ session' = session \cup {link[l].email}
      /\ confirms' = [confirms EXCEPT ![l] = @ + 1]
      /\ AcceptInvite(i, u)
  BY DEF ConfirmInvitation, OpenSession
<1> HIDE DEF l, i, u
<1>7. \A k \in Links :
        /\ link'[k] \in {NoLink} \cup LinkRow
        /\ link'[k].invite = link[k].invite /\ link'[k].origin = link[k].origin
        /\ link'[k].state = IF k = l THEN "consumed" ELSE link[k].state
  BY <1>4, <1>5, <1>6 DEF IInv, TypeOK, LinkRow
<1>8. link' \in [Links -> {NoLink} \cup LinkRow]
  BY <1>6, <1>7 DEF IInv, TypeOK
<1>9. /\ invite' \in [Invites -> {NoInvite} \cup InviteRow]
      /\ role' \in [Users -> Roles \cup {None}]
      /\ Admins \subseteq {v \in Users : role'[v] = "admin"} /\ OnePendingInvite'
  BY <1>3, <1>6, AcceptKeeps
<1>10. session' \subseteq Users /\ confirms' \in [Links -> Nat]
  BY <1>4, <1>5, <1>6 DEF IInv, TypeOK, LinkRow
<1>11. TypeOK'
  BY <1>1, <1>8, <1>9, <1>10, CommitLeaves DEF IInv, TypeOK, InviteRow, LinkRow
<1>12. RequestFits'
  BY <1>1, <1>7, CommitLeaves DEF IInv, RequestFits
<1>13. LinkInv'
  BY <1>1, <1>4, <1>6, <1>7 DEF IInv, TypeOK, LinkInv
<1>14. AdminRetained'
  BY <1>1, <1>9 DEF IInv, AdminRetained, Admins
<1> QED BY <1>1, <1>9, <1>11, <1>12, <1>13, <1>14, CommitSection DEF IInv

-----------------------------------------------------------------------------
(* Steps that take no lock. *)

\* Nobody is inside an organisation that does not exist yet.
LEMMA CreateWorkspaceIInv ==
  ASSUME IInv, NEW u \in Users, CreateWorkspace(u)
  PROVE  IInv'
<1>1. \A r \in Requests : ~Inside(r)
  BY DEF IInv, SectionInv, CreateWorkspace
<1>2. TypeOK'
  BY DEF IInv, TypeOK, CreateWorkspace, Roles
<1>3. RequestFits'
  BY DEF IInv, RequestFits, CreateWorkspace
<1>4. SectionInv' /\ CheckedInv'
  BY <1>1 DEF SectionInv, CheckedInv, Inside, At, CreateWorkspace
<1>5. LinkInv' /\ OnePendingInvite'
  BY DEF IInv, LinkInv, OnePendingInvite, Pending, CreateWorkspace
<1>6. AdminRetained'
  BY DEF IInv, TypeOK, AdminRetained, Admins, CreateWorkspace
<1> QED BY <1>2, <1>3, <1>4, <1>5, <1>6 DEF IInv

\* A new link is none that a request has read.
LEMMA NewLinkKeeps ==
  ASSUME IInv, NEW l \in Links, link[l].state = "unused",
         NEW u \in Users, NEW i \in Invites \cup {None},
         link' = [link EXCEPT ![l] =
           [state |-> "live", email |-> u, invite |-> i, origin |-> i]]
  PROVE  /\ link' \in [Links -> {NoLink} \cup LinkRow]
         /\ \A k \in Links : link[k].state # "unused" => link'[k] = link[k]
         /\ \A k \in Links : k # l => link'[k] = link[k]
         /\ link'[l].invite = link'[l].origin
         /\ link'[l].state = "live"
BY DEF IInv, TypeOK, LinkRow

LEMMA IssueLoginTokenIInv ==
  ASSUME IInv, NEW u \in Users, IssueLoginToken(u)
  PROVE  IInv'
<1>1. PICK l \in Links :
        /\ link[l].state = "unused"
        /\ link' = [link EXCEPT ![l] =
             [state |-> "live", email |-> u, invite |-> None, origin |-> None]]
  BY DEF IssueLoginToken
<1>2. UNCHANGED <<org, role, invite, session, confirms, request, lock>>
  BY DEF IssueLoginToken
<1>3. TypeOK'
  BY <1>1, <1>2, NewLinkKeeps DEF IInv, TypeOK, LinkRow
<1>4. RequestFits'
  BY <1>1, <1>2, NewLinkKeeps DEF IInv, RequestFits
<1>5. SectionInv' /\ AdminRetained' /\ OnePendingInvite'
  BY <1>2 DEF IInv, SectionInv, Inside, At, TakesLock, AdminRetained, Admins,
     OnePendingInvite, Pending
<1>6. CheckedInv'
  BY <1>1, <1>2, NewLinkKeeps
  DEF IInv, RequestFits, CheckedInv, At, OtherAdmin, Pending
<1>7. LinkInv'
  BY <1>1, <1>2, NewLinkKeeps DEF IInv, LinkInv
<1> QED BY <1>3, <1>4, <1>5, <1>6, <1>7 DEF IInv

\* A request that never takes the lock ends; the others keep their facts if
\* the links they have read do.
LEMMA OutsideEnds ==
  ASSUME IInv, NEW r \in Requests, End(r), ~TakesLock(r), UNCHANGED <<org, role, invite>>,
         \A k \in Links : link[k].state # "unused" =>
           /\ link'[k].state # "unused" /\ link'[k].invite = link[k].invite
           /\ link'[k].origin = link[k].origin,
         \A k \in Links : link[k].origin # None /\ org = "open"
           /\ link[k].state \in {"live", "lapsed"} => link'[k].state = link[k].state
  PROVE  /\ lock' \in Requests \cup {None}
         /\ \A q \in Requests : request'[q] = IF q = r THEN Idle ELSE request[q]
         /\ RequestFits' /\ SectionInv' /\ CheckedInv' /\ AdminRetained' /\ OnePendingInvite'
<1>1. /\ lock' \in Requests \cup {None}
      /\ \A q \in Requests : request'[q] = IF q = r THEN Idle ELSE request[q]
  BY DEF End, IInv, TypeOK
<1>2. RequestFits'
  BY <1>1 DEF IInv, RequestFits
<1>3. SectionInv'
  BY <1>1 DEF IInv, SectionInv, Inside, At, TakesLock, End
<1>4. ASSUME NEW q \in Requests, At(q, "checked"), request[q].op = "confirm"
      PROVE  /\ request[q].link \in Links
             /\ link[request[q].link].origin # None /\ org = "open"
    BY <1>4, NoneAssumption DEF IInv, RequestFits, SectionInv, Inside, At, TakesLock
<1>5. CheckedInv'
  BY <1>1, <1>4 DEF IInv, CheckedInv, At, OtherAdmin, Pending
<1>6. AdminRetained' /\ OnePendingInvite'
  BY DEF IInv, AdminRetained, Admins, OnePendingInvite, Pending
<1> QED BY <1>1, <1>2, <1>3, <1>5, <1>6

LEMMA IssueInviteLinkIInv ==
  ASSUME IInv, NEW r \in Requests, IssueInviteLink(r)
  PROVE  IInv'
<1>1. /\ At(r, "received") /\ request[r].op = "signin" /\ End(r)
      /\ UNCHANGED <<org, role, invite, session, confirms>>
  BY DEF IssueInviteLink
<1>2. ~TakesLock(r)
  BY <1>1 DEF TakesLock
<1>3. CASE link' = link
  BY <1>1, <1>3, EndIInv DEF rows
<1>4. CASE link' # link
  <2>1. PICK l \in Links :
          /\ link[l].state = "unused"
          /\ link' = [link EXCEPT ![l] = [state |-> "live", email |-> request[r].actor,
               invite |-> request[r].invite, origin |-> request[r].invite]]
    BY <1>4 DEF IssueInviteLink
  <2>2. request[r].actor \in Users /\ request[r].invite \in Invites \cup {None}
    BY <1>1, RowTypes DEF IInv, At, MessageRow
  <2>3. /\ link' \in [Links -> {NoLink} \cup LinkRow]
        /\ \A k \in Links : link[k].state # "unused" => link'[k] = link[k]
        /\ \A k \in Links : k # l => link'[k] = link[k]
        /\ link'[l].invite = link'[l].origin /\ link'[l].state = "live"
    BY <2>1, <2>2, NewLinkKeeps
  <2>4. /\ lock' \in Requests \cup {None}
        /\ RequestFits' /\ SectionInv' /\ CheckedInv' /\ AdminRetained' /\ OnePendingInvite'
    BY <1>1, <1>2, <2>3, OutsideEnds
  <2>5. TypeOK'
    BY <1>1, <2>3, <2>4 DEF IInv, TypeOK, LinkRow, End
  <2>6. LinkInv'
    BY <1>1, <2>1, <2>3 DEF IInv, LinkInv
  <2> QED BY <2>4, <2>5, <2>6 DEF IInv
<1> QED BY <1>3, <1>4

\* A link that was read without an invitation belongs to none that is open.
LEMMA ConfirmLoginIInv ==
  ASSUME IInv, NEW r \in Requests, ConfirmLogin(r)
  PROVE  IInv'
<1>1. /\ At(r, "received") /\ request[r].op = "confirm" /\ request[r].invite = None
      /\ End(r) /\ UNCHANGED <<org, role, invite>>
  BY DEF ConfirmLogin
<1>2. ~TakesLock(r)
  BY <1>1 DEF TakesLock
<1>3. CASE UNCHANGED <<link, session, confirms>>
  BY <1>1, <1>3, EndIInv DEF rows
<1>4. CASE ~UNCHANGED <<link, session, confirms>>
  <2> DEFINE l == request[r].link
  <2>1. /\ link[l].state = "live"
        /\ link' = [link EXCEPT ![l].state = "consumed"]
        /\ session' = session \cup {link[l].email}
        /\ confirms' = [confirms EXCEPT ![l] = @ + 1]
    BY <1>4 DEF ConfirmLogin, OpenSession
  <2>2. l \in Links /\ link[l].invite = None
    BY <1>1 DEF IInv, RequestFits, At
  <2> HIDE DEF l
  <2>3. link[l] \in LinkRow
    BY <2>1, <2>2, RowTypes DEF IInv
  <2>4. link[l].origin = None
    BY <2>1, <2>2 DEF IInv, LinkInv
  <2>5. \A k \in Links :
          /\ link'[k] \in {NoLink} \cup LinkRow
          /\ link'[k].invite = link[k].invite /\ link'[k].origin = link[k].origin
          /\ link'[k].state = IF k = l THEN "consumed" ELSE link[k].state
    BY <2>1, <2>2, <2>3 DEF IInv, TypeOK, LinkRow
  <2>6. /\ lock' \in Requests \cup {None}
        /\ RequestFits' /\ SectionInv' /\ CheckedInv' /\ AdminRetained' /\ OnePendingInvite'
    BY <1>1, <1>2, <2>4, <2>5, OutsideEnds
  <2>7. link' \in [Links -> {NoLink} \cup LinkRow]
    BY <2>1, <2>5 DEF IInv, TypeOK
  <2>8. session' \subseteq Users /\ confirms' \in [Links -> Nat]
    BY <2>1, <2>2, <2>3 DEF IInv, TypeOK, LinkRow
  <2>9. TypeOK'
    BY <1>1, <2>6, <2>7, <2>8 DEF IInv, TypeOK, LinkRow, End
  <2>10. LinkInv'
    BY <1>1, <2>1, <2>2, <2>5 DEF IInv, TypeOK, LinkInv
  <2> QED BY <2>6, <2>9, <2>10 DEF IInv
<1> QED BY <1>3, <1>4

LEMMA EndSessionIInv ==
  ASSUME IInv, NEW u \in Users, EndSession(u)
  PROVE  IInv'
<1>1. TypeOK' /\ RequestFits'
  BY DEF IInv, TypeOK, RequestFits, EndSession
<1>2. SectionInv' /\ CheckedInv'
  BY DEF IInv, SectionInv, CheckedInv, Inside, At, TakesLock, OtherAdmin, Pending, EndSession
<1>3. LinkInv' /\ AdminRetained' /\ OnePendingInvite'
  BY DEF IInv, LinkInv, AdminRetained, Admins, OnePendingInvite, Pending, EndSession
<1> QED BY <1>1, <1>2, <1>3 DEF IInv

\* A lapsed invitation is still pending.
LEMMA InviteExpiresIInv ==
  ASSUME IInv, NEW i \in Invites, InviteExpires(i)
  PROVE  IInv'
<1>1. invite[i] \in InviteRow /\ invite' = [invite EXCEPT ![i].state = "lapsed"]
  BY RowTypes DEF IInv, InviteExpires
<1>2. /\ invite[i].state = "live"
      /\ UNCHANGED <<org, role, link, session, confirms, request, lock>>
  BY DEF InviteExpires
<1>3. \A j \in Invites :
        /\ invite'[j] \in {NoInvite} \cup InviteRow
        /\ invite'[j].email = invite[j].email
        /\ invite'[j].state \in {"live", "lapsed"} <=> invite[j].state \in {"live", "lapsed"}
  BY <1>1, <1>2 DEF IInv, TypeOK, InviteRow
<1>4. invite' \in [Invites -> {NoInvite} \cup InviteRow]
  BY <1>1, <1>3 DEF IInv, TypeOK
<1>5. TypeOK' /\ RequestFits'
  BY <1>2, <1>4 DEF IInv, TypeOK, RequestFits, InviteRow
<1>6. SectionInv' /\ LinkInv' /\ AdminRetained'
  BY <1>2 DEF IInv, SectionInv, Inside, At, TakesLock, LinkInv, AdminRetained, Admins
<1>7. \A r \in Requests : At(r, "checked") /\ request[r].op \in {"accept", "confirm"} =>
        request[r].invite \in Invites
  BY RowTypes DEF IInv, RequestFits, SectionInv, Inside, TakesLock, At, MessageRow
<1>8. CheckedInv'
  BY <1>2, <1>3, <1>7, RowTypes DEF IInv, CheckedInv, At, OtherAdmin, Pending, MessageRow
<1>9. OnePendingInvite'
  BY <1>3 DEF IInv, OnePendingInvite, Pending
<1> QED BY <1>5, <1>6, <1>8, <1>9 DEF IInv

LEMMA LinkExpiresIInv ==
  ASSUME IInv, NEW l \in Links, LinkExpires(l)
  PROVE  IInv'
<1>1. link[l] \in LinkRow /\ link' = [link EXCEPT ![l].state = "lapsed"]
  BY RowTypes DEF IInv, LinkExpires
<1>2. /\ link[l].state = "live"
      /\ UNCHANGED <<org, role, invite, session, confirms, request, lock>>
  BY DEF LinkExpires
<1>3. \A k \in Links :
        /\ link'[k] \in {NoLink} \cup LinkRow
        /\ link'[k].invite = link[k].invite /\ link'[k].origin = link[k].origin
        /\ link'[k].state = IF k = l THEN "lapsed" ELSE link[k].state
  BY <1>1, <1>2 DEF IInv, TypeOK, LinkRow
<1>4. link' \in [Links -> {NoLink} \cup LinkRow]
  BY <1>1, <1>3 DEF IInv, TypeOK
<1>5. TypeOK' /\ RequestFits'
  BY <1>2, <1>3, <1>4 DEF IInv, TypeOK, RequestFits, LinkRow
<1>6. SectionInv' /\ AdminRetained' /\ OnePendingInvite'
  BY <1>2 DEF IInv, SectionInv, Inside, At, TakesLock, AdminRetained, Admins,
     OnePendingInvite, Pending
<1>7. CheckedInv'
  BY <1>2, <1>3 DEF IInv, RequestFits, CheckedInv, At, OtherAdmin, Pending
<1>8. LinkInv'
  BY <1>2, <1>3 DEF IInv, LinkInv
<1> QED BY <1>5, <1>6, <1>7, <1>8 DEF IInv

-----------------------------------------------------------------------------
(* The invariant. *)

\* Every step keeps it.
LEMMA NextIInv == IInv /\ [Next]_vars => IInv'
<1> SUFFICES ASSUME IInv, [Next]_vars PROVE IInv'
  OBVIOUS
<1>1. ASSUME NEW r \in Requests, Proceed(r) PROVE IInv'
  BY <1>1, LockWorkspaceIInv, CheckIInv, WorkspaceWriteIInv,
     UpdateWorkspaceMembershipRoleIInv, RemoveWorkspaceMembershipIInv,
     LeaveWorkspaceIInv, DeleteWorkspaceIInv, CreateInviteIInv, ReplaceInviteIInv,
     RevokeInviteIInv, AcceptMyInviteIInv, IssueInviteLinkIInv, ConfirmLoginIInv,
     ConfirmInvitationIInv DEF Proceed
<1>2. ASSUME NEW r \in Requests, Receive(r) \/ OpenLink(r) \/ PreviewInviteToken(r) PROVE IInv'
  BY <1>2, ReceiveIInv, OpenLinkIInv, PreviewInviteTokenIInv
<1>3. ASSUME NEW r \in Requests, Abort(r) PROVE IInv'
  BY <1>3, EndIInv DEF Abort
<1>4. ASSUME NEW u \in Users, CreateWorkspace(u) \/ IssueLoginToken(u) \/ EndSession(u)
      PROVE  IInv'
  BY <1>4, CreateWorkspaceIInv, IssueLoginTokenIInv, EndSessionIInv
<1>5. ASSUME NEW i \in Invites, InviteExpires(i) PROVE IInv'
  BY <1>5, InviteExpiresIInv
<1>6. ASSUME NEW l \in Links, LinkExpires(l) PROVE IInv'
  BY <1>6, LinkExpiresIInv
<1>7. CASE UNCHANGED vars
  <2>1. UNCHANGED rows /\ UNCHANGED <<request, lock>>
    BY <1>7 DEF vars, rows
  <2>2. TypeOK' /\ RequestFits'
    BY <2>1 DEF IInv, rows, TypeOK, RequestFits
  <2>3. SectionInv' /\ CheckedInv'
    BY <2>1 DEF IInv, rows, SectionInv, CheckedInv, Inside, At, TakesLock, OtherAdmin, Pending
  <2> QED BY <2>1, <2>2, <2>3, RowsStutter DEF IInv
<1> QED BY <1>1, <1>2, <1>3, <1>4, <1>5, <1>6, <1>7 DEF Next

\* The invariant holds in every reachable state.
THEOREM Invariance == Spec => []IInv
BY InitIInv, NextIInv, PTL DEF Spec

\* Type correctness, for every value of the constants.
THEOREM TypeCorrect == Spec => []TypeOK
<1>1. IInv => TypeOK
  BY DEF IInv
<1> QED BY <1>1, Invariance, PTL

\* retainAdminTx keeps an admin in every organisation, whatever overlaps.
THEOREM LastAdmin == Spec => []AdminRetained
<1>1. IInv => AdminRetained
  BY DEF IInv
<1> QED BY <1>1, Invariance, PTL

\* LockWorkspaceAdminTx and LockWorkspaceWriterTx: authority that was checked
\* under the lock is still there at the commit.
THEOREM Authority == Spec => []AuthorityHeld
<1>1. IInv => AuthorityHeld
  BY DEF IInv, CheckedInv, AuthorityHeld
<1> QED BY <1>1, Invariance, PTL

\* CreateInvite and ReplaceInvite leave at most one pending invitation per
\* address.
THEOREM UniqueInvite == Spec => []OnePendingInvite
<1>1. IInv => OnePendingInvite
  BY DEF IInv
<1> QED BY <1>1, Invariance, PTL

\* ConfirmLogin opens at most one session per link.
THEOREM LinksSingleUse == Spec => []SingleUse
<1>1. IInv => SingleUse
  BY DEF IInv, LinkInv, SingleUse
<1> QED BY <1>1, Invariance, PTL

-----------------------------------------------------------------------------
(* How a step changes memberships. *)

\* No membership changes and no pending invitation is accepted.
AdmitsNobody ==
  UNCHANGED <<org, role>> /\ \A i \in Invites : Pending(i) => invite'[i].state # "accepted"

\* A step accepts an invitation of the person it is for.
Accepts ==
  \E i \in Invites, u \in Users :
    /\ Pending(i) /\ invite[i] \in InviteRow /\ invite[i].email = u
    /\ org = "open" /\ UNCHANGED org /\ AcceptInvite(i, u)

\* A step changes or removes one membership, and an admin remains.
ChangesOne ==
  \E u \in Users, x \in Roles \cup {None} :
    /\ role[u] # None /\ (x = "admin" \/ OtherAdmin(u))
    /\ org = "open" /\ UNCHANGED <<org, invite>>
    /\ role' = [role EXCEPT ![u] = x]

\* Creating or replacing an invitation accepts none.
LEMMA ReissueAdmitsNobody ==
  ASSUME IInv, NEW old \in SUBSET Invites, NEW email, NEW grant, Reissue(old, email, grant)
  PROVE  AdmitsNobody
<1>1. PICK i \in Invites :
        /\ invite[i].state = "unused"
        /\ invite' = [j \in Invites |->
             IF j = i THEN [state |-> "live", email |-> email, role |-> grant]
             ELSE IF j \in old THEN [invite[j] EXCEPT !.state = "revoked"]
             ELSE invite[j]]
  BY DEF Reissue
<1>2. ASSUME NEW j \in Invites, Pending(j) PROVE invite'[j].state # "accepted"
  <2>1. invite[j] \in InviteRow /\ j # i
    BY <1>1, <1>2, RowTypes DEF IInv, Pending
  <2>2. CASE j \in old
    <3>1. invite'[j] = [invite[j] EXCEPT !.state = "revoked"]
      BY <1>1, <2>1, <2>2
    <3> QED BY <3>1, <2>1 DEF InviteRow
  <2>3. CASE j \notin old
    BY <1>1, <1>2, <2>1, <2>3 DEF Pending
  <2> QED BY <2>2, <2>3
<1> QED BY <1>2 DEF AdmitsNobody, Reissue

\* The steps of a request, by their effect on memberships.
LEMMA ProceedEffect ==
  ASSUME IInv, NEW r \in Requests, Proceed(r)
  PROVE  AdmitsNobody \/ Accepts \/ ChangesOne \/ DeleteWorkspace(r)
<1>1. CASE LockWorkspace(r) \/ Check(r) \/ WorkspaceWrite(r) \/ IssueInviteLink(r) \/ ConfirmLogin(r)
  BY <1>1 DEF LockWorkspace, Check, WorkspaceWrite, IssueInviteLink, ConfirmLogin, rows,
     AdmitsNobody, Pending
<1>2. CASE UpdateWorkspaceMembershipRole(r)
  <2>1. Commit(r, {"setrole"})
    BY <1>2 DEF UpdateWorkspaceMembershipRole
  <2>2. request[r].op = "setrole" /\ At(r, "checked") /\ org = "open"
    BY <2>1, CommitLeaves
  <2>3. /\ request[r].user \in Users /\ request[r].role \in Roles
        /\ role[request[r].user] # None
        /\ request[r].role = "admin" \/ OtherAdmin(request[r].user)
    BY <2>2 DEF IInv, RequestFits, CheckedInv, At
  <2> QED BY <1>2, <2>2, <2>3 DEF UpdateWorkspaceMembershipRole, ChangesOne
<1>3. CASE RemoveWorkspaceMembership(r)
  <2>1. Commit(r, {"remove"})
    BY <1>3 DEF RemoveWorkspaceMembership
  <2>2. request[r].op = "remove" /\ At(r, "checked") /\ org = "open"
    BY <2>1, CommitLeaves
  <2>3. /\ request[r].user \in Users /\ role[request[r].user] # None
        /\ OtherAdmin(request[r].user)
    BY <2>2 DEF IInv, RequestFits, CheckedInv, At
  <2> QED BY <1>3, <2>2, <2>3 DEF RemoveWorkspaceMembership, ChangesOne
<1>4. CASE LeaveWorkspace(r)
  <2>1. Commit(r, {"leave"})
    BY <1>4 DEF LeaveWorkspace
  <2>2. /\ request[r].op = "leave" /\ At(r, "checked") /\ org = "open"
        /\ request[r].actor \in Users
    BY <2>1, CommitLeaves DEF MessageRow
  <2>3. MayDo("leave", role[request[r].actor]) /\ OtherAdmin(request[r].actor)
    BY <2>2 DEF IInv, CheckedInv
  <2>4. role[request[r].actor] # None
    BY <2>3 DEF MayDo, AdminOps
  <2> QED BY <1>4, <2>2, <2>3, <2>4 DEF LeaveWorkspace, ChangesOne
<1>5. CASE CreateInvite(r)
  BY <1>5, ReissueAdmitsNobody DEF CreateInvite
<1>6. CASE ReplaceInvite(r)
  <2>1. Commit(r, {"resend"})
    BY <1>6 DEF ReplaceInvite
  <2>2. request[r].invite \in Invites
    BY <2>1, CommitLeaves DEF IInv, RequestFits, At
  <2> QED BY <1>6, <2>2, ReissueAdmitsNobody DEF ReplaceInvite
<1>7. CASE RevokeInvite(r)
  <2>1. Commit(r, {"revoke"})
    BY <1>7 DEF RevokeInvite
  <2>2. request[r].invite \in Invites /\ Pending(request[r].invite)
    BY <2>1, CommitLeaves, NoneAssumption DEF IInv, RequestFits, CheckedInv, At
  <2>3. invite[request[r].invite] \in InviteRow
    BY <2>2, RowTypes DEF IInv, Pending
  <2>4. invite'[request[r].invite].state = "revoked"
    BY <1>7, <2>2, <2>3 DEF RevokeInvite, IInv, TypeOK, InviteRow
  <2>5. \A i \in Invites : i # request[r].invite => invite'[i] = invite[i]
    BY <1>7, <2>2 DEF RevokeInvite, IInv, TypeOK
  <2> QED BY <1>7, <2>4, <2>5 DEF RevokeInvite, AdmitsNobody, Pending
<1>8. CASE AcceptMyInvite(r)
  <2>1. Commit(r, {"accept"})
    BY <1>8 DEF AcceptMyInvite
  <2>2. /\ request[r].op = "accept" /\ At(r, "checked") /\ org = "open"
        /\ request[r].actor \in Users
    BY <2>1, CommitLeaves DEF MessageRow
  <2>3. /\ request[r].invite \in Invites /\ Pending(request[r].invite)
        /\ invite[request[r].invite].email = request[r].actor
    BY <2>2, NoneAssumption DEF IInv, RequestFits, CheckedInv, At
  <2>4. invite[request[r].invite] \in InviteRow
    BY <2>3, RowTypes DEF IInv, Pending
  <2> QED BY <1>8, <2>2, <2>3, <2>4 DEF AcceptMyInvite, Accepts
<1>9. CASE ConfirmInvitation(r)
  <2>1. Commit(r, {"confirm"})
    BY <1>9 DEF ConfirmInvitation
  <2>2. /\ request[r].op = "confirm" /\ At(r, "checked") /\ org = "open" /\ TakesLock(r)
        /\ request[r] \in MessageRow
    BY <2>1, CommitLeaves
  <2>3. /\ request[r].invite \in Invites /\ Pending(request[r].invite)
        /\ invite[request[r].invite].email = request[r].actor
        /\ request[r].actor \in Users
    BY <2>2 DEF IInv, CheckedInv, TakesLock, MessageRow
  <2>4. invite[request[r].invite] \in InviteRow
    BY <2>3, RowTypes DEF IInv, Pending
  <2> QED BY <1>9, <2>2, <2>3, <2>4 DEF ConfirmInvitation, Accepts
<1> QED BY <1>1, <1>2, <1>3, <1>4, <1>5, <1>6, <1>7, <1>8, <1>9 DEF Proceed

\* Every step, by its effect on memberships.
LEMMA StepEffect ==
  ASSUME IInv, [Next]_vars
  PROVE  \/ AdmitsNobody \/ Accepts \/ ChangesOne
         \/ \E u \in Users : CreateWorkspace(u)
         \/ \E r \in Requests : DeleteWorkspace(r)
<1>1. CASE UNCHANGED vars
  BY <1>1 DEF vars, AdmitsNobody, Pending
<1>2. ASSUME NEW r \in Requests,
             Receive(r) \/ OpenLink(r) \/ PreviewInviteToken(r) \/ Abort(r)
      PROVE  AdmitsNobody
  BY <1>2 DEF Receive, OpenLink, PreviewInviteToken, Abort, rows, AdmitsNobody, Pending
<1>3. ASSUME NEW u \in Users, IssueLoginToken(u) \/ EndSession(u)
      PROVE  AdmitsNobody
  BY <1>3 DEF IssueLoginToken, EndSession, AdmitsNobody, Pending
<1>4. ASSUME NEW i \in Invites, InviteExpires(i)
      PROVE  AdmitsNobody
  <2>1. invite[i] \in InviteRow
    BY <1>4, RowTypes DEF IInv, InviteExpires
  <2>2. invite'[i].state = "lapsed" /\ \A j \in Invites : j # i => invite'[j] = invite[j]
    BY <1>4, <2>1 DEF InviteExpires, IInv, TypeOK, InviteRow
  <2> QED BY <1>4, <2>2 DEF InviteExpires, AdmitsNobody, Pending
<1>5. ASSUME NEW l \in Links, LinkExpires(l)
      PROVE  AdmitsNobody
  BY <1>5 DEF LinkExpires, AdmitsNobody, Pending
<1> QED BY <1>1, <1>2, <1>3, <1>4, <1>5, ProceedEffect DEF Next

\* AcceptInviteTx: only founders and invited people join, with the role of
\* their invitation, and members keep theirs.
THEOREM Admission == Spec => AdmissionByInvitation
<1> DEFINE Joins ==
      /\ \A u \in Users : role[u] = None /\ role'[u] # None =>
           \/ org = "absent" /\ role'[u] = "admin"
           \/ \E i \in Invites : /\ Pending(i) /\ invite'[i].state = "accepted"
                                 /\ invite[i].email = u /\ invite[i].role = role'[u]
      /\ \A i \in Invites : Pending(i) /\ invite'[i].state = "accepted" =>
           \A u \in Users : role[u] # None \/ invite[i].email # u => role'[u] = role[u]
<1>1. ASSUME IInv, [Next]_vars PROVE Joins
  <2>1. CASE AdmitsNobody
    BY <2>1 DEF AdmitsNobody
  <2>2. CASE ChangesOne
    BY <1>1, <2>2 DEF ChangesOne, IInv, TypeOK, Pending
  <2>3. CASE \E u \in Users : CreateWorkspace(u)
    BY <1>1, <2>3 DEF CreateWorkspace, IInv, TypeOK, Pending
  <2>4. CASE \E r \in Requests : DeleteWorkspace(r)
    <3>1. \A u \in Users : role'[u] = None
      BY <2>4 DEF DeleteWorkspace
    <3>2. ASSUME NEW i \in Invites, Pending(i) PROVE invite'[i].state # "accepted"
      <4>1. invite[i] \in InviteRow /\ invite'[i] = [invite[i] EXCEPT !.state = "deleted"]
        BY <1>1, <2>4, <3>2, RowTypes DEF IInv, DeleteWorkspace, Pending, InviteExists
      <4> QED BY <4>1 DEF InviteRow
    <3> QED BY <3>1, <3>2
  <2>5. CASE Accepts
    <3>1. PICK i \in Invites, u \in Users :
            /\ Pending(i) /\ invite[i] \in InviteRow /\ invite[i].email = u
            /\ AcceptInvite(i, u)
      BY <2>5 DEF Accepts
    <3>2. \A v \in Users : role'[v] = IF v = u /\ role[u] = None THEN invite[i].role ELSE role[v]
      BY <1>1, <3>1 DEF AcceptInvite, IInv, TypeOK
    <3>3. invite'[i].state = "accepted" /\ \A j \in Invites : j # i => invite'[j] = invite[j]
      BY <1>1, <3>1 DEF AcceptInvite, IInv, TypeOK, InviteRow
    <3> QED BY <3>1, <3>2, <3>3 DEF Pending
  <2> QED BY <1>1, <2>1, <2>2, <2>3, <2>4, <2>5, StepEffect
<1>2. IInv /\ [Next]_vars => [Joins]_vars
  BY <1>1
<1> QED BY <1>2, Invariance, PTL DEF Spec, AdmissionByInvitation

\* A link issued for an invitation signs in only where it accepts it.
THEOREM LinksStayBound == Spec => InviteLinksStayBound
<1> DEFINE Bound ==
      \A l \in Links : confirms'[l] # confirms[l] /\ link[l].origin # None =>
        Pending(link[l].origin) /\ invite'[link[l].origin].state = "accepted"
<1>1. ASSUME IInv, [Next]_vars PROVE Bound
  <2>1. CASE UNCHANGED confirms
    BY <2>1
  <2>2. ASSUME NEW r \in Requests, ConfirmLogin(r), ~UNCHANGED confirms PROVE Bound
    <3> DEFINE l == request[r].link
    <3>1. /\ At(r, "received") /\ request[r].op = "confirm" /\ request[r].invite = None
          /\ link[l].state = "live" /\ confirms' = [confirms EXCEPT ![l] = @ + 1]
      BY <2>2 DEF ConfirmLogin, OpenSession
    <3>2. l \in Links /\ link[l].invite = None
      BY <1>1, <3>1 DEF IInv, RequestFits, At
    <3> HIDE DEF l
    <3>3. link[l].origin = None
      BY <1>1, <3>1, <3>2 DEF IInv, LinkInv
    <3> QED BY <1>1, <3>1, <3>2, <3>3 DEF IInv, TypeOK
  <2>3. ASSUME NEW r \in Requests, ConfirmInvitation(r) PROVE Bound
    <3> DEFINE l == request[r].link
    <3> DEFINE i == request[r].invite
    <3>1. Commit(r, {"confirm"})
      BY <2>3 DEF ConfirmInvitation
    <3>2. /\ request[r].op = "confirm" /\ At(r, "checked") /\ TakesLock(r)
          /\ request[r] \in MessageRow
      BY <1>1, <3>1, CommitLeaves
    <3>3. i \in Invites /\ Pending(i) /\ l \in Links /\ link[l].origin = i
      BY <1>1, <3>2 DEF IInv, RequestFits, CheckedInv, TakesLock, At, MessageRow
    <3>4. /\ confirms' = [confirms EXCEPT ![l] = @ + 1]
          /\ invite' = [invite EXCEPT ![i].state = "accepted"]
      BY <2>3 DEF ConfirmInvitation, OpenSession, AcceptInvite
    <3> HIDE DEF l, i
    <3>5. invite[i] \in InviteRow
      BY <1>1, <3>3, RowTypes DEF IInv, Pending
    <3>6. invite'[i].state = "accepted"
      BY <1>1, <3>3, <3>4, <3>5 DEF IInv, TypeOK, InviteRow
    <3> QED BY <1>1, <3>3, <3>4, <3>6 DEF IInv, TypeOK
  <2>4. ASSUME NEW r \in Requests, Proceed(r), ~ConfirmLogin(r), ~ConfirmInvitation(r)
        PROVE  UNCHANGED confirms
    BY <2>4 DEF Proceed, LockWorkspace, Check, WorkspaceWrite, UpdateWorkspaceMembershipRole,
       RemoveWorkspaceMembership, LeaveWorkspace, DeleteWorkspace, CreateInvite, ReplaceInvite,
       Reissue, RevokeInvite, AcceptMyInvite, IssueInviteLink, rows
  <2>5. CASE Next /\ ~\E r \in Requests : Proceed(r)
    <3>1. UNCHANGED confirms
      BY <2>5 DEF Next, Receive, OpenLink, PreviewInviteToken, Abort, CreateWorkspace,
         IssueLoginToken, EndSession, InviteExpires, LinkExpires, rows
    <3> QED BY <3>1
  <2>6. CASE UNCHANGED vars
    BY <2>6 DEF vars
  <2> HIDE DEF Bound
  <2> QED BY <1>1, <2>1, <2>2, <2>3, <2>4, <2>5, <2>6
<1>2. IInv /\ [Next]_vars => [Bound]_vars
  BY <1>1
<1> QED BY <1>2, Invariance, PTL DEF Spec, InviteLinksStayBound

-----------------------------------------------------------------------------
(* Access implements Organisation. *)

\* Every step is one of Organisation's or invisible to it.
LEMMA StepRefines ==
  ASSUME IInv, [Next]_vars
  PROVE  [Abstract!Next]_(Abstract!vars)
<1>1. CASE AdmitsNobody
  BY <1>1 DEF AdmitsNobody, Abstract!vars
<1>2. CASE ChangesOne
  <2>1. PICK u \in Users, x \in Roles \cup {None} :
          /\ x = "admin" \/ OtherAdmin(u)
          /\ org = "open" /\ UNCHANGED org /\ role' = [role EXCEPT ![u] = x]
    BY <1>2 DEF ChangesOne
  <2>2. \E v \in Users : role'[v] = "admin"
    BY <2>1 DEF OtherAdmin, IInv, TypeOK
  <2>3. Abstract!Change(u, x)
    BY <2>1, <2>2 DEF Abstract!Change
  <2> QED BY <2>3 DEF Abstract!Next
<1>3. CASE Accepts
  <2>1. PICK i \in Invites, u \in Users :
          /\ Pending(i) /\ invite[i] \in InviteRow
          /\ org = "open" /\ UNCHANGED org /\ AcceptInvite(i, u)
    BY <1>3 DEF Accepts
  <2> DEFINE x == IF role[u] = None THEN invite[i].role ELSE role[u]
  <2>2. role' = [role EXCEPT ![u] = x] /\ x \in Roles \cup {None}
    BY <2>1 DEF AcceptInvite, IInv, TypeOK, InviteRow
  <2>3. Admins \subseteq {v \in Users : role'[v] = "admin"}
    BY <2>1, AcceptKeeps
  <2>4. \E v \in Users : role'[v] = "admin"
    BY <2>1, <2>3 DEF IInv, AdminRetained
  <2> HIDE DEF x
  <2>5. Abstract!Change(u, x)
    BY <2>1, <2>2, <2>4 DEF Abstract!Change
  <2> QED BY <2>2, <2>5 DEF Abstract!Next
<1>4. CASE \E u \in Users : CreateWorkspace(u)
  <2>1. PICK u \in Users : CreateWorkspace(u)
    BY <1>4
  <2>2. Abstract!Found(u)
    BY <2>1 DEF CreateWorkspace, Abstract!Found
  <2> QED BY <2>2 DEF Abstract!Next
<1>5. CASE \E r \in Requests : DeleteWorkspace(r)
  <2>1. PICK r \in Requests : DeleteWorkspace(r)
    BY <1>5
  <2>2. Commit(r, {"dissolve"})
    BY <2>1 DEF DeleteWorkspace
  <2>3. org = "open"
    BY <2>2, CommitLeaves
  <2>4. Abstract!Dissolve
    BY <2>1, <2>3 DEF DeleteWorkspace, Abstract!Dissolve, Abstract!Nobody
  <2> QED BY <2>4 DEF Abstract!Next
<1> QED BY <1>1, <1>2, <1>3, <1>4, <1>5, StepEffect

\* Memberships change as Organisation says, for every interleaving.
THEOREM Refinement == Spec => ImplementsOrganisation
<1>1. Init => Abstract!Init
  BY DEF Init, Abstract!Init, Abstract!Nobody
<1>2. IInv /\ [Next]_vars => [Abstract!Next]_(Abstract!vars)
  BY StepRefines
<1> QED BY <1>1, <1>2, Invariance, PTL DEF Spec, ImplementsOrganisation, Abstract!Spec

-----------------------------------------------------------------------------
(* Isolation. *)

\* Everything under the workspace row stays as it is, but invitations age.
WorkspaceStays ==
  /\ UNCHANGED <<org, role>>
  /\ \A i \in Invites :
       \/ invite'[i] = invite[i]
       \/ invite[i].state = "live" /\ invite'[i] = [invite[i] EXCEPT !.state = "lapsed"]

\* A transaction that holds the lock ends at its commit.
Committing(r) == At(r, "checked") /\ End(r)

\* lockWorkspaceTx: from its lock to its end, a transaction sees one state of
\* the organisation; what else happens is a founder's, who finds none yet, or
\* a commit of the holder itself.
Isolated ==
  [][/\ \A r \in Requests : Inside(r) /\ Inside(r)' => WorkspaceStays
     /\ WorkspaceStays \/ org = "absent" \/ \E r \in Requests : lock = r /\ Committing(r)]_vars

LEMMA CommitsOrStays ==
  ASSUME IInv, [Next]_vars
  PROVE  WorkspaceStays \/ org = "absent" \/ \E r \in Requests : Committing(r)
<1>1. ASSUME NEW r \in Requests, Receive(r) \/ OpenLink(r) \/ PreviewInviteToken(r) \/ Abort(r)
      PROVE  WorkspaceStays
  BY <1>1 DEF Receive, OpenLink, PreviewInviteToken, Abort, WorkspaceStays, rows
<1>2. ASSUME NEW r \in Requests, Proceed(r)
      PROVE  WorkspaceStays \/ Committing(r)
  <2>1. CASE LockWorkspace(r) \/ Check(r)
    BY <2>1 DEF LockWorkspace, Check, WorkspaceStays, rows
  <2>2. CASE IssueInviteLink(r) \/ ConfirmLogin(r)
    BY <2>2 DEF IssueInviteLink, ConfirmLogin, WorkspaceStays
  <2>3. CASE \/ WorkspaceWrite(r) \/ UpdateWorkspaceMembershipRole(r)
             \/ RemoveWorkspaceMembership(r) \/ LeaveWorkspace(r) \/ DeleteWorkspace(r)
             \/ CreateInvite(r) \/ ReplaceInvite(r) \/ RevokeInvite(r)
             \/ AcceptMyInvite(r) \/ ConfirmInvitation(r)
    BY <2>3 DEF WorkspaceWrite, UpdateWorkspaceMembershipRole, RemoveWorkspaceMembership,
       LeaveWorkspace, DeleteWorkspace, CreateInvite, ReplaceInvite, RevokeInvite,
       AcceptMyInvite, ConfirmInvitation, Commit, Committing
  <2> QED BY <1>2, <2>1, <2>2, <2>3 DEF Proceed
<1>3. ASSUME NEW u \in Users, CreateWorkspace(u) \/ IssueLoginToken(u) \/ EndSession(u)
      PROVE  WorkspaceStays \/ org = "absent"
  BY <1>3 DEF CreateWorkspace, IssueLoginToken, EndSession, WorkspaceStays
<1>4. ASSUME NEW i \in Invites, InviteExpires(i) PROVE WorkspaceStays
  BY <1>4 DEF InviteExpires, WorkspaceStays, IInv, TypeOK
<1>5. ASSUME NEW l \in Links, LinkExpires(l) PROVE WorkspaceStays
  BY <1>5 DEF LinkExpires, WorkspaceStays
<1>6. CASE UNCHANGED vars
  BY <1>6 DEF vars, WorkspaceStays
<1> QED BY <1>1, <1>2, <1>3, <1>4, <1>5, <1>6 DEF Next

\* FOR UPDATE on the workspace makes the transactions of an organisation
\* atomic, which is what lets Planning take each of them as one step.
THEOREM Isolation == Spec => Isolated
<1>1. ASSUME IInv, [Next]_vars
      PROVE  /\ \A r \in Requests : Inside(r) /\ Inside(r)' => WorkspaceStays
             /\ WorkspaceStays \/ org = "absent" \/ \E r \in Requests : lock = r /\ Committing(r)
  <2>1. ASSUME NEW q \in Requests, Committing(q)
        PROVE  lock = q /\ org = "open" /\ \A r \in Requests : Inside(r) => r = q
    BY <1>1, <2>1 DEF Committing, IInv, SectionInv, Inside
  <2>2. ASSUME NEW q \in Requests, Committing(q) PROVE ~Inside(q)'
    BY <1>1, <2>2 DEF Committing, End, IInv, TypeOK, Inside, At
  <2>3. \A r \in Requests : Inside(r) => org # "absent"
    BY <1>1 DEF IInv, SectionInv
  <2> QED BY <1>1, <2>1, <2>2, <2>3, CommitsOrStays
<1>2. IInv /\ [Next]_vars =>
        /\ \A r \in Requests : Inside(r) /\ Inside(r)' => WorkspaceStays
        /\ WorkspaceStays \/ org = "absent" \/ \E r \in Requests : lock = r /\ Committing(r)
  BY <1>1
<1> QED BY <1>2, Invariance, PTL DEF Spec, Isolated

\* lockWorkspaceTx: the row lock belongs to a transaction that is running, so
\* whoever waits for it waits for a request that will commit or roll back.
NoLockLeaked == lock # None => Inside(lock)

\* Every path out of a transaction gives its lock back.
THEOREM LockReleased == Spec => []NoLockLeaked
<1>1. Init => NoLockLeaked
  BY DEF Init, NoLockLeaked
<1>2. ASSUME IInv, NoLockLeaked, [Next]_vars PROVE NoLockLeaked'
  <2>1. ASSUME NEW r \in Requests, End(r) PROVE NoLockLeaked'
    BY <1>2, <2>1, NoneAssumption DEF End, NoLockLeaked, Inside, At, IInv, TypeOK
  <2>2. ASSUME NEW r \in Requests, request[r] = Idle, UNCHANGED lock,
               NEW m, request' = [request EXCEPT ![r] = m]
        PROVE  NoLockLeaked'
    BY <1>2, <2>2 DEF NoLockLeaked, Inside, At, IInv, TypeOK
  <2>3. ASSUME NEW r \in Requests, Receive(r) \/ OpenLink(r) \/ PreviewInviteToken(r)
        PROVE  NoLockLeaked'
    BY <2>2, <2>3 DEF Receive, OpenLink, PreviewInviteToken
  <2>4. ASSUME NEW r \in Requests, LockWorkspace(r) PROVE NoLockLeaked'
    <3>1. CASE End(r)
      BY <2>1, <3>1
    <3>2. CASE ~End(r)
      <4>1. At(r, "received") /\ Goto(r, "locked") /\ lock' = r
        BY <2>4, <3>2 DEF LockWorkspace
      <4>2. request[r] \in MessageRow
        BY <1>2, <4>1, RowTypes DEF At, IInv
      <4>3. request'[r].pc = "locked" /\ request'[r].op = request[r].op
        BY <1>2, <4>1, <4>2 DEF Goto, MessageRow, IInv, TypeOK
      <4> QED BY <4>1, <4>3 DEF NoLockLeaked, Inside, At, Idle
    <3> QED BY <3>1, <3>2
  <2>5. ASSUME NEW r \in Requests, Check(r) PROVE NoLockLeaked'
    <3>1. CASE End(r)
      BY <2>1, <3>1
    <3>2. CASE ~End(r)
      <4>1. At(r, "locked") /\ Goto(r, "checked") /\ UNCHANGED lock
        BY <2>5, <3>2 DEF Check
      <4>2. request[r] \in MessageRow
        BY <1>2, <4>1, RowTypes DEF At, IInv
      <4>3. /\ request'[r].pc = "checked"
            /\ \A q \in Requests : q # r => request'[q] = request[q]
        BY <1>2, <4>1, <4>2 DEF Goto, MessageRow, IInv, TypeOK
      <4>4. request'[r] # Idle
        BY <4>3 DEF Idle
      <4> QED BY <1>2, <4>1, <4>3, <4>4 DEF NoLockLeaked, Inside, At, IInv, TypeOK
    <3> QED BY <3>1, <3>2
  <2>6. ASSUME NEW r \in Requests, Proceed(r), ~LockWorkspace(r), ~Check(r) PROVE End(r)
    BY <2>6 DEF Proceed, WorkspaceWrite, UpdateWorkspaceMembershipRole,
       RemoveWorkspaceMembership, LeaveWorkspace, DeleteWorkspace, CreateInvite,
       ReplaceInvite, RevokeInvite, AcceptMyInvite, IssueInviteLink, ConfirmLogin,
       ConfirmInvitation, Commit
  <2>7. ASSUME UNCHANGED <<request, lock>> PROVE NoLockLeaked'
    BY <1>2, <2>7 DEF NoLockLeaked, Inside, At
  <2>8. ASSUME NEW u \in Users, CreateWorkspace(u) \/ IssueLoginToken(u) \/ EndSession(u)
        PROVE  UNCHANGED <<request, lock>>
    BY <2>8 DEF CreateWorkspace, IssueLoginToken, EndSession
  <2>9. ASSUME NEW i \in Invites, InviteExpires(i) PROVE UNCHANGED <<request, lock>>
    BY <2>9 DEF InviteExpires
  <2>10. ASSUME NEW l \in Links, LinkExpires(l) PROVE UNCHANGED <<request, lock>>
    BY <2>10 DEF LinkExpires
  <2>11. ASSUME NEW r \in Requests, Abort(r) PROVE End(r)
    BY <2>11 DEF Abort
  <2>12. CASE UNCHANGED vars
    BY <2>7, <2>12 DEF vars
  <2> QED BY <1>2, <2>1, <2>3, <2>4, <2>5, <2>6, <2>7, <2>8, <2>9, <2>10, <2>11, <2>12 DEF Next
<1>3. IInv /\ NoLockLeaked /\ [Next]_vars => NoLockLeaked'
  BY <1>2
<1> QED BY <1>1, <1>3, Invariance, PTL DEF Spec

=============================================================================
