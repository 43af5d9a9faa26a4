------------------------------- MODULE Access -------------------------------
(***************************************************************************)
(* Who may do what in one organisation: memberships, invitations, sign-in  *)
(* links and the requests that change them.  A request is admitted by the  *)
(* middleware on what it reads then (RequireWorkspace, RequireRole), later *)
(* takes the workspace row lock, re-reads, writes and commits; every one   *)
(* of these is a step, and other requests run in between.  A request that  *)
(* dies rolls back and frees its lock.                                     *)
(*                                                                         *)
(* A person is identified with the mailbox address of the account, and     *)
(* has a session or none.  Names, slugs, the activity feed, mail delivery  *)
(* and the issuance rate limits (bounded here by Links) are left out.      *)
(***************************************************************************)
EXTENDS Naturals, FiniteSets

CONSTANTS
  Users,      \* people, by mailbox address
  Invites,    \* invite row ids; bounds the table
  Links,      \* login_token row ids; bounds the table
  Requests,   \* requests in progress at once, on any number of servers
  None,       \* SQL NULL, no lock, not a member
  Ops,        \* bound: the operations requests perform
  Grants      \* bound: the roles requests ask for

Roles == {"admin", "member", "viewer"}
AdminOps == {"rename", "setrole", "remove", "dissolve", "invite", "resend", "revoke"}

ASSUME NoneAssumption == None \notin Users \cup Invites \cup Links \cup Requests \cup Roles
ASSUME FiniteAssumption == IsFiniteSet(Users)
ASSUME InputsAssumption ==
  /\ Ops \subseteq AdminOps \cup {"write", "leave", "accept"}
  /\ Grants \subseteq Roles

VARIABLES
  org,       \* the workspace row: "absent", then "open", then "deleted"
  role,      \* role[u]: the membership of u, or None
  invite,    \* invite[i]: state, email and role
  link,      \* link[l]: state, email, invite_id; origin is history: the
             \* invitation the link was issued for, whatever became of it
  session,   \* people with a live session
  confirms,  \* history: confirms[l] sessions were opened by link l
  request,   \* request[r]: program counter, operation and arguments
  lock       \* the request that holds the workspace row lock, or None

vars == <<org, role, invite, link, session, confirms, request, lock>>
rows == <<org, role, invite, link, session, confirms>>

Idle == [pc |-> "idle"]
NoInvite == [state |-> "unused", email |-> None, role |-> None]
NoLink == [state |-> "unused", email |-> None, invite |-> None, origin |-> None]

Admins == {u \in Users : role[u] = "admin"}
Pending(i) == invite[i].state \in {"live", "lapsed"}
InviteExists(i) == invite[i].state \notin {"unused", "deleted"}

Init ==
  /\ org = "absent"
  /\ role = [u \in Users |-> None]
  /\ invite = [i \in Invites |-> NoInvite]
  /\ link = [l \in Links |-> NoLink]
  /\ session = {}
  /\ confirms = [l \in Links |-> 0]
  /\ request = [r \in Requests |-> Idle]
  /\ lock = None

(***************************************************************************)
(* Admission: what the middleware reads before the handler runs.           *)
(***************************************************************************)

\* LockWorkspaceAdminTx, LockWorkspaceWriterTx and RequireRole: the roles an
\* operation is open to.  Accepting an invitation needs no membership.
MayDo(op, r) ==
  CASE op \in AdminOps -> r = "admin"
    [] op = "write" -> r \in {"admin", "member"}
    [] op = "leave" -> r # None
    [] OTHER -> TRUE

Message(op, actor, user, grant, i, l) ==
  [pc |-> "received", op |-> op, actor |-> actor, user |-> user, role |-> grant,
   invite |-> i, link |-> l]

\* What a signed-in person can ask for.
Messages(u) ==
       {Message(op, u, None, None, None, None) : op \in {"rename", "dissolve", "write", "leave"}}
  \cup {Message(op, u, v, g, None, None) : op \in {"setrole", "invite"}, v \in Users, g \in Grants}
  \cup {Message("remove", u, v, None, None, None) : v \in Users}
  \cup {Message(op, u, None, None, i, None) : op \in {"resend", "revoke", "accept"}, i \in Invites}

\* Bound: a request that will insert a row is admitted while one is left for
\* it, so that the small tables never leave a transaction hanging.
InFlight(ops) == {r \in Requests : request[r] # Idle /\ request[r].op \in ops}
InviteRoom == Cardinality({i \in Invites : invite[i].state = "unused"})
                > Cardinality(InFlight({"invite", "resend"}))
LinkRoom == Cardinality({l \in Links : link[l].state = "unused"})
              > Cardinality(InFlight({"signin"}))

Receive(r) ==
  /\ request[r] = Idle /\ org = "open"
  /\ \E u \in session : \E m \in Messages(u) :
       /\ m.op \in Ops /\ MayDo(m.op, role[u])
       /\ m.invite # None => invite[m.invite].state # "unused"
       /\ m.op \in {"invite", "resend"} => InviteRoom
       /\ request' = [request EXCEPT ![r] = m]
  /\ UNCHANGED <<rows, lock>>

\* handleMagic, ConfirmLogin: the holder of the mailbox opens the link.  The
\* invitation it belongs to is read here, before any lock is taken.
OpenLink(r) ==
  /\ request[r] = Idle
  /\ \E l \in Links :
       /\ link[l].state # "unused"
       /\ request' = [request EXCEPT ![r] =
            Message("confirm", link[l].email, None, None, link[l].invite, l)]
  /\ UNCHANGED <<rows, lock>>

\* handleAcceptInvite without a session: the invitation is live when previewed.
PreviewInviteToken(r) ==
  /\ request[r] = Idle /\ LinkRoom
  /\ \E i \in Invites :
       /\ invite[i].state = "live"
       /\ request' = [request EXCEPT ![r] =
            Message("signin", invite[i].email, None, None, i, None)]
  /\ UNCHANGED <<rows, lock>>

(***************************************************************************)
(* The transaction: lock, check, commit.                                   *)
(***************************************************************************)

At(r, pc) == request[r] # Idle /\ request[r].pc = pc
TakesLock(r) == request[r].op # "signin" /\ (request[r].op = "confirm" => request[r].invite # None)

\* The response is sent, the transaction committed or rolled back.
End(r) ==
  /\ request' = [request EXCEPT ![r] = Idle]
  /\ lock' = IF lock = r THEN None ELSE lock

Goto(r, pc) == request' = [request EXCEPT ![r].pc = pc]

\* Mutant: SELECT id FROM workspace WHERE id=$1, without FOR UPDATE.
LockWorkspace_NoForUpdate(r) ==
  /\ At(r, "received") /\ TakesLock(r) /\ lock = None
  /\ \/ org = "open" /\ Goto(r, "locked") /\ UNCHANGED lock
     \/ org # "open" /\ End(r)
  /\ UNCHANGED rows

\* lockWorkspaceTx, and LockInviteWorkspaceTx for an invitation's workspace.
LockWorkspace(r) ==
  /\ At(r, "received") /\ TakesLock(r) /\ lock = None
  /\ LET found == org = "open" /\ (request[r].op \in {"accept", "confirm"}
                                     => InviteExists(request[r].invite))
     IN  \/ found /\ Goto(r, "locked") /\ lock' = r
         \/ ~found /\ End(r)
  /\ UNCHANGED rows

\* retainAdminTx, for a membership that stops being an admin's.
RetainAdmin(u) == role[u] = "admin" => Cardinality(Admins) > 1

\* Mutant: the role the middleware saw is trusted, as before the lock.
Allowed_TrustMiddleware(m) ==
  /\ m.op = "setrole" => role[m.user] # None /\ (m.role # "admin" => RetainAdmin(m.user))
  /\ m.op = "remove" => role[m.user] # None /\ RetainAdmin(m.user)
  /\ m.op = "leave" => RetainAdmin(m.actor)
  /\ m.op \in {"resend", "revoke"} => Pending(m.invite)
  /\ m.op \in {"accept", "confirm"} =>
       invite[m.invite].state = "live" /\ invite[m.invite].email = m.actor
  /\ m.op = "confirm" => link[m.link].state = "live"

\* Mutant: leaving does not check that an admin remains.
Allowed_AnyoneLeaves(m) ==
  /\ MayDo(m.op, role[m.actor])
  /\ m.op = "setrole" => role[m.user] # None /\ (m.role # "admin" => RetainAdmin(m.user))
  /\ m.op = "remove" => role[m.user] # None /\ RetainAdmin(m.user)
  /\ m.op \in {"resend", "revoke"} => Pending(m.invite)
  /\ m.op \in {"accept", "confirm"} =>
       invite[m.invite].state = "live" /\ invite[m.invite].email = m.actor
  /\ m.op = "confirm" => link[m.link].state = "live"

\* Mutant: an invitation can be accepted by whoever holds its link.
Allowed_AnyEmail(m) ==
  /\ MayDo(m.op, role[m.actor])
  /\ m.op = "setrole" => role[m.user] # None /\ (m.role # "admin" => RetainAdmin(m.user))
  /\ m.op = "remove" => role[m.user] # None /\ RetainAdmin(m.user)
  /\ m.op = "leave" => RetainAdmin(m.actor)
  /\ m.op \in {"resend", "revoke"} => Pending(m.invite)
  /\ m.op \in {"accept", "confirm"} => invite[m.invite].state = "live"
  /\ m.op = "confirm" => link[m.link].state = "live"

\* What each transaction reads under the lock before it writes.
Allowed(m) ==
  /\ MayDo(m.op, role[m.actor])
  /\ m.op = "setrole" => role[m.user] # None /\ (m.role # "admin" => RetainAdmin(m.user))
  /\ m.op = "remove" => role[m.user] # None /\ RetainAdmin(m.user)
  /\ m.op = "leave" => RetainAdmin(m.actor)
  /\ m.op \in {"resend", "revoke"} => Pending(m.invite)
  /\ m.op \in {"accept", "confirm"} =>
       invite[m.invite].state = "live" /\ invite[m.invite].email = m.actor
  /\ m.op = "confirm" => link[m.link].state = "live"

\* Mutant: a refused transaction is neither committed nor rolled back.
Check_Leak(r) ==
  /\ At(r, "locked")
  /\ \/ Allowed(request[r]) /\ Goto(r, "checked") /\ UNCHANGED lock
     \/ ~Allowed(request[r]) /\ request' = [request EXCEPT ![r] = Idle] /\ UNCHANGED lock
  /\ UNCHANGED rows

Check(r) ==
  /\ At(r, "locked")
  /\ \/ Allowed(request[r]) /\ Goto(r, "checked") /\ UNCHANGED lock
     \/ ~Allowed(request[r]) /\ End(r)
  /\ UNCHANGED rows

\* The server dies, the client goes away or the database fails: rollback.
Abort(r) ==
  /\ request[r] # Idle
  /\ End(r)
  /\ UNCHANGED rows

Commit(r, ops) == At(r, "checked") /\ request[r].op \in ops /\ End(r)

-----------------------------------------------------------------------------
(* What each transaction writes. *)

CreateWorkspace(u) ==
  /\ u \in session /\ org = "absent"
  /\ org' = "open"
  /\ role' = [role EXCEPT ![u] = "admin"]
  /\ UNCHANGED <<invite, link, session, confirms, request, lock>>

\* UpdateWorkspaceName, and every write behind LockWorkspaceWriterTx
\* (projects, sprints, issues, comments...): nothing of this module changes.
WorkspaceWrite(r) ==
  /\ Commit(r, {"rename", "write"})
  /\ UNCHANGED rows

\* Mutant: the arguments are swapped, the actor is stored as the role.
UpdateWorkspaceMembershipRole_Unset(r) ==
  /\ Commit(r, {"setrole"})
  /\ role' = [role EXCEPT ![request[r].user] = request[r].actor]
  /\ UNCHANGED <<org, invite, link, session, confirms>>

UpdateWorkspaceMembershipRole(r) ==
  /\ Commit(r, {"setrole"})
  /\ role' = [role EXCEPT ![request[r].user] = request[r].role]
  /\ UNCHANGED <<org, invite, link, session, confirms>>

RemoveWorkspaceMembership(r) ==
  /\ Commit(r, {"remove"})
  /\ role' = [role EXCEPT ![request[r].user] = None]
  /\ UNCHANGED <<org, invite, link, session, confirms>>

LeaveWorkspace(r) ==
  /\ Commit(r, {"leave"})
  /\ role' = [role EXCEPT ![request[r].actor] = None]
  /\ UNCHANGED <<org, invite, link, session, confirms>>

\* Consumes the sign-in links of a set of invitations, unless already consumed.
ConsumeLinks(invites) ==
  link' = [l \in Links |-> IF link[l].invite \in invites
                             THEN [link[l] EXCEPT !.state = "consumed"] ELSE link[l]]

\* Mutant: without the trigger of migration 0006, ON DELETE SET NULL alone.
DeleteWorkspace_NoTrigger(r) ==
  /\ Commit(r, {"dissolve"})
  /\ org' = "deleted"
  /\ role' = [u \in Users |-> None]
  /\ invite' = [i \in Invites |-> IF InviteExists(i) THEN [invite[i] EXCEPT !.state = "deleted"]
                                  ELSE invite[i]]
  /\ link' = [l \in Links |-> [link[l] EXCEPT !.invite = None]]
  /\ UNCHANGED <<session, confirms>>

\* The schema cascades: memberships and invitations go, and with them the
\* links issued for an invitation, which the trigger
\* invalidate_deleted_invite_tokens consumes before their invite_id is cleared.
DeleteWorkspace(r) ==
  /\ Commit(r, {"dissolve"})
  /\ org' = "deleted"
  /\ role' = [u \in Users |-> None]
  /\ invite' = [i \in Invites |-> IF InviteExists(i) THEN [invite[i] EXCEPT !.state = "deleted"]
                                  ELSE invite[i]]
  /\ link' = [l \in Links |-> IF link[l].invite = None THEN link[l]
                              ELSE [link[l] EXCEPT !.state = "consumed", !.invite = None]]
  /\ UNCHANGED <<session, confirms>>

\* insertInviteTx after revokeInviteTx of the invitations in old.
Reissue(old, email, grant) ==
  /\ \E i \in Invites :
       /\ invite[i].state = "unused"
       /\ invite' = [j \in Invites |->
            IF j = i THEN [state |-> "live", email |-> email, role |-> grant]
            ELSE IF j \in old THEN [invite[j] EXCEPT !.state = "revoked"]
            ELSE invite[j]]
  /\ ConsumeLinks(old)
  /\ UNCHANGED <<org, role, session, confirms>>

\* Mutant: inviting somebody again leaves the first invitation pending.
CreateInvite_KeepPrevious(r) ==
  /\ Commit(r, {"invite"})
  /\ Reissue({}, request[r].user, request[r].role)

\* An address that already has a pending invitation gets a new one instead.
CreateInvite(r) ==
  /\ Commit(r, {"invite"})
  /\ Reissue({i \in Invites : Pending(i) /\ invite[i].email = request[r].user},
             request[r].user, request[r].role)

ReplaceInvite(r) ==
  /\ Commit(r, {"resend"})
  /\ LET i == request[r].invite IN Reissue({i}, invite[i].email, invite[i].role)

RevokeInvite(r) ==
  /\ Commit(r, {"revoke"})
  /\ invite' = [invite EXCEPT ![request[r].invite].state = "revoked"]
  /\ ConsumeLinks({request[r].invite})
  /\ UNCHANGED <<org, role, session, confirms>>

\* AcceptInviteTx: an existing member keeps the role they have.
AcceptInvite(i, u) ==
  /\ role' = [role EXCEPT ![u] = IF @ = None THEN invite[i].role ELSE @]
  /\ invite' = [invite EXCEPT ![i].state = "accepted"]

AcceptMyInvite(r) ==
  /\ Commit(r, {"accept"})
  /\ AcceptInvite(request[r].invite, request[r].actor)
  /\ UNCHANGED <<org, link, session, confirms>>

-----------------------------------------------------------------------------
(* Sign-in links. *)

\* IssueLoginToken for an address, without an invitation.
IssueLoginToken(u) ==
  /\ LinkRoom
  /\ \E l \in Links :
       /\ link[l].state = "unused"
       /\ link' = [link EXCEPT ![l] =
            [state |-> "live", email |-> u, invite |-> None, origin |-> None]]
  /\ UNCHANGED <<org, role, invite, session, confirms, request, lock>>

\* ... and for the invitation previewed before, which may have been revoked
\* or accepted since; the foreign key only asks that its row still exists.
IssueInviteLink(r) ==
  /\ At(r, "received") /\ request[r].op = "signin"
  /\ LET i == request[r].invite
     IN  \/ /\ InviteExists(i)
            /\ \E l \in Links :
                 /\ link[l].state = "unused"
                 /\ link' = [link EXCEPT ![l] =
                      [state |-> "live", email |-> request[r].actor, invite |-> i, origin |-> i]]
         \/ ~InviteExists(i) /\ UNCHANGED link
  /\ End(r)
  /\ UNCHANGED <<org, role, invite, session, confirms>>

OpenSession(l) ==
  /\ link' = [link EXCEPT ![l].state = "consumed"]
  /\ session' = session \cup {link[l].email}
  /\ confirms' = [confirms EXCEPT ![l] = @ + 1]

\* Mutant: the link is not checked again when it is consumed.
ConfirmLogin_Unchecked(r) ==
  /\ At(r, "received") /\ request[r].op = "confirm" /\ request[r].invite = None
  /\ OpenSession(request[r].link)
  /\ End(r)
  /\ UNCHANGED <<org, role, invite>>

\* A link that was read without an invitation: one UPDATE consumes it.
ConfirmLogin(r) ==
  /\ At(r, "received") /\ request[r].op = "confirm" /\ request[r].invite = None
  /\ \/ link[request[r].link].state = "live" /\ OpenSession(request[r].link)
     \/ link[request[r].link].state # "live" /\ UNCHANGED <<link, session, confirms>>
  /\ End(r)
  /\ UNCHANGED <<org, role, invite>>

\* A link of an invitation signs in and accepts it, together or not at all.
ConfirmInvitation(r) ==
  /\ Commit(r, {"confirm"})
  /\ OpenSession(request[r].link)
  /\ AcceptInvite(request[r].invite, request[r].actor)
  /\ UNCHANGED org

\* Logging out, or a session that reaches its thirty days.
EndSession(u) ==
  /\ u \in session
  /\ session' = session \ {u}
  /\ UNCHANGED <<org, role, invite, link, confirms, request, lock>>

InviteExpires(i) ==
  /\ invite[i].state = "live"
  /\ invite' = [invite EXCEPT ![i].state = "lapsed"]
  /\ UNCHANGED <<org, role, link, session, confirms, request, lock>>

LinkExpires(l) ==
  /\ link[l].state = "live"
  /\ link' = [link EXCEPT ![l].state = "lapsed"]
  /\ UNCHANGED <<org, role, invite, session, confirms, request, lock>>

\* The steps of a request whose fate is in the server's hands.
Proceed(r) ==
  \/ LockWorkspace(r) \/ Check(r) \/ WorkspaceWrite(r)
  \/ UpdateWorkspaceMembershipRole(r) \/ RemoveWorkspaceMembership(r) \/ LeaveWorkspace(r)
  \/ DeleteWorkspace(r) \/ CreateInvite(r) \/ ReplaceInvite(r) \/ RevokeInvite(r)
  \/ AcceptMyInvite(r) \/ IssueInviteLink(r) \/ ConfirmLogin(r) \/ ConfirmInvitation(r)

Next ==
  \/ \E r \in Requests : Receive(r) \/ OpenLink(r) \/ PreviewInviteToken(r) \/ Proceed(r) \/ Abort(r)
  \/ \E u \in Users : CreateWorkspace(u) \/ IssueLoginToken(u) \/ EndSession(u)
  \/ \E i \in Invites : InviteExpires(i)
  \/ \E l \in Links : LinkExpires(l)

Spec == Init /\ [][Next]_vars

\* Handlers run to their end.  Postgres queues the waiters of a row lock, so
\* nobody waits for ever for a lock that is released again and again (SF).
Fairness == \A r \in Requests : SF_vars(Proceed(r))

FairSpec == Spec /\ Fairness

-----------------------------------------------------------------------------

\* Every variable has its type.
TypeOK ==
  /\ org \in {"absent", "open", "deleted"}
  /\ role \in [Users -> Roles \cup {None}]
  /\ invite \in [Invites -> {NoInvite} \cup
       [state : {"live", "lapsed", "accepted", "revoked", "deleted"}, email : Users, role : Roles]]
  /\ link \in [Links -> {NoLink} \cup
       [state : {"live", "lapsed", "consumed"}, email : Users,
        invite : Invites \cup {None}, origin : Invites \cup {None}]]
  /\ session \subseteq Users
  /\ confirms \in [Links -> Nat]
  /\ request \in [Requests -> {Idle} \cup
       [pc : {"received", "locked", "checked"},
        op : AdminOps \cup {"write", "leave", "accept", "confirm", "signin"},
        actor : Users, user : Users \cup {None}, role : Roles \cup {None},
        invite : Invites \cup {None}, link : Links \cup {None}]]
  /\ lock \in Requests \cup {None}

\* retainAdminTx: "the organisation must retain at least one admin", however
\* demotions, removals and departures of admins overlap.
AdminRetained == org = "open" => Admins # {}

\* UpdateWorkspaceName: "a demoted admin cannot win a race with the request
\* that removed their access".  From its check to its commit, every
\* transaction still has the authority and the facts it was allowed on.
AuthorityHeld ==
  \A r \in Requests : At(r, "checked") =>
    LET m == request[r]
    IN  /\ MayDo(m.op, role[m.actor])
        /\ m.op \in {"setrole", "remove"} => role[m.user] # None
        /\ m.invite # None => Pending(m.invite)

\* Migration 0005, invite_pending_idx: "one live invite per address per
\* organisation".  CreateInvite and ReplaceInvite keep this by themselves.
OnePendingInvite ==
  \A i, j \in Invites : Pending(i) /\ Pending(j) /\ invite[i].email = invite[j].email => i = j

\* IssueLoginToken: a sign-in link is "single-use", although a mail client
\* and its owner may open it at the same time.
SingleUse == \A l \in Links : confirms[l] <= 1

\* AcceptInviteTx: one joins by founding the organisation or by accepting a
\* pending invitation to one's own address, with the role it grants; and
\* "an existing member always retains their role".
AdmissionByInvitation ==
  [][/\ \A u \in Users : role[u] = None /\ role'[u] # None =>
          \/ org = "absent" /\ role'[u] = "admin"
          \/ \E i \in Invites : /\ Pending(i) /\ invite'[i].state = "accepted"
                                /\ invite[i].email = u /\ invite[i].role = role'[u]
     /\ \A i \in Invites : Pending(i) /\ invite'[i].state = "accepted" =>
          \A u \in Users : role[u] # None \/ invite[i].email # u => role'[u] = role[u]]_vars

\* Migration 0006: invite or organisation deletion cannot "turn an invite
\* login link into an ordinary sign-in link".  A link issued for an
\* invitation opens a session only in the step that accepts it, so a revoked,
\* replaced, lapsed or already accepted invitation signs nobody in.
InviteLinksStayBound ==
  [][\A l \in Links : confirms'[l] # confirms[l] /\ link[l].origin # None =>
       Pending(link[l].origin) /\ invite'[link[l].origin].state = "accepted"]_vars

\* Nobody waits on anybody for ever: every request is answered.
EveryRequestEnds == \A r \in Requests : request[r] # Idle ~> request[r] = Idle

\* Memberships change as Organisation says.
Abstract == INSTANCE Organisation
ImplementsOrganisation == Abstract!Spec

=============================================================================
