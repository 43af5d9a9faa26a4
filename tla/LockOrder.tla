------------------------------ MODULE LockOrder ------------------------------
(***************************************************************************)
(* The locks that transactions of internal/store take, in the order of     *)
(* their statements, and whether transactions can end up waiting for each  *)
(* other in a circle.  PostgreSQL breaks such a circle by failing one of   *)
(* them with an error no caller retries.                                   *)
(*                                                                         *)
(* A lock is a row and a mode; one row stands for each table, the one two  *)
(* transactions may both want.  An UPDATE takes "noKeyUpdate", a DELETE or *)
(* FOR UPDATE "update", FOR SHARE "share", and an INSERT "keyShare" on the *)
(* rows its foreign keys name.  A DELETE goes on through its cascades, in  *)
(* the order the schema declared them, and cascades of cascades come last. *)
(* An advisory lock is "update".                                           *)
(* Rows that are only touched under the workspace lock (sprints, issues,   *)
(* comments...) and the clean-up, which skips locked rows, are left out.   *)
(***************************************************************************)
EXTENDS Naturals, Sequences

CONSTANTS
  Txns,   \* transactions in progress at once
  Ops     \* bound: the operations they run, names of Script

Rows ==
  {"workspace", "user", "membership", "identity", "invite", "inviteLink", "link",
   "session", "setup", "authorization", "linkAuthorization", "installation",
   "pullRequest", "setupToken", "projectToken", "cliSession", "collectedSession",
   "installationId", "identityMutation", "imageQuota", "tokenQuota",
   "loginEmail", "loginIP"}
Modes == {"keyShare", "share", "noKeyUpdate", "update"}
Locks == [row : Rows, mode : Modes]

\* PostgreSQL's table of conflicting row locks.
Conflicts(m, n) ==
  \/ "update" \in {m, n}
  \/ "noKeyUpdate" \in {m, n} /\ "keyShare" \notin {m, n}

Lock(row, mode) == [row |-> row, mode |-> mode]
Update(row) == Lock(row, "update")
NoKeyUpdate(row) == Lock(row, "noKeyUpdate")
Share(row) == Lock(row, "share")
KeyShare(row) == Lock(row, "keyShare")

-----------------------------------------------------------------------------
(* Transactions that lock the workspace first. *)

LockWorkspace == <<Update("workspace")>>

\* Every write by a member: rows below the workspace, then the activity.
Write == LockWorkspace \o <<KeyShare("user")>>

ChangeRole == LockWorkspace \o <<NoKeyUpdate("membership"), KeyShare("user")>>

\* Removing and leaving; the member's identity link goes with the membership.
RemoveMember == LockWorkspace \o <<Update("membership"), Update("identity"), KeyShare("user")>>

\* The cascades of DELETE FROM workspace.
DeleteOrganisation == LockWorkspace \o
  <<Update("membership"), Update("invite"), NoKeyUpdate("inviteLink"),
    NoKeyUpdate("installation"), Update("setup"), NoKeyUpdate("session"),
    Update("identity"), Update("authorization"), Update("linkAuthorization"),
    Update("projectToken"), Update("cliSession"), Update("collectedSession")>>

\* Also inviting an address again, which revokes its earlier invitation.
RevokeInvite == LockWorkspace \o
  <<NoKeyUpdate("invite"), NoKeyUpdate("inviteLink"), KeyShare("user")>>
ReplaceInvite == LockWorkspace \o
  <<Update("invite"), NoKeyUpdate("inviteLink"), KeyShare("user")>>
AcceptInvite == LockWorkspace \o <<Update("invite"), KeyShare("user")>>

\* Mutant: the sign-in link is locked before the workspace.
ConfirmInvitation_LinkFirst ==
  <<Update("inviteLink")>> \o LockWorkspace \o <<NoKeyUpdate("user"), Update("invite")>>

\* ConfirmLogin for a link of an invitation.
ConfirmInvitation == LockWorkspace \o
  <<Update("inviteLink"), NoKeyUpdate("user"), Update("invite")>>

CreateSetup == LockWorkspace \o <<Share("session"), KeyShare("user")>>
StartInstallation == LockWorkspace \o
  <<Share("session"), Update("setup"), KeyShare("user")>>
BindInstallation == LockWorkspace \o
  <<Share("session"), Update("setup"), Update("authorization"),
    Update("installationId"), Update("installation")>>

RequestSync == LockWorkspace \o <<Update("installation")>>
InstallationEvent == LockWorkspace \o
  <<Update("installationId"), Update("installation")>>
ApplyRepos == LockWorkspace \o <<Update("installation")>>
WithActiveRepo == LockWorkspace \o <<Update("installation"), NoKeyUpdate("pullRequest")>>

CreateImage == LockWorkspace \o
  <<Update("imageQuota"), Share("membership"), Share("projectToken"), KeyShare("user")>>

-----------------------------------------------------------------------------
(* Transactions that do not. *)

\* The same webhook for an installation that belongs to no workspace yet.
UnownedEvent == <<Update("installationId"), Update("installation")>>

\* A sign-in link without an invitation; the new session names the
\* workspace it opens, and with it locks the row.
ConfirmLogin ==
  <<Update("link"), NoKeyUpdate("user"), KeyShare("workspace")>>
IssueInviteLink ==
  <<Update("loginEmail"), Update("loginIP"), KeyShare("invite")>>

\* The session remembers the workspace it showed last.
RememberWorkspace == <<NoKeyUpdate("session"), KeyShare("workspace")>>

\* Deletes the session with the GitHub states it started.
Logout ==
  <<Update("session"), Update("setup"), Update("authorization"), Update("linkAuthorization")>>

AuthorizeLink == <<Share("session"), KeyShare("user"), KeyShare("workspace")>>
ClaimAuthorization(purpose) == <<Share("session"), Update(purpose)>>

\* github_id is a key of app_user: changing it conflicts with every
\* foreign key that names the person.
LinkProfile ==
  <<Update("identityMutation"), Share("session"), Update("linkAuthorization"), Update("user")>>
UnlinkProfile == <<Update("identityMutation"), Share("session"), Update("user")>>

\* linkMembershipIdentityTx.  The inserted identity locks the workspace it
\* names; an identity that is only changed leaves that to the activity.
LinkIdentity ==
  <<Update("identityMutation"), Share("session"), Update("linkAuthorization"),
    Update("membership"), Update("identity"), KeyShare("workspace"),
    NoKeyUpdate("pullRequest")>>
ChangeIdentity ==
  <<Update("identityMutation"), Share("session"), Update("linkAuthorization"),
    Update("membership"), NoKeyUpdate("identity"), NoKeyUpdate("pullRequest"),
    KeyShare("user"), KeyShare("workspace")>>
UnlinkIdentity ==
  <<Update("identityMutation"), Update("identity"), KeyShare("workspace")>>

ApproveCLISession == <<Update("cliSession"), KeyShare("user"), KeyShare("workspace")>>
CollectToken ==
  <<Update("cliSession"), Update("tokenQuota"), KeyShare("user"), KeyShare("workspace")>>

\* A first project key, and a new secret for the existing one.
IssueProjectToken ==
  <<Update("setupToken"), Share("membership"), Update("tokenQuota"),
    KeyShare("user"), KeyShare("workspace")>>
RotateProjectToken ==
  <<Update("setupToken"), Share("membership"), Update("projectToken")>>

\* The cascade of a key reaches the session it was collected from, which is
\* no longer one that can be approved or collected.
DeleteSetupToken == <<Update("setupToken"), Update("projectToken")>>
DeleteProjectToken == <<Update("projectToken"), Update("collectedSession")>>

Script ==
  [write |-> Write, role |-> ChangeRole, remove |-> RemoveMember,
   dissolve |-> DeleteOrganisation, revoke |-> RevokeInvite, replace |-> ReplaceInvite,
   accept |-> AcceptInvite, confirmInvite |-> ConfirmInvitation,
   setup |-> CreateSetup, start |-> StartInstallation, bind |-> BindInstallation,
   sync |-> RequestSync, event |-> InstallationEvent, repos |-> ApplyRepos,
   evidence |-> WithActiveRepo, image |-> CreateImage,
   unowned |-> UnownedEvent, confirm |-> ConfirmLogin, issueLink |-> IssueInviteLink,
   remember |-> RememberWorkspace, logout |-> Logout,
   authorize |-> AuthorizeLink, claimLink |-> ClaimAuthorization("linkAuthorization"),
   claimSetup |-> ClaimAuthorization("authorization"),
   linkProfile |-> LinkProfile, unlinkProfile |-> UnlinkProfile,
   link |-> LinkIdentity, relink |-> ChangeIdentity, unlink |-> UnlinkIdentity,
   approve |-> ApproveCLISession, collect |-> CollectToken,
   issueToken |-> IssueProjectToken, rotateToken |-> RotateProjectToken,
   deleteSetup |-> DeleteSetupToken, deleteToken |-> DeleteProjectToken]

ASSUME OpsAssumption == Ops \subseteq DOMAIN Script

-----------------------------------------------------------------------------

VARIABLE txn   \* txn[t]: the operation, and how many locks of it are taken

Idle == [op |-> "none", taken |-> 0]
Begun(op) == [op |-> op, taken |-> 0]

Busy(t) == txn[t].op # "none"
Held(t) == {Script[txn[t].op][k] : k \in 1..txn[t].taken}
Waiting(t) == Busy(t) /\ txn[t].taken < Len(Script[txn[t].op])
Wanted(t) == Script[txn[t].op][txn[t].taken + 1]

\* u holds a lock that t must wait for.
Blocks(u, t) ==
  /\ u # t /\ Waiting(t) /\ Busy(u)
  /\ \E h \in Held(u) : h.row = Wanted(t).row /\ Conflicts(h.mode, Wanted(t).mode)

Init == txn = [t \in Txns |-> Idle]

Begin(t) ==
  /\ ~Busy(t)
  /\ \E op \in Ops : txn' = [txn EXCEPT ![t] = Begun(op)]

\* Mutant: the lock after the last one is taken as well.
Acquire_PastEnd(t) ==
  /\ Busy(t) /\ txn[t].taken <= Len(Script[txn[t].op])
  /\ ~\E u \in Txns : Blocks(u, t)
  /\ txn' = [txn EXCEPT ![t].taken = @ + 1]

Acquire(t) ==
  /\ Waiting(t)
  /\ ~\E u \in Txns : Blocks(u, t)
  /\ txn' = [txn EXCEPT ![t].taken = @ + 1]

\* Committed, refused by one of its checks, or cancelled by its client: the
\* locks are released together.
End(t) ==
  /\ Busy(t)
  /\ txn' = [txn EXCEPT ![t] = Idle]

Next == \E t \in Txns : Begin(t) \/ Acquire(t) \/ End(t)

Spec == Init /\ [][Next]_txn

-----------------------------------------------------------------------------

\* A transaction has taken a prefix of its locks.
TypeOK ==
  /\ txn \in [Txns -> {Idle} \cup [op : Ops, taken : Nat]]
  /\ \A t \in Txns : Busy(t) => txn[t].taken <= Len(Script[txn[t].op])

\* LockWorkspaceAdminTx: "Integration binding must use the same
\* workspace-first order".  Every set of transactions has one that waits
\* for none of the set: no circle, so PostgreSQL never has to fail one.
\* linkMembershipIdentityTx promises it for a revocation and a link: the
\* revocation "either wins before this lookup or waits until the complete
\* link has committed".
NoDeadlock ==
  \A set \in (SUBSET Txns) \ {{}} : \E t \in set : \A u \in set : ~Blocks(u, t)

\* The operations that take the workspace row for themselves before all else.
WorkspaceFirst ==
  {op \in DOMAIN Script : Len(Script[op]) > 0 /\ Script[op][1] = Update("workspace")}

=============================================================================
