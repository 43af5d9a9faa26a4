--------------------------- MODULE LockOrderProofs ---------------------------
(***************************************************************************)
(* Proofs about LockOrder, for any number of transactions: types, and that *)
(* no circle of waiting arises among operations that all lock the          *)
(* workspace first, nor among the twenty-eight that TLC mixes, three at a  *)
(* time.                                                                   *)
(***************************************************************************)
EXTENDS LockOrder, WellFoundedInduction, TLAPS

(***************************************************************************)
(* Every script is a sequence of locks.                                    *)
(***************************************************************************)

LEMMA LockType ==
  \A row \in Rows :
    /\ Update(row) \in Locks
    /\ NoKeyUpdate(row) \in Locks
    /\ Share(row) \in Locks
    /\ KeyShare(row) \in Locks
BY DEF Locks, Modes, Update, NoKeyUpdate, Share, KeyShare, Lock

LEMMA RowNames ==
  /\ {"workspace", "user", "membership", "identity"} \subseteq Rows
  /\ {"invite", "inviteLink", "link", "loginEmail", "loginIP"} \subseteq Rows
  /\ {"session", "setup", "authorization", "linkAuthorization"} \subseteq Rows
  /\ {"installation", "installationId", "pullRequest"} \subseteq Rows
  /\ {"setupToken", "projectToken", "cliSession", "collectedSession"} \subseteq Rows
  /\ {"identityMutation", "imageQuota", "tokenQuota"} \subseteq Rows
BY DEF Rows

LEMMA WorkspaceTypes ==
  /\ LockWorkspace \in Seq(Locks)
  /\ Write \in Seq(Locks)
  /\ ChangeRole \in Seq(Locks)
  /\ RemoveMember \in Seq(Locks)
  /\ DeleteOrganisation \in Seq(Locks)
<1>1. LockWorkspace \in Seq(Locks)
  BY LockType, RowNames DEF LockWorkspace
<1>2. Write \in Seq(Locks) /\ ChangeRole \in Seq(Locks) /\ RemoveMember \in Seq(Locks)
  BY <1>1, LockType, RowNames DEF Write, ChangeRole, RemoveMember
<1>3. DeleteOrganisation \in Seq(Locks)
  BY <1>1, LockType, RowNames DEF DeleteOrganisation
<1> QED
  BY <1>1, <1>2, <1>3

LEMMA InviteTypes ==
  /\ RevokeInvite \in Seq(Locks)
  /\ ReplaceInvite \in Seq(Locks)
  /\ AcceptInvite \in Seq(Locks)
  /\ ConfirmInvitation \in Seq(Locks)
  /\ ConfirmLogin \in Seq(Locks)
  /\ IssueInviteLink \in Seq(Locks)
<1>1. RevokeInvite \in Seq(Locks) /\ ReplaceInvite \in Seq(Locks)
  BY WorkspaceTypes, LockType, RowNames DEF RevokeInvite, ReplaceInvite
<1>2. AcceptInvite \in Seq(Locks) /\ ConfirmInvitation \in Seq(Locks)
  BY WorkspaceTypes, LockType, RowNames DEF AcceptInvite, ConfirmInvitation
<1>3. ConfirmLogin \in Seq(Locks) /\ IssueInviteLink \in Seq(Locks)
  BY LockType, RowNames DEF ConfirmLogin, IssueInviteLink
<1> QED
  BY <1>1, <1>2, <1>3

LEMMA InstallationTypes ==
  /\ CreateSetup \in Seq(Locks)
  /\ StartInstallation \in Seq(Locks)
  /\ BindInstallation \in Seq(Locks)
  /\ RequestSync \in Seq(Locks)
  /\ InstallationEvent \in Seq(Locks)
  /\ ApplyRepos \in Seq(Locks)
  /\ WithActiveRepo \in Seq(Locks)
  /\ CreateImage \in Seq(Locks)
  /\ UnownedEvent \in Seq(Locks)
<1>1. CreateSetup \in Seq(Locks) /\ StartInstallation \in Seq(Locks)
  BY WorkspaceTypes, LockType, RowNames DEF CreateSetup, StartInstallation
<1>2. BindInstallation \in Seq(Locks) /\ RequestSync \in Seq(Locks)
  BY WorkspaceTypes, LockType, RowNames DEF BindInstallation, RequestSync
<1>3. InstallationEvent \in Seq(Locks) /\ ApplyRepos \in Seq(Locks)
  BY WorkspaceTypes, LockType, RowNames DEF InstallationEvent, ApplyRepos
<1>4. WithActiveRepo \in Seq(Locks) /\ CreateImage \in Seq(Locks)
  BY WorkspaceTypes, LockType, RowNames DEF WithActiveRepo, CreateImage
<1>5. UnownedEvent \in Seq(Locks)
  BY LockType, RowNames DEF UnownedEvent
<1> QED
  BY <1>1, <1>2, <1>3, <1>4, <1>5

LEMMA SessionTypes ==
  /\ RememberWorkspace \in Seq(Locks)
  /\ Logout \in Seq(Locks)
  /\ AuthorizeLink \in Seq(Locks)
  /\ \A purpose \in Rows : ClaimAuthorization(purpose) \in Seq(Locks)
  /\ LinkProfile \in Seq(Locks)
  /\ UnlinkProfile \in Seq(Locks)
  /\ LinkIdentity \in Seq(Locks)
  /\ ChangeIdentity \in Seq(Locks)
  /\ UnlinkIdentity \in Seq(Locks)
<1>1. RememberWorkspace \in Seq(Locks) /\ Logout \in Seq(Locks) /\ AuthorizeLink \in Seq(Locks)
  BY LockType, RowNames DEF RememberWorkspace, Logout, AuthorizeLink
<1>2. \A purpose \in Rows : ClaimAuthorization(purpose) \in Seq(Locks)
  BY LockType, RowNames DEF ClaimAuthorization
<1>3. LinkProfile \in Seq(Locks) /\ UnlinkProfile \in Seq(Locks)
  BY LockType, RowNames DEF LinkProfile, UnlinkProfile
<1>4. LinkIdentity \in Seq(Locks)
  BY LockType, RowNames DEF LinkIdentity
<1>5. ChangeIdentity \in Seq(Locks) /\ UnlinkIdentity \in Seq(Locks)
  BY LockType, RowNames DEF ChangeIdentity, UnlinkIdentity
<1> QED
  BY <1>1, <1>2, <1>3, <1>4, <1>5

LEMMA TokenTypes ==
  /\ ApproveCLISession \in Seq(Locks)
  /\ CollectToken \in Seq(Locks)
  /\ IssueProjectToken \in Seq(Locks)
  /\ RotateProjectToken \in Seq(Locks)
  /\ DeleteSetupToken \in Seq(Locks)
  /\ DeleteProjectToken \in Seq(Locks)
<1>1. ApproveCLISession \in Seq(Locks) /\ CollectToken \in Seq(Locks)
  BY LockType, RowNames DEF ApproveCLISession, CollectToken
<1>2. IssueProjectToken \in Seq(Locks) /\ RotateProjectToken \in Seq(Locks)
  BY LockType, RowNames DEF IssueProjectToken, RotateProjectToken
<1>3. DeleteSetupToken \in Seq(Locks) /\ DeleteProjectToken \in Seq(Locks)
  BY LockType, RowNames DEF DeleteSetupToken, DeleteProjectToken
<1> QED
  BY <1>1, <1>2, <1>3

LEMMA ScriptType == \A op \in DOMAIN Script : Script[op] \in Seq(Locks)
<1>1. DOMAIN Script = {
        "write", "role", "remove", "dissolve", "revoke", "replace", "accept",
        "confirmInvite", "setup", "start", "bind", "sync", "event", "repos",
        "evidence", "image", "unowned", "confirm", "issueLink", "remember",
        "logout", "authorize", "claimLink", "claimSetup", "linkProfile",
        "unlinkProfile", "link", "relink", "unlink", "approve", "collect",
        "issueToken", "rotateToken", "deleteSetup", "deleteToken"}
  BY DEF Script
<1>2. /\ Script["write"] \in Seq(Locks)
      /\ Script["role"] \in Seq(Locks)
      /\ Script["remove"] \in Seq(Locks)
      /\ Script["dissolve"] \in Seq(Locks)
      /\ Script["revoke"] \in Seq(Locks)
      /\ Script["replace"] \in Seq(Locks)
      /\ Script["accept"] \in Seq(Locks)
      /\ Script["confirmInvite"] \in Seq(Locks)
      /\ Script["setup"] \in Seq(Locks)
  BY WorkspaceTypes, InviteTypes, InstallationTypes, SessionTypes, TokenTypes, RowNames
     DEF Script
<1>3. /\ Script["start"] \in Seq(Locks)
      /\ Script["bind"] \in Seq(Locks)
      /\ Script["sync"] \in Seq(Locks)
      /\ Script["event"] \in Seq(Locks)
      /\ Script["repos"] \in Seq(Locks)
      /\ Script["evidence"] \in Seq(Locks)
      /\ Script["image"] \in Seq(Locks)
      /\ Script["unowned"] \in Seq(Locks)
      /\ Script["confirm"] \in Seq(Locks)
  BY WorkspaceTypes, InviteTypes, InstallationTypes, SessionTypes, TokenTypes, RowNames
     DEF Script
<1>4. /\ Script["issueLink"] \in Seq(Locks)
      /\ Script["remember"] \in Seq(Locks)
      /\ Script["logout"] \in Seq(Locks)
      /\ Script["authorize"] \in Seq(Locks)
      /\ Script["claimLink"] \in Seq(Locks)
      /\ Script["claimSetup"] \in Seq(Locks)
      /\ Script["linkProfile"] \in Seq(Locks)
      /\ Script["unlinkProfile"] \in Seq(Locks)
      /\ Script["link"] \in Seq(Locks)
  BY WorkspaceTypes, InviteTypes, InstallationTypes, SessionTypes, TokenTypes, RowNames
     DEF Script
<1>5. /\ Script["relink"] \in Seq(Locks)
      /\ Script["unlink"] \in Seq(Locks)
      /\ Script["approve"] \in Seq(Locks)
      /\ Script["collect"] \in Seq(Locks)
      /\ Script["issueToken"] \in Seq(Locks)
      /\ Script["rotateToken"] \in Seq(Locks)
      /\ Script["deleteSetup"] \in Seq(Locks)
      /\ Script["deleteToken"] \in Seq(Locks)
  BY WorkspaceTypes, InviteTypes, InstallationTypes, SessionTypes, TokenTypes, RowNames
     DEF Script
<1> QED
  BY <1>1, <1>2, <1>3, <1>4, <1>5

LEMMA NoneIsNoOperation == "none" \notin Ops
BY OpsAssumption DEF Script

(***************************************************************************)
(* Types.                                                                  *)
(***************************************************************************)

LEMMA TypeInit == Init => TypeOK
BY DEF Init, TypeOK, Idle, Busy

LEMMA TypeNext == TypeOK /\ [Next]_txn => TypeOK'
<1> SUFFICES ASSUME TypeOK, [Next]_txn PROVE TypeOK'
  OBVIOUS
<1> USE DEF TypeOK
<1>1. ASSUME NEW t \in Txns, Begin(t) PROVE TypeOK'
  <2>1. PICK op \in Ops : txn' = [txn EXCEPT ![t] = Begun(op)]
    BY <1>1 DEF Begin
  <2>2. Script[op] \in Seq(Locks)
    BY ScriptType, OpsAssumption
  <2> QED
    BY <2>1, <2>2 DEF Begun, Idle, Busy
<1>2. ASSUME NEW t \in Txns, Acquire(t) PROVE TypeOK'
  <2>1. /\ txn[t].op \in Ops /\ txn[t].taken \in Nat
        /\ txn[t].taken < Len(Script[txn[t].op])
        /\ txn' = [txn EXCEPT ![t].taken = @ + 1]
    BY <1>2 DEF Acquire, Waiting, Busy, Idle
  <2>2. Len(Script[txn[t].op]) \in Nat
    BY <2>1, ScriptType, OpsAssumption
  <2>3. txn'[t] = [op |-> txn[t].op, taken |-> txn[t].taken + 1]
    BY <2>1 DEF Idle
  <2> QED
    BY <2>1, <2>2, <2>3 DEF Busy, Idle
<1>3. ASSUME NEW t \in Txns, End(t) PROVE TypeOK'
  BY <1>3 DEF End, Busy, Idle
<1>4. CASE UNCHANGED txn
  BY <1>4 DEF Busy
<1> QED
  BY <1>1, <1>2, <1>3, <1>4 DEF Next

\* Every transaction has taken a prefix of the locks of one operation.
THEOREM TypeCorrect == Spec => []TypeOK
BY TypeInit, TypeNext, PTL DEF Spec

(***************************************************************************)
(* The workspace first.  The first lock excludes every other first lock,   *)
(* so at most one transaction holds anything, and it waits for nobody.     *)
(***************************************************************************)

SoleHolder ==
  \A t, u \in Txns : txn[t].taken > 0 /\ txn[u].taken > 0 => t = u

LInv == TypeOK /\ SoleHolder

LEMMA FirstLock ==
  ASSUME Ops \subseteq WorkspaceFirst, TypeOK,
         NEW t \in Txns, Waiting(t), txn[t].taken = 0,
         NEW u \in Txns, u # t, txn[u].taken > 0
  PROVE  Blocks(u, t)
<1>1. txn[t].op \in Ops /\ txn[u].op \in Ops /\ Busy(u)
  BY NoneIsNoOperation DEF TypeOK, Waiting, Busy, Idle
<1>2. Wanted(t) = Update("workspace")
  BY <1>1 DEF Wanted, WorkspaceFirst
<1>3. Update("workspace") \in Held(u)
  BY <1>1 DEF Held, WorkspaceFirst, TypeOK, Idle
<1> QED
  BY <1>1, <1>2, <1>3 DEF Blocks, Conflicts, Update, Lock

LEMMA HolderInit == Init => SoleHolder
BY DEF Init, SoleHolder, Idle

LEMMA HolderNext ==
  ASSUME Ops \subseteq WorkspaceFirst
  PROVE  LInv /\ [Next]_txn => SoleHolder'
<1> SUFFICES ASSUME LInv, [Next]_txn PROVE SoleHolder'
  OBVIOUS
<1> USE DEF LInv
<1>1. ASSUME NEW t \in Txns, Begin(t) PROVE SoleHolder'
  BY <1>1 DEF Begin, Begun, SoleHolder, TypeOK
<1>2. ASSUME NEW t \in Txns, Acquire(t) PROVE SoleHolder'
  <2>1. Waiting(t) /\ (\A u \in Txns : ~Blocks(u, t))
    BY <1>2 DEF Acquire
  <2>2. \A u \in Txns : u # t => txn'[u] = txn[u]
    BY <1>2 DEF Acquire, TypeOK
  <2>3. ASSUME NEW u \in Txns, u # t PROVE ~(txn[u].taken > 0)
    <3>1. CASE txn[t].taken = 0
      BY <2>1, <2>3, <3>1, FirstLock
    <3>2. CASE txn[t].taken # 0
      BY <2>3, <3>2 DEF SoleHolder, TypeOK, Idle
    <3> QED
      BY <3>1, <3>2
  <2> QED
    BY <2>2, <2>3 DEF SoleHolder
<1>3. ASSUME NEW t \in Txns, End(t) PROVE SoleHolder'
  BY <1>3 DEF End, Idle, SoleHolder, TypeOK
<1>4. CASE UNCHANGED txn
  BY <1>4 DEF SoleHolder
<1> QED
  BY <1>1, <1>2, <1>3, <1>4 DEF Next

LEMMA HolderIsFree == LInv => NoDeadlock
<1> SUFFICES ASSUME LInv, NEW set \in (SUBSET Txns) \ {{}}
             PROVE  \E t \in set : \A u \in set : ~Blocks(u, t)
  BY Zenon DEF NoDeadlock
<1>1. ASSUME NEW t \in Txns, NEW u \in Txns, Blocks(u, t)
      PROVE  u # t /\ txn[u].taken > 0
  BY <1>1 DEF Blocks, Held, LInv, TypeOK, Idle
<1>2. CASE \E h \in set : txn[h].taken > 0
  BY <1>1, <1>2 DEF LInv, SoleHolder
<1>3. CASE ~\E h \in set : txn[h].taken > 0
  <2>1. set # {}
    OBVIOUS
  <2>2. \A t, u \in set : ~Blocks(u, t)
    BY <1>1, <1>3
  <2> QED
    BY <2>1, <2>2
<1> QED
  BY <1>2, <1>3

\* workspace.go, LockWorkspaceAdminTx: the order every operation on an
\* organisation "must use".  Those that do never make each other wait in a
\* circle, however many of them run at once.
THEOREM WorkspaceFirstIsSafe ==
  ASSUME Ops \subseteq WorkspaceFirst
  PROVE  Spec => []NoDeadlock
<1>1. Init => LInv
  BY TypeInit, HolderInit DEF LInv
<1>2. LInv /\ [Next]_txn => LInv'
  BY TypeNext, HolderNext DEF LInv
<1>3. LInv => NoDeadlock
  BY HolderIsFree
<1> QED
  BY <1>1, <1>2, <1>3, PTL DEF Spec

(***************************************************************************)
(* Operations with different first locks.  A lock gets a level, and a      *)
(* transaction the level of the lock it wants.  Two rows have no level of  *)
(* their own that would do: what conflicts with a lock of a person or of a *)
(* session depends on the mode, so Until, the least level a transaction    *)
(* that waits for a held lock can have, may lie above the lock's level.    *)
(* Three things the order of the levels does not show: who waits for the   *)
(* row of a sign-in link or to rename a person holds the workspace, as     *)
(* does whoever it could wait for; a transaction that takes a GitHub state *)
(* holds its session; and logging out, which takes these states in its own *)
(* order, has locked the session they belong to, so it waits for nobody.   *)
(***************************************************************************)

\* The operations of LockOrder.cfg.  Each of the other seven of Script can
\* wait in a circle with one of these.
Orderly ==
  {"write", "role", "remove", "revoke", "replace", "accept", "confirmInvite",
   "setup", "start", "bind", "sync", "event", "repos", "evidence", "image",
   "unowned", "issueLink", "logout", "authorize", "claimLink", "claimSetup",
   "linkProfile", "unlinkProfile", "approve", "collect", "rotateToken",
   "deleteSetup", "deleteToken"}

Level(lock) ==
  IF lock.row = "user" THEN (IF lock.mode = "update" THEN 8 ELSE 0)
  ELSE IF lock.row = "session" THEN (IF lock.mode = "share" THEN 6 ELSE 10)
  ELSE IF lock.row \in {"inviteLink", "identity", "projectToken", "pullRequest"} THEN 1
  ELSE IF lock.row \in {"invite", "membership", "installation"} THEN 2
  ELSE IF lock.row \in {"setupToken", "imageQuota", "loginIP", "installationId"} THEN 3
  ELSE IF lock.row \in {"authorization", "loginEmail"} THEN 4
  ELSE IF lock.row = "setup" THEN 5
  ELSE IF lock.row = "workspace" THEN 7
  ELSE IF lock.row = "tokenQuota" THEN 8
  ELSE IF lock.row \in {"linkAuthorization", "cliSession"} THEN 9
  ELSE IF lock.row = "identityMutation" THEN 10
  ELSE 0

Until(lock) ==
  IF lock = KeyShare("user") THEN 8
  ELSE IF lock.row = "user" THEN 0
  ELSE IF lock = Share("session") THEN 10
  ELSE IF lock.row = "session" THEN 6
  ELSE Level(lock)

\* The level of an operation that has taken k of its locks.
Rank(op, k) == IF op = "logout" /\ k > 0 THEN 0 ELSE Level(Script[op][k + 1])

States == {"setup", "authorization", "linkAuthorization"}
Guarded(lock) == lock.row = "inviteLink" \/ lock = NoKeyUpdate("user")

\* A waiting transaction is below everything it holds, but for the locks it
\* took under the workspace.
Ascends(op, k) ==
  \A j \in 1..k :
    \/ Rank(op, k) < Until(Script[op][j])
    \/ Guarded(Script[op][j]) /\ Script[op][1] = Update("workspace") /\ Rank(op, k) < 7

UnderWorkspace(op, k) ==
  Guarded(Script[op][k + 1]) => k > 0 /\ Script[op][1] = Update("workspace")

UnderSession(op, k) ==
  (\E j \in 1..k : Script[op][j].row \in States)
    => \E i \in 1..k : Script[op][i] \in {Share("session"), Update("session")}

Sound(op) ==
  /\ Len(Script[op]) > 0
  /\ \A k \in 0..(Len(Script[op]) - 1) :
       /\ Script[op][k + 1] \in Locks /\ Script[op][k + 1] # Share("user")
       /\ Ascends(op, k) /\ UnderWorkspace(op, k) /\ UnderSession(op, k)

\* Each operation in turn.

LEMMA Sound_write == Sound("write")
<1>1. /\ Len(Script["write"]) = 2
      /\ Script["write"][1] = Update("workspace")
      /\ Script["write"][2] = KeyShare("user")
  BY DEF Script, Write, LockWorkspace
<1>2. \A k \in 0..1 : Ascends("write", k)
  BY <1>1 DEF Ascends, Rank, Level, Until, Guarded, Update, NoKeyUpdate, Share, KeyShare, Lock
<1> QED
  BY <1>1, <1>2 DEF Sound, UnderWorkspace, UnderSession, Guarded, States, Locks, Rows, Modes,
     Update, NoKeyUpdate, Share, KeyShare, Lock

LEMMA Sound_role == Sound("role")
<1>1. /\ Len(Script["role"]) = 3
      /\ Script["role"][1] = Update("workspace")
      /\ Script["role"][2] = NoKeyUpdate("membership")
      /\ Script["role"][3] = KeyShare("user")
  BY DEF Script, ChangeRole, LockWorkspace
<1>2. \A k \in 0..2 : Ascends("role", k)
  BY <1>1 DEF Ascends, Rank, Level, Until, Guarded, Update, NoKeyUpdate, Share, KeyShare, Lock
<1> QED
  BY <1>1, <1>2 DEF Sound, UnderWorkspace, UnderSession, Guarded, States, Locks, Rows, Modes,
     Update, NoKeyUpdate, Share, KeyShare, Lock

LEMMA Sound_remove == Sound("remove")
<1>1. /\ Len(Script["remove"]) = 4
      /\ Script["remove"][1] = Update("workspace")
      /\ Script["remove"][2] = Update("membership")
      /\ Script["remove"][3] = Update("identity")
      /\ Script["remove"][4] = KeyShare("user")
  BY DEF Script, RemoveMember, LockWorkspace
<1>2. \A k \in 0..3 : Ascends("remove", k)
  BY <1>1 DEF Ascends, Rank, Level, Until, Guarded, Update, NoKeyUpdate, Share, KeyShare, Lock
<1> QED
  BY <1>1, <1>2 DEF Sound, UnderWorkspace, UnderSession, Guarded, States, Locks, Rows, Modes,
     Update, NoKeyUpdate, Share, KeyShare, Lock

LEMMA Sound_revoke == Sound("revoke")
<1>1. /\ Len(Script["revoke"]) = 4
      /\ Script["revoke"][1] = Update("workspace")
      /\ Script["revoke"][2] = NoKeyUpdate("invite")
      /\ Script["revoke"][3] = NoKeyUpdate("inviteLink")
      /\ Script["revoke"][4] = KeyShare("user")
  BY DEF Script, RevokeInvite, LockWorkspace
<1>2. \A k \in 0..3 : Ascends("revoke", k)
  BY <1>1 DEF Ascends, Rank, Level, Until, Guarded, Update, NoKeyUpdate, Share, KeyShare, Lock
<1> QED
  BY <1>1, <1>2 DEF Sound, UnderWorkspace, UnderSession, Guarded, States, Locks, Rows, Modes,
     Update, NoKeyUpdate, Share, KeyShare, Lock

LEMMA Sound_replace == Sound("replace")
<1>1. /\ Len(Script["replace"]) = 4
      /\ Script["replace"][1] = Update("workspace")
      /\ Script["replace"][2] = Update("invite")
      /\ Script["replace"][3] = NoKeyUpdate("inviteLink")
      /\ Script["replace"][4] = KeyShare("user")
  BY DEF Script, ReplaceInvite, LockWorkspace
<1>2. \A k \in 0..3 : Ascends("replace", k)
  BY <1>1 DEF Ascends, Rank, Level, Until, Guarded, Update, NoKeyUpdate, Share, KeyShare, Lock
<1> QED
  BY <1>1, <1>2 DEF Sound, UnderWorkspace, UnderSession, Guarded, States, Locks, Rows, Modes,
     Update, NoKeyUpdate, Share, KeyShare, Lock

LEMMA Sound_accept == Sound("accept")
<1>1. /\ Len(Script["accept"]) = 3
      /\ Script["accept"][1] = Update("workspace")
      /\ Script["accept"][2] = Update("invite")
      /\ Script["accept"][3] = KeyShare("user")
  BY DEF Script, AcceptInvite, LockWorkspace
<1>2. \A k \in 0..2 : Ascends("accept", k)
  BY <1>1 DEF Ascends, Rank, Level, Until, Guarded, Update, NoKeyUpdate, Share, KeyShare, Lock
<1> QED
  BY <1>1, <1>2 DEF Sound, UnderWorkspace, UnderSession, Guarded, States, Locks, Rows, Modes,
     Update, NoKeyUpdate, Share, KeyShare, Lock

LEMMA Sound_confirmInvite == Sound("confirmInvite")
<1>1. /\ Len(Script["confirmInvite"]) = 4
      /\ Script["confirmInvite"][1] = Update("workspace")
      /\ Script["confirmInvite"][2] = Update("inviteLink")
      /\ Script["confirmInvite"][3] = NoKeyUpdate("user")
      /\ Script["confirmInvite"][4] = Update("invite")
  BY DEF Script, ConfirmInvitation, LockWorkspace
<1>2. \A k \in 0..3 : Ascends("confirmInvite", k)
  BY <1>1 DEF Ascends, Rank, Level, Until, Guarded, Update, NoKeyUpdate, Share, KeyShare, Lock
<1> QED
  BY <1>1, <1>2 DEF Sound, UnderWorkspace, UnderSession, Guarded, States, Locks, Rows, Modes,
     Update, NoKeyUpdate, Share, KeyShare, Lock

LEMMA Sound_setup == Sound("setup")
<1>1. /\ Len(Script["setup"]) = 3
      /\ Script["setup"][1] = Update("workspace")
      /\ Script["setup"][2] = Share("session")
      /\ Script["setup"][3] = KeyShare("user")
  BY DEF Script, CreateSetup, LockWorkspace
<1>2. \A k \in 0..2 : Ascends("setup", k)
  BY <1>1 DEF Ascends, Rank, Level, Until, Guarded, Update, NoKeyUpdate, Share, KeyShare, Lock
<1> QED
  BY <1>1, <1>2 DEF Sound, UnderWorkspace, UnderSession, Guarded, States, Locks, Rows, Modes,
     Update, NoKeyUpdate, Share, KeyShare, Lock

LEMMA Sound_start == Sound("start")
<1>1. /\ Len(Script["start"]) = 4
      /\ Script["start"][1] = Update("workspace")
      /\ Script["start"][2] = Share("session")
      /\ Script["start"][3] = Update("setup")
      /\ Script["start"][4] = KeyShare("user")
  BY DEF Script, StartInstallation, LockWorkspace
<1>2. \A k \in 0..3 : Ascends("start", k)
  BY <1>1 DEF Ascends, Rank, Level, Until, Guarded, Update, NoKeyUpdate, Share, KeyShare, Lock
<1> QED
  BY <1>1, <1>2 DEF Sound, UnderWorkspace, UnderSession, Guarded, States, Locks, Rows, Modes,
     Update, NoKeyUpdate, Share, KeyShare, Lock

LEMMA Sound_bind == Sound("bind")
<1>1. /\ Len(Script["bind"]) = 6
      /\ Script["bind"][1] = Update("workspace")
      /\ Script["bind"][2] = Share("session")
      /\ Script["bind"][3] = Update("setup")
      /\ Script["bind"][4] = Update("authorization")
      /\ Script["bind"][5] = Update("installationId")
      /\ Script["bind"][6] = Update("installation")
  BY DEF Script, BindInstallation, LockWorkspace
<1>2. \A k \in 0..5 : Ascends("bind", k)
  BY <1>1 DEF Ascends, Rank, Level, Until, Guarded, Update, NoKeyUpdate, Share, KeyShare, Lock
<1> QED
  BY <1>1, <1>2 DEF Sound, UnderWorkspace, UnderSession, Guarded, States, Locks, Rows, Modes,
     Update, NoKeyUpdate, Share, KeyShare, Lock

LEMMA Sound_sync == Sound("sync")
<1>1. /\ Len(Script["sync"]) = 2
      /\ Script["sync"][1] = Update("workspace")
      /\ Script["sync"][2] = Update("installation")
  BY DEF Script, RequestSync, LockWorkspace
<1>2. \A k \in 0..1 : Ascends("sync", k)
  BY <1>1 DEF Ascends, Rank, Level, Until, Guarded, Update, NoKeyUpdate, Share, KeyShare, Lock
<1> QED
  BY <1>1, <1>2 DEF Sound, UnderWorkspace, UnderSession, Guarded, States, Locks, Rows, Modes,
     Update, NoKeyUpdate, Share, KeyShare, Lock

LEMMA Sound_event == Sound("event")
<1>1. /\ Len(Script["event"]) = 3
      /\ Script["event"][1] = Update("workspace")
      /\ Script["event"][2] = Update("installationId")
      /\ Script["event"][3] = Update("installation")
  BY DEF Script, InstallationEvent, LockWorkspace
<1>2. \A k \in 0..2 : Ascends("event", k)
  BY <1>1 DEF Ascends, Rank, Level, Until, Guarded, Update, NoKeyUpdate, Share, KeyShare, Lock
<1> QED
  BY <1>1, <1>2 DEF Sound, UnderWorkspace, UnderSession, Guarded, States, Locks, Rows, Modes,
     Update, NoKeyUpdate, Share, KeyShare, Lock

LEMMA Sound_repos == Sound("repos")
<1>1. /\ Len(Script["repos"]) = 2
      /\ Script["repos"][1] = Update("workspace")
      /\ Script["repos"][2] = Update("installation")
  BY DEF Script, ApplyRepos, LockWorkspace
<1>2. \A k \in 0..1 : Ascends("repos", k)
  BY <1>1 DEF Ascends, Rank, Level, Until, Guarded, Update, NoKeyUpdate, Share, KeyShare, Lock
<1> QED
  BY <1>1, <1>2 DEF Sound, UnderWorkspace, UnderSession, Guarded, States, Locks, Rows, Modes,
     Update, NoKeyUpdate, Share, KeyShare, Lock

LEMMA Sound_evidence == Sound("evidence")
<1>1. /\ Len(Script["evidence"]) = 3
      /\ Script["evidence"][1] = Update("workspace")
      /\ Script["evidence"][2] = Update("installation")
      /\ Script["evidence"][3] = NoKeyUpdate("pullRequest")
  BY DEF Script, WithActiveRepo, LockWorkspace
<1>2. \A k \in 0..2 : Ascends("evidence", k)
  BY <1>1 DEF Ascends, Rank, Level, Until, Guarded, Update, NoKeyUpdate, Share, KeyShare, Lock
<1> QED
  BY <1>1, <1>2 DEF Sound, UnderWorkspace, UnderSession, Guarded, States, Locks, Rows, Modes,
     Update, NoKeyUpdate, Share, KeyShare, Lock

LEMMA Sound_image == Sound("image")
<1>1. /\ Len(Script["image"]) = 5
      /\ Script["image"][1] = Update("workspace")
      /\ Script["image"][2] = Update("imageQuota")
      /\ Script["image"][3] = Share("membership")
      /\ Script["image"][4] = Share("projectToken")
      /\ Script["image"][5] = KeyShare("user")
  BY DEF Script, CreateImage, LockWorkspace
<1>2. \A k \in 0..4 : Ascends("image", k)
  BY <1>1 DEF Ascends, Rank, Level, Until, Guarded, Update, NoKeyUpdate, Share, KeyShare, Lock
<1> QED
  BY <1>1, <1>2 DEF Sound, UnderWorkspace, UnderSession, Guarded, States, Locks, Rows, Modes,
     Update, NoKeyUpdate, Share, KeyShare, Lock

LEMMA Sound_unowned == Sound("unowned")
<1>1. /\ Len(Script["unowned"]) = 2
      /\ Script["unowned"][1] = Update("installationId")
      /\ Script["unowned"][2] = Update("installation")
  BY DEF Script, UnownedEvent
<1>2. \A k \in 0..1 : Ascends("unowned", k)
  BY <1>1 DEF Ascends, Rank, Level, Until, Guarded, Update, NoKeyUpdate, Share, KeyShare, Lock
<1> QED
  BY <1>1, <1>2 DEF Sound, UnderWorkspace, UnderSession, Guarded, States, Locks, Rows, Modes,
     Update, NoKeyUpdate, Share, KeyShare, Lock

LEMMA Sound_issueLink == Sound("issueLink")
<1>1. /\ Len(Script["issueLink"]) = 3
      /\ Script["issueLink"][1] = Update("loginEmail")
      /\ Script["issueLink"][2] = Update("loginIP")
      /\ Script["issueLink"][3] = KeyShare("invite")
  BY DEF Script, IssueInviteLink
<1>2. \A k \in 0..2 : Ascends("issueLink", k)
  BY <1>1 DEF Ascends, Rank, Level, Until, Guarded, Update, NoKeyUpdate, Share, KeyShare, Lock
<1> QED
  BY <1>1, <1>2 DEF Sound, UnderWorkspace, UnderSession, Guarded, States, Locks, Rows, Modes,
     Update, NoKeyUpdate, Share, KeyShare, Lock

LEMMA Sound_logout == Sound("logout")
<1>1. /\ Len(Script["logout"]) = 4
      /\ Script["logout"][1] = Update("session")
      /\ Script["logout"][2] = Update("setup")
      /\ Script["logout"][3] = Update("authorization")
      /\ Script["logout"][4] = Update("linkAuthorization")
  BY DEF Script, Logout
<1>2. \A k \in 0..3 : Ascends("logout", k)
  BY <1>1 DEF Ascends, Rank, Level, Until, Guarded, Update, NoKeyUpdate, Share, KeyShare, Lock
<1> QED
  BY <1>1, <1>2 DEF Sound, UnderWorkspace, UnderSession, Guarded, States, Locks, Rows, Modes,
     Update, NoKeyUpdate, Share, KeyShare, Lock

LEMMA Sound_authorize == Sound("authorize")
<1>1. /\ Len(Script["authorize"]) = 3
      /\ Script["authorize"][1] = Share("session")
      /\ Script["authorize"][2] = KeyShare("user")
      /\ Script["authorize"][3] = KeyShare("workspace")
  BY DEF Script, AuthorizeLink
<1>2. \A k \in 0..2 : Ascends("authorize", k)
  BY <1>1 DEF Ascends, Rank, Level, Until, Guarded, Update, NoKeyUpdate, Share, KeyShare, Lock
<1> QED
  BY <1>1, <1>2 DEF Sound, UnderWorkspace, UnderSession, Guarded, States, Locks, Rows, Modes,
     Update, NoKeyUpdate, Share, KeyShare, Lock

LEMMA Sound_claimLink == Sound("claimLink")
<1>1. /\ Len(Script["claimLink"]) = 2
      /\ Script["claimLink"][1] = Share("session")
      /\ Script["claimLink"][2] = Update("linkAuthorization")
  BY DEF Script, ClaimAuthorization
<1>2. \A k \in 0..1 : Ascends("claimLink", k)
  BY <1>1 DEF Ascends, Rank, Level, Until, Guarded, Update, NoKeyUpdate, Share, KeyShare, Lock
<1> QED
  BY <1>1, <1>2 DEF Sound, UnderWorkspace, UnderSession, Guarded, States, Locks, Rows, Modes,
     Update, NoKeyUpdate, Share, KeyShare, Lock

LEMMA Sound_claimSetup == Sound("claimSetup")
<1>1. /\ Len(Script["claimSetup"]) = 2
      /\ Script["claimSetup"][1] = Share("session")
      /\ Script["claimSetup"][2] = Update("authorization")
  BY DEF Script, ClaimAuthorization
<1>2. \A k \in 0..1 : Ascends("claimSetup", k)
  BY <1>1 DEF Ascends, Rank, Level, Until, Guarded, Update, NoKeyUpdate, Share, KeyShare, Lock
<1> QED
  BY <1>1, <1>2 DEF Sound, UnderWorkspace, UnderSession, Guarded, States, Locks, Rows, Modes,
     Update, NoKeyUpdate, Share, KeyShare, Lock

LEMMA Sound_linkProfile == Sound("linkProfile")
<1>1. /\ Len(Script["linkProfile"]) = 4
      /\ Script["linkProfile"][1] = Update("identityMutation")
      /\ Script["linkProfile"][2] = Share("session")
      /\ Script["linkProfile"][3] = Update("linkAuthorization")
      /\ Script["linkProfile"][4] = Update("user")
  BY DEF Script, LinkProfile
<1>2. \A k \in 0..3 : Ascends("linkProfile", k)
  BY <1>1 DEF Ascends, Rank, Level, Until, Guarded, Update, NoKeyUpdate, Share, KeyShare, Lock
<1> QED
  BY <1>1, <1>2 DEF Sound, UnderWorkspace, UnderSession, Guarded, States, Locks, Rows, Modes,
     Update, NoKeyUpdate, Share, KeyShare, Lock

LEMMA Sound_unlinkProfile == Sound("unlinkProfile")
<1>1. /\ Len(Script["unlinkProfile"]) = 3
      /\ Script["unlinkProfile"][1] = Update("identityMutation")
      /\ Script["unlinkProfile"][2] = Share("session")
      /\ Script["unlinkProfile"][3] = Update("user")
  BY DEF Script, UnlinkProfile
<1>2. \A k \in 0..2 : Ascends("unlinkProfile", k)
  BY <1>1 DEF Ascends, Rank, Level, Until, Guarded, Update, NoKeyUpdate, Share, KeyShare, Lock
<1> QED
  BY <1>1, <1>2 DEF Sound, UnderWorkspace, UnderSession, Guarded, States, Locks, Rows, Modes,
     Update, NoKeyUpdate, Share, KeyShare, Lock

LEMMA Sound_approve == Sound("approve")
<1>1. /\ Len(Script["approve"]) = 3
      /\ Script["approve"][1] = Update("cliSession")
      /\ Script["approve"][2] = KeyShare("user")
      /\ Script["approve"][3] = KeyShare("workspace")
  BY DEF Script, ApproveCLISession
<1>2. \A k \in 0..2 : Ascends("approve", k)
  BY <1>1 DEF Ascends, Rank, Level, Until, Guarded, Update, NoKeyUpdate, Share, KeyShare, Lock
<1> QED
  BY <1>1, <1>2 DEF Sound, UnderWorkspace, UnderSession, Guarded, States, Locks, Rows, Modes,
     Update, NoKeyUpdate, Share, KeyShare, Lock

LEMMA Sound_collect == Sound("collect")
<1>1. /\ Len(Script["collect"]) = 4
      /\ Script["collect"][1] = Update("cliSession")
      /\ Script["collect"][2] = Update("tokenQuota")
      /\ Script["collect"][3] = KeyShare("user")
      /\ Script["collect"][4] = KeyShare("workspace")
  BY DEF Script, CollectToken
<1>2. \A k \in 0..3 : Ascends("collect", k)
  BY <1>1 DEF Ascends, Rank, Level, Until, Guarded, Update, NoKeyUpdate, Share, KeyShare, Lock
<1> QED
  BY <1>1, <1>2 DEF Sound, UnderWorkspace, UnderSession, Guarded, States, Locks, Rows, Modes,
     Update, NoKeyUpdate, Share, KeyShare, Lock

LEMMA Sound_rotateToken == Sound("rotateToken")
<1>1. /\ Len(Script["rotateToken"]) = 3
      /\ Script["rotateToken"][1] = Update("setupToken")
      /\ Script["rotateToken"][2] = Share("membership")
      /\ Script["rotateToken"][3] = Update("projectToken")
  BY DEF Script, RotateProjectToken
<1>2. \A k \in 0..2 : Ascends("rotateToken", k)
  BY <1>1 DEF Ascends, Rank, Level, Until, Guarded, Update, NoKeyUpdate, Share, KeyShare, Lock
<1> QED
  BY <1>1, <1>2 DEF Sound, UnderWorkspace, UnderSession, Guarded, States, Locks, Rows, Modes,
     Update, NoKeyUpdate, Share, KeyShare, Lock

LEMMA Sound_deleteSetup == Sound("deleteSetup")
<1>1. /\ Len(Script["deleteSetup"]) = 2
      /\ Script["deleteSetup"][1] = Update("setupToken")
      /\ Script["deleteSetup"][2] = Update("projectToken")
  BY DEF Script, DeleteSetupToken
<1>2. \A k \in 0..1 : Ascends("deleteSetup", k)
  BY <1>1 DEF Ascends, Rank, Level, Until, Guarded, Update, NoKeyUpdate, Share, KeyShare, Lock
<1> QED
  BY <1>1, <1>2 DEF Sound, UnderWorkspace, UnderSession, Guarded, States, Locks, Rows, Modes,
     Update, NoKeyUpdate, Share, KeyShare, Lock

LEMMA Sound_deleteToken == Sound("deleteToken")
<1>1. /\ Len(Script["deleteToken"]) = 2
      /\ Script["deleteToken"][1] = Update("projectToken")
      /\ Script["deleteToken"][2] = Update("collectedSession")
  BY DEF Script, DeleteProjectToken
<1>2. \A k \in 0..1 : Ascends("deleteToken", k)
  BY <1>1 DEF Ascends, Rank, Level, Until, Guarded, Update, NoKeyUpdate, Share, KeyShare, Lock
<1> QED
  BY <1>1, <1>2 DEF Sound, UnderWorkspace, UnderSession, Guarded, States, Locks, Rows, Modes,
     Update, NoKeyUpdate, Share, KeyShare, Lock

LEMMA AllSound == \A op \in Orderly : Sound(op)
BY Sound_write, Sound_role, Sound_remove, Sound_revoke,
   Sound_replace, Sound_accept, Sound_confirmInvite, Sound_setup,
   Sound_start, Sound_bind, Sound_sync, Sound_event,
   Sound_repos, Sound_evidence, Sound_image, Sound_unowned,
   Sound_issueLink, Sound_logout, Sound_authorize, Sound_claimLink,
   Sound_claimSetup, Sound_linkProfile, Sound_unlinkProfile, Sound_approve,
   Sound_collect, Sound_rotateToken, Sound_deleteSetup, Sound_deleteToken
   DEF Orderly

(***************************************************************************)
(* Locks that conflict are never held together.                            *)
(***************************************************************************)

ConflictFree ==
  \A t, u \in Txns : t # u =>
    \A h \in Held(t), g \in Held(u) : h.row = g.row => ~Conflicts(h.mode, g.mode)

OInv == TypeOK /\ ConflictFree

LEMMA ConflictsCommute == \A m, n : Conflicts(m, n) <=> Conflicts(n, m)
BY DEF Conflicts

LEMMA HeldNothing ==
  ASSUME NEW t, txn[t].taken = 0
  PROVE  Held(t) = {}
BY DEF Held

\* What a step leaves alone keeps its locks; who begins or ends has none.
LEMMA HeldElsewhere ==
  ASSUME TypeOK, NEW t \in Txns, NEW row, txn' = [txn EXCEPT ![t] = row],
         NEW u \in Txns, u # t
  PROVE  Held(u)' = Held(u)
BY DEF TypeOK, Held

LEMMA ConflictInit == Init => ConflictFree
BY DEF Init, ConflictFree, Held, Idle

\* Who has no lock conflicts with nobody.
LEMMA ConflictDrop ==
  ASSUME OInv, NEW t \in Txns, NEW row, row.taken = 0,
         txn' = [txn EXCEPT ![t] = row]
  PROVE  ConflictFree'
<1>1. Held(t)' = {}
  BY DEF Held, OInv, TypeOK
<1>2. \A u \in Txns : u # t => Held(u)' = Held(u)
  BY HeldElsewhere DEF OInv
<1> SUFFICES ASSUME NEW a \in Txns, NEW b \in Txns, a # b,
                    NEW h \in Held(a)', NEW g \in Held(b)', h.row = g.row
             PROVE  ~Conflicts(h.mode, g.mode)
  BY DEF ConflictFree
<1>3. a # t /\ b # t
  BY <1>1
<1> QED
  BY <1>2, <1>3 DEF OInv, ConflictFree

\* A lock is only taken when nobody holds one it conflicts with.
LEMMA ConflictAcquire ==
  ASSUME OInv, NEW t \in Txns, Acquire(t)
  PROVE  ConflictFree'
<1>1. /\ Waiting(t) /\ \A u \in Txns : ~Blocks(u, t)
      /\ txn[t].op \in Ops /\ txn[t].taken \in Nat
      /\ txn' = [txn EXCEPT ![t].taken = @ + 1]
  BY DEF Acquire, Waiting, Busy, Idle, OInv, TypeOK
<1>2. txn' = [txn EXCEPT ![t] = [op |-> txn[t].op, taken |-> txn[t].taken + 1]]
  <2>1. txn[t] \in {Idle} \cup [op : Ops, taken : Nat]
    BY DEF OInv, TypeOK
  <2>2. [txn[t] EXCEPT !.taken = @ + 1] = [op |-> txn[t].op, taken |-> txn[t].taken + 1]
    BY <2>1 DEF Idle
  <2> QED
    BY <1>1, <2>2
<1>3. Held(t)' = Held(t) \cup {Wanted(t)}
  <2>1. txn'[t].op = txn[t].op /\ txn'[t].taken = txn[t].taken + 1
    BY <1>2 DEF OInv, TypeOK
  <2>2. 1..(txn[t].taken + 1) = 1..txn[t].taken \cup {txn[t].taken + 1}
    BY <1>1
  <2> QED
    BY <2>1, <2>2 DEF Held, Wanted
<1>4. \A u \in Txns : u # t => Held(u)' = Held(u)
  BY <1>2, HeldElsewhere DEF OInv
<1>5. \A u \in Txns : u # t =>
        \A g \in Held(u) : g.row = Wanted(t).row => ~Conflicts(g.mode, Wanted(t).mode)
  <2>1. ASSUME NEW u \in Txns, u # t, NEW g \in Held(u)
        PROVE  Busy(u)
    BY <2>1, NoneIsNoOperation, HeldNothing DEF Busy, OInv, TypeOK, Idle
  <2> QED
    BY <1>1, <2>1 DEF Blocks
<1> SUFFICES ASSUME NEW a \in Txns, NEW b \in Txns, a # b,
                    NEW h \in Held(a)', NEW g \in Held(b)', h.row = g.row
             PROVE  ~Conflicts(h.mode, g.mode)
  BY DEF ConflictFree
<1>6. CASE a # t /\ b # t
  BY <1>4, <1>6 DEF OInv, ConflictFree
<1>7. CASE a = t
  <2>1. b # t /\ g \in Held(b)
    BY <1>4, <1>7
  <2>2. CASE h \in Held(t)
    BY <1>7, <2>1, <2>2 DEF OInv, ConflictFree
  <2>3. CASE h = Wanted(t)
    BY <1>5, <2>1, <2>3, ConflictsCommute
  <2> QED
    BY <1>3, <1>7, <2>2, <2>3
<1>8. CASE b = t
  <2>1. a # t /\ h \in Held(a)
    BY <1>4, <1>8
  <2>2. CASE g \in Held(t)
    BY <1>8, <2>1, <2>2 DEF OInv, ConflictFree
  <2>3. CASE g = Wanted(t)
    BY <1>5, <2>1, <2>3
  <2> QED
    BY <1>3, <1>8, <2>2, <2>3
<1> QED
  BY <1>6, <1>7, <1>8

LEMMA ConflictNext == OInv /\ [Next]_txn => ConflictFree'
<1> SUFFICES ASSUME OInv, [Next]_txn PROVE ConflictFree'
  OBVIOUS
<1>1. ASSUME NEW t \in Txns, Begin(t) PROVE ConflictFree'
  <2>1. PICK op \in Ops : txn' = [txn EXCEPT ![t] = Begun(op)]
    BY <1>1 DEF Begin
  <2> QED
    BY <2>1, ConflictDrop DEF Begun
<1>2. ASSUME NEW t \in Txns, Acquire(t) PROVE ConflictFree'
  BY <1>2, ConflictAcquire
<1>3. ASSUME NEW t \in Txns, End(t) PROVE ConflictFree'
  BY <1>3, ConflictDrop DEF End, Idle
<1>4. CASE UNCHANGED txn
  BY <1>4 DEF OInv, ConflictFree, Held
<1> QED
  BY <1>1, <1>2, <1>3, <1>4 DEF Next

(***************************************************************************)
(* Who waits is above whom it waits for.                                   *)
(***************************************************************************)

\* The rank of a transaction's stage.
RankOf(t) == Rank(txn[t].op, txn[t].taken)

LEMMA LevelType == \A lock : Level(lock) \in 0..10
BY DEF Level

LEMMA RankType == \A t : RankOf(t) \in Nat
BY LevelType DEF RankOf, Rank

\* No lock that conflicts with a held one has a lower level than it says.
LEMMA UntilIsLeast ==
  ASSUME NEW held \in Locks, NEW wanted \in Locks, held.row = wanted.row,
         Conflicts(held.mode, wanted.mode)
  PROVE  Until(held) <= Level(wanted)
BY DEF Until, Level, Conflicts, Locks, Rows, Modes, KeyShare, Share, Lock

\* A waiting transaction of a sound operation, and what it holds.
LEMMA WaitingIsSound ==
  ASSUME Ops \subseteq Orderly, TypeOK, NEW t \in Txns, Waiting(t)
  PROVE  /\ txn[t].op \in Orderly /\ Busy(t)
         /\ Sound(txn[t].op)
         /\ txn[t].taken \in 0..(Len(Script[txn[t].op]) - 1)
         /\ \A k \in 1..txn[t].taken : Script[txn[t].op][k] \in Held(t)
<1>1. txn[t].op \in Ops /\ txn[t].taken \in Nat /\ Busy(t)
  BY NoneIsNoOperation DEF TypeOK, Waiting, Busy, Idle
<1>2. Len(Script[txn[t].op]) \in Nat
  BY <1>1, ScriptType, OpsAssumption
<1> QED
  BY <1>1, <1>2, AllSound DEF Waiting, Held

LEMMA WantedIsLock ==
  ASSUME Ops \subseteq Orderly, TypeOK, NEW t \in Txns, Waiting(t)
  PROVE  Wanted(t) \in Locks /\ Wanted(t) # Share("user")
BY WaitingIsSound DEF Sound, Wanted

LEMMA HeldIsLock ==
  ASSUME TypeOK, NEW t \in Txns, NEW h \in Held(t)
  PROVE  h \in Locks
<1>1. txn[t].op \in Ops /\ txn[t].taken <= Len(Script[txn[t].op]) /\ txn[t].taken \in Nat
  BY NoneIsNoOperation, HeldNothing DEF TypeOK, Busy, Idle
<1>2. Script[txn[t].op] \in Seq(Locks)
  BY <1>1, ScriptType, OpsAssumption
<1> QED
  BY <1>1, <1>2 DEF Held

\* Both cannot hold the workspace.
LEMMA WorkspaceExcludes ==
  ASSUME OInv, NEW t \in Txns, NEW u \in Txns, t # u,
         Update("workspace") \in Held(t)
  PROVE  Update("workspace") \notin Held(u)
BY DEF OInv, ConflictFree, Conflicts, Update, Lock

\* Nor one a session to delete it, and the other a state of it.
LEMMA SessionExcludes ==
  ASSUME OInv, NEW t \in Txns, NEW u \in Txns, t # u,
         Update("session") \in Held(t)
  PROVE  Update("session") \notin Held(u) /\ Share("session") \notin Held(u)
BY DEF OInv, ConflictFree, Conflicts, Update, Share, Lock

LEMMA LogoutNeverWaits ==
  ASSUME Ops \subseteq Orderly, OInv, NEW t \in Txns, NEW u \in Txns,
         Blocks(u, t), Waiting(u), txn[t].op = "logout"
  PROVE  txn[t].taken = 0
<1> SUFFICES ASSUME txn[t].taken # 0 PROVE FALSE
  OBVIOUS
<1>1. /\ t # u /\ Waiting(t)
      /\ \E h \in Held(u) : h.row = Wanted(t).row
  BY DEF Blocks
<1>2. txn[t].taken \in 1..3
  <2>1. Len(Script["logout"]) = 4
    BY DEF Script, Logout
  <2>2. txn[t].taken \in 0..(Len(Script[txn[t].op]) - 1)
    BY <1>1, WaitingIsSound DEF OInv
  <2>3. Len(Script[txn[t].op]) = 4
    BY <2>1
  <2> QED
    BY <2>2, <2>3
<1>3. /\ Wanted(t).row \in States
      /\ Update("session") \in Held(t)
  BY <1>2 DEF Wanted, Held, Script, Logout, States, Update, Lock
<1>4. \E j \in 1..txn[u].taken : Script[txn[u].op][j].row \in States
  BY <1>1, <1>3 DEF Held
<1>5. \E i \in 1..txn[u].taken : Script[txn[u].op][i] \in {Share("session"), Update("session")}
  BY <1>4, WaitingIsSound DEF OInv, Sound, UnderSession
<1>6. Share("session") \in Held(u) \/ Update("session") \in Held(u)
  BY <1>5 DEF Held
<1> QED
  BY <1>1, <1>3, <1>6, SessionExcludes

LEMMA WaitsDescend ==
  ASSUME Ops \subseteq Orderly, OInv, NEW t \in Txns, NEW u \in Txns,
         Blocks(u, t), Waiting(u)
  PROVE  RankOf(u) < RankOf(t)
<1>1. u # t /\ Waiting(t)
  BY DEF Blocks
<1>2. PICK h \in Held(u) : h.row = Wanted(t).row /\ Conflicts(h.mode, Wanted(t).mode)
  BY DEF Blocks
<1>3. h \in Locks /\ Wanted(t) \in Locks /\ Wanted(t) # Share("user")
  BY <1>1, WantedIsLock, HeldIsLock DEF OInv
<1>4. RankOf(t) = Level(Wanted(t))
  BY LogoutNeverWaits DEF RankOf, Rank, Wanted
<1>5. \/ RankOf(u) < Until(h)
      \/ Guarded(h) /\ Update("workspace") \in Held(u) /\ RankOf(u) < 7
  <2>1. PICK k \in 1..txn[u].taken : h = Script[txn[u].op][k]
    BY DEF Held
  <2>2. Ascends(txn[u].op, txn[u].taken)
    BY WaitingIsSound DEF OInv, Sound
  <2>3. txn[u].taken \in Nat /\ (1 \in 1..txn[u].taken => Script[txn[u].op][1] \in Held(u))
    BY WaitingIsSound DEF OInv
  <2> QED
    BY <2>1, <2>2, <2>3 DEF Ascends, RankOf
<1>6. CASE RankOf(u) < Until(h)
  <2>1. Until(h) <= Level(Wanted(t))
    BY <1>2, <1>3, UntilIsLeast
  <2>2. Until(h) \in Nat /\ Level(Wanted(t)) \in Nat
    BY LevelType DEF Until
  <2> QED
    BY <1>4, <1>6, <2>1, <2>2, RankType
<1>7. CASE Guarded(h) /\ Update("workspace") \in Held(u) /\ RankOf(u) < 7
  <2>1. Guarded(Wanted(t)) => Update("workspace") \in Held(t)
    <3>1. UnderWorkspace(txn[t].op, txn[t].taken) /\ txn[t].taken \in Nat
      BY <1>1, WaitingIsSound DEF OInv, Sound
    <3>2. txn[t].taken > 0 => Script[txn[t].op][1] \in Held(t)
      BY <1>1, <3>1, WaitingIsSound DEF OInv
    <3> QED
      BY <3>1, <3>2 DEF UnderWorkspace, Wanted
  <2>2. ~Guarded(Wanted(t))
    BY <1>1, <1>7, <2>1, WorkspaceExcludes
  <2>3. Wanted(t) = Update("user")
    BY <1>2, <1>3, <1>7, <2>2
       DEF Guarded, Conflicts, Locks, Modes, NoKeyUpdate, Share, Update, Lock
  <2>4. Level(Wanted(t)) = 8
    BY <2>3 DEF Level, Update, Lock
  <2> QED
    BY <1>4, <1>7, <2>4, RankType
<1> QED
  BY <1>5, <1>6, <1>7

\* A set of transactions has one of least rank.
LEMMA LeastRank ==
  ASSUME NEW set, set # {}
  PROVE  \E t \in set : \A u \in set : ~(RankOf(u) < RankOf(t))
<1> DEFINE ranks == {RankOf(t) : t \in set}
<1>1. ranks \subseteq Nat /\ ranks # {}
  BY RankType
<1>2. PICK x \in ranks : \A y \in ranks : <<y, x>> \notin OpToRel(<, Nat)
  BY <1>1, NatLessThanWellFounded, WFMin, Zenon
<1>3. \A y \in ranks : ~(y < x)
  BY <1>1, <1>2 DEF OpToRel
<1> QED
  BY <1>3

LEMMA RankedIsFree ==
  ASSUME Ops \subseteq Orderly, OInv PROVE NoDeadlock
<1> SUFFICES ASSUME NEW set \in (SUBSET Txns) \ {{}}
             PROVE  \E t \in set : \A u \in set : ~Blocks(u, t)
  BY Zenon DEF NoDeadlock
<1>1. CASE \E t \in set : ~Waiting(t)
  BY <1>1 DEF Blocks
<1>2. CASE \A t \in set : Waiting(t)
  <2>1. PICK t \in set : \A u \in set : ~(RankOf(u) < RankOf(t))
    BY LeastRank
  <2>2. \A u \in set : ~Blocks(u, t)
    BY <1>2, <2>1, WaitsDescend
  <2> QED
    BY <2>2
<1> QED
  BY <1>1, <1>2

\* workspace.go, LockWorkspaceAdminTx: "Integration binding must use the
\* same workspace-first order".  The sign-ins, webhooks, GitHub links and
\* tokens that lock the workspace late or never do not make a circle with
\* those that do either, however many of them run at once.
THEOREM OrderlyIsSafe ==
  ASSUME Ops \subseteq Orderly
  PROVE  Spec => []NoDeadlock
<1>1. Init => OInv
  BY TypeInit, ConflictInit DEF OInv
<1>2. OInv /\ [Next]_txn => OInv'
  BY TypeNext, ConflictNext DEF OInv
<1>3. OInv => NoDeadlock
  BY RankedIsFree
<1> QED
  BY <1>1, <1>2, <1>3, PTL DEF Spec

=============================================================================
