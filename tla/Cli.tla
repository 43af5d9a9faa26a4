-------------------------------- MODULE Cli --------------------------------
(***************************************************************************)
(* API keys: the device flow by which a command line obtains one, the keys *)
(* the server issues, rotates and deletes, and the copies that commands    *)
(* keep on one machine (store/cli_session.go, store/api_token.go,          *)
(* api/cli_auth.go, cli/internal/config, cli/cmd/velvet).                  *)
(*                                                                         *)
(* Every process runs one command on the same machine, server, directory   *)
(* and project.  Each read or write of the credential store is one step:   *)
(* the file is replaced under a lock, a keychain entry by itself.  The     *)
(* server takes two steps to issue a key, between which it holds locks.    *)
(***************************************************************************)
EXTENDS Integers, FiniteSets

CONSTANTS
  Users,
  Processes,
  None,
  Limit,      \* apiTokenLimit, 20 in the code
  MaxKeys,    \* bound: keys issued
  MaxFaults   \* bound: failed writes, lost answers, crashes

\* Two keys is what a login and an init hold.
ASSUME LimitAssumption == Limit \in Nat /\ Limit >= 2
ASSUME BoundsAssumption == MaxKeys \in Nat /\ MaxFaults \in Nat

VARIABLES
  live,     \* the api_token rows
  issued,   \* keys issued so far; 0 stands for no key
  writer,   \* writer[u]: u may write to the project, and it is active
  session,  \* session[p]: the cli_session that p started
  txn,      \* txn[p]: the locks of a request of p that is issuing a key
  slot,     \* slot[s]: the key stored on the machine
  active,   \* active[kind]: the account of the last login
  tracked,  \* tracked[u]: hash of the project key that a login of u issued
  proc,     \* proc[p]: a command and its local variables
  faults

vars == <<live, issued, writer, session, txn, slot, active, tracked, proc, faults>>

Kinds == {"setup", "personal", "project"}
Commands == {"login", "manage", "legacy", "init", "logout", "adminLogout"}

ASSUME NoneAssumption == None \notin Users \cup Processes \cup Commands

\* The kind of key that a command obtains or, at logout, gives back.
KindOf(cmd) == CASE cmd \in {"login", "logout"} -> "setup"
                 [] cmd \in {"manage", "adminLogout"} -> "personal"
                 [] cmd \in {"legacy", "init"} -> "project"

\* The login a command starts from: init uses the setup key.
LoginOf(cmd) == IF cmd = "init" THEN "setup" ELSE KindOf(cmd)

Project == <<"project", None>>
Slots == ({"setup", "personal"} \X Users) \cup {Project}
Key == [id: Nat, user: Users, kind: Kinds, parent: Nat, via: Processes \cup {None}]

NoSession == [state |-> "none", by |-> None]
NoTxn == [user |-> None, parent |-> 0, child |-> 0]
New == [cmd |-> None, pc |-> "new", account |-> None, user |-> None, with |-> 0, key |-> 0,
        old |-> 0, relink |-> FALSE, clean |-> TRUE]

Ids == {k.id : k \in live}
KeyOf(id) == CHOOSE k \in live : k.id = id
Works(id, u, kind) == \E k \in live : k.id = id /\ k.user = u /\ k.kind = kind
KeysOf(u) == {k \in live : k.user = u}
Children(id) == {k \in live : k.parent = id}

\* A machine where nobody signed in yet, or one where u did, and ran init.
SignedIn(u) ==
  /\ live = {[id |-> 1, user |-> u, kind |-> "setup", parent |-> 0, via |-> None],
             [id |-> 2, user |-> u, kind |-> "project", parent |-> 1, via |-> None]}
  /\ issued = 2
  /\ slot = [s \in Slots |-> IF s = <<"setup", u>> THEN 1 ELSE IF s = Project THEN 2 ELSE 0]
  /\ active = [kind \in {"setup", "personal"} |-> IF kind = "setup" THEN u ELSE None]
  /\ tracked = [v \in Users |-> IF v = u THEN 2 ELSE 0]

Fresh ==
  /\ live = {} /\ issued = 0
  /\ slot = [s \in Slots |-> 0]
  /\ active = [kind \in {"setup", "personal"} |-> None]
  /\ tracked = [v \in Users |-> 0]

Init ==
  /\ Fresh \/ \E u \in Users : SignedIn(u)
  /\ writer = [u \in Users |-> TRUE]
  /\ session = [p \in Processes |-> NoSession]
  /\ txn = [p \in Processes |-> NoTxn]
  /\ proc = [p \in Processes |-> New]
  /\ faults = 0

server == <<live, issued, session, txn>>
machine == <<slot, active, tracked>>

At(p, pc) == proc[p].pc = pc
Goto(p, pc) == proc' = [proc EXCEPT ![p].pc = pc]
Fault == faults < MaxFaults /\ faults' = faults + 1
Busy(p) == txn[p] # NoTxn

-----------------------------------------------------------------------------
(* The server.                                                             *)

\* IssueProjectToken holds the row of the setup key it issues from.
RowFree(id) == \A q \in Processes : Busy(q) => txn[q].parent # id

\* Mutant: the keys of a person are counted without the advisory lock.
KeyLockFree_Never(u) == TRUE

\* The advisory lock of createAPITokenTx, which a rotation does not take.
KeyLockFree(u) == \A q \in Processes : txn[q].user = u => txn[q].child # 0

CanCreate(u) == KeyLockFree(u) /\ Cardinality(KeysOf(u)) < Limit
Full(u) == KeyLockFree(u) /\ Cardinality(KeysOf(u)) >= Limit

\* Mutant: parent_id without ON DELETE CASCADE.
Deleted_Alone(id) == {k \in live : k.id # id}

\* Deleting a key deletes the keys it issued (parent_id ON DELETE CASCADE).
Deleted(id) == {k \in live : k.id # id /\ k.parent # id}

\* The next key; p is the process whose request it answers.
Mint(u, kind, parent, p) ==
  /\ issued' = issued + 1
  /\ live' = live \cup {[id |-> issued + 1, user |-> u, kind |-> kind, parent |-> parent,
                         via |-> p]}

\* Profile, API tokens: made and revoked in the browser.
CreateAPIToken(u) ==
  /\ issued < MaxKeys /\ CanCreate(u)
  /\ Mint(u, "personal", 0, None)
  /\ UNCHANGED <<writer, session, txn, machine, proc, faults>>

DeleteAPIToken(id) ==
  /\ id \in Ids /\ RowFree(id)
  /\ live' = Deleted(id)
  /\ UNCHANGED <<issued, writer, session, txn, machine, proc, faults>>

\* A role is taken or given back, the project archived or restored, once no
\* IssueProjectToken holds the membership and the project.
ChangeAccess(u) ==
  /\ \A q \in Processes : txn[q].user = u => txn[q].parent = 0
  /\ writer' = [writer EXCEPT ![u] = ~@]
  /\ UNCHANGED <<server, machine, proc, faults>>

\* Approving and denying update a pending row only, once no collection holds it.
\* The approver of a project key must have the role, the project need not be
\* active before the key is collected.  writer[u] is FALSE for want of either,
\* so u may be let through then.
Approvable(p) == session[p].state = "pending"

ApproveCLISession(p, u) ==
  /\ Approvable(p) /\ ~Busy(p)
  /\ session' = [session EXCEPT ![p] = [state |-> "approved", by |-> u]]
  /\ UNCHANGED <<live, issued, writer, txn, machine, proc, faults>>

\* Mutant: an approved or collected sign-in can be refused as well.
Deniable_Always(p) == session[p].state # "none"

Deniable(p) == session[p].state = "pending"

DenyCLISession(p) ==
  /\ Deniable(p) /\ ~Busy(p)
  /\ session' = [session EXCEPT ![p].state = "denied"]
  /\ UNCHANGED <<live, issued, writer, txn, machine, proc, faults>>

\* After ten minutes.
ExpireCLISession(p) ==
  /\ session[p].state \in {"pending", "approved"} /\ ~Busy(p)
  /\ session' = [session EXCEPT ![p].state = "expired"]
  /\ UNCHANGED <<live, issued, writer, txn, machine, proc, faults>>

-----------------------------------------------------------------------------
(* The beginning of a command: what it finds on the machine.               *)

SlotOf(p) == IF KindOf(proc[p].cmd) = "project" THEN Project
             ELSE <<KindOf(proc[p].cmd), proc[p].user>>

\* --account names an account, --relink accepts another account's project key.
Start(p, cmd, account, relink) ==
  /\ At(p, "new")
  /\ account # None => cmd \notin {"login", "legacy"}
  /\ relink => cmd = "init"
  /\ proc' = [proc EXCEPT ![p].cmd = cmd, ![p].account = account, ![p].user = account,
                          ![p].relink = relink,
                          ![p].pc = IF cmd = "legacy" THEN "device" ELSE "active"]
  /\ UNCHANGED <<server, writer, machine, faults>>

\* Where a command goes that has no login to start from.
Without(cmd) == CASE cmd \in {"login", "manage"} -> "device"
                  [] cmd = "init" -> "cached"
                  [] OTHER -> "failed"

ReadActive(p) ==
  /\ At(p, "active")
  /\ LET cmd == proc[p].cmd
         u == IF proc[p].account # None THEN proc[p].account ELSE active[LoginOf(cmd)]
     IN proc' = [proc EXCEPT ![p].user = u,
                             ![p].pc = IF u = None THEN Without(cmd) ELSE "stored"]
  /\ UNCHANGED <<server, writer, machine, faults>>

ReadStored(p) ==
  /\ At(p, "stored")
  /\ LET cmd == proc[p].cmd
         id == slot[<<LoginOf(cmd), proc[p].user>>]
     IN proc' = [proc EXCEPT ![p].with = id,
                             ![p].pc = CASE id = 0 -> Without(cmd)
                                         [] id # 0 /\ cmd = "init" -> "cached"
                                         [] id # 0 /\ cmd = "logout" -> "giveUp"
                                         [] OTHER -> "verify"]
  /\ UNCHANGED <<server, writer, machine, faults>>

\* GET /me with the stored login, which works only if it is its account's.
Verify(p) ==
  /\ At(p, "verify")
  /\ LET cmd == proc[p].cmd
         works == Works(proc[p].with, proc[p].user, LoginOf(cmd))
     IN Goto(p, CASE works /\ cmd \in {"login", "manage"} -> "done"
                  [] works /\ cmd = "init" -> "recheck"
                  [] works /\ cmd = "adminLogout" -> "giveUp"
                  [] OTHER -> IF cmd = "init" THEN "failed" ELSE Without(cmd))
  /\ UNCHANGED <<server, writer, machine, faults>>

ReadCached(p) ==
  /\ \/ At(p, "cached") /\ proc' = [proc EXCEPT ![p].old = slot[Project], ![p].pc = "compare"]
     \/ At(p, "recheck") /\ proc' = [proc EXCEPT ![p].old = slot[Project], ![p].pc = "recompare"]
  /\ UNCHANGED <<server, writer, machine, faults>>

\* init keeps a valid project key, of this account unless nobody is signed in;
\* it asks once before it uses the login and again when it knows the project.
CheckCached(p) ==
  /\ At(p, "compare") \/ At(p, "recompare")
  /\ LET owners == {k.user : k \in {k \in live : k.id = proc[p].old /\ k.kind = "project"}}
         next == CASE At(p, "recompare") -> "issue"
                   [] At(p, "compare") /\ proc[p].with # 0 -> "verify"
                   [] OTHER -> "failed"
     IN Goto(p, CASE owners = {} -> next
                  [] owners # {} /\ (proc[p].user = None \/ proc[p].user \in owners) -> "link"
                  [] OTHER -> IF proc[p].relink THEN next ELSE "failed")
  /\ UNCHANGED <<server, writer, machine, faults>>

-----------------------------------------------------------------------------
(* Obtaining a key: the device flow, or with a setup key.                  *)

CreateCLISession(p) ==
  /\ At(p, "device")
  /\ session' = [session EXCEPT ![p].state = "pending"]
  /\ Goto(p, "poll")
  /\ UNCHANGED <<live, issued, txn, writer, machine, faults>>

\* A poll while the session is pending changes nothing.
PollRefused(p) ==
  /\ At(p, "poll") /\ session[p].state \in {"denied", "expired"}
  /\ Goto(p, "failed")
  /\ UNCHANGED <<server, writer, machine, faults>>

\* The approver of a project key has lost access since.
CollectDenied(p) ==
  /\ At(p, "poll") /\ session[p].state = "approved" /\ ~Busy(p)
  /\ proc[p].cmd = "legacy" /\ ~writer[session[p].by]
  /\ session' = [session EXCEPT ![p].state = "denied"]
  /\ Goto(p, "failed")
  /\ UNCHANGED <<live, issued, txn, writer, machine, faults>>

CollectBegin(p) ==
  LET u == session[p].by
  IN /\ At(p, "poll") /\ session[p].state = "approved" /\ ~Busy(p)
     /\ proc[p].cmd = "legacy" => writer[u]
     /\ \/ CanCreate(u) /\ txn' = [txn EXCEPT ![p].user = u] /\ UNCHANGED proc
        \/ Full(u) /\ Goto(p, "failed") /\ UNCHANGED txn
     /\ UNCHANGED <<live, issued, session, writer, machine, faults>>

\* The answer arrives, or is lost with the only copy of the key.
Answered(p, id, pc) ==
  \/ proc' = [proc EXCEPT ![p].key = id, ![p].pc = pc] /\ UNCHANGED faults
  \/ Fault /\ Goto(p, "failed")

CollectCommit(p) ==
  LET cmd == proc[p].cmd
  IN /\ At(p, "poll") /\ Busy(p)
     /\ Mint(txn[p].user, KindOf(cmd), 0, p)
     /\ session' = [session EXCEPT ![p].state = "collected"]
     /\ txn' = [txn EXCEPT ![p] = NoTxn]
     /\ Answered(p, issued + 1, IF cmd = "legacy" THEN "done" ELSE "identify")
     /\ UNCHANGED <<writer, machine>>

\* The setup key is gone, its owner may not write, or has too many keys.
IssueRefused(u, id) == ~Works(id, u, "setup") \/ ~writer[u] \/ (Children(id) = {} /\ Full(u))

\* The parent row is locked, then the membership, the project and, for a new
\* child, the keys of the person.
IssueBegin(p) ==
  LET u == proc[p].user
      id == proc[p].with
      children == {k.id : k \in Children(id)}
      Lock(child) == txn' = [txn EXCEPT ![p] = [user |-> u, parent |-> id, child |-> child]]
  IN /\ At(p, "issue") /\ ~Busy(p) /\ RowFree(id)
     /\ \/ IssueRefused(u, id) /\ Goto(p, "failed") /\ UNCHANGED txn
        \/ /\ Works(id, u, "setup") /\ writer[u] /\ UNCHANGED proc
           /\ \/ children = {} /\ CanCreate(u) /\ Lock(0)
              \/ \E child \in children : Lock(child)
     /\ UNCHANGED <<live, issued, session, writer, machine, faults>>

\* Rotation replaces the secret of the child, unless its row is gone meanwhile:
\* then the secret returned is nobody's.
IssueCommit(p) ==
  LET t == txn[p]
  IN /\ At(p, "issue") /\ Busy(p)
     /\ IF t.child = 0 THEN Mint(t.user, "project", t.parent, p)
        ELSE /\ issued' = issued + 1
             /\ live' = {IF k.id = t.child THEN [k EXCEPT !.id = issued + 1, !.via = p] ELSE k
                           : k \in live}
     /\ txn' = [txn EXCEPT ![p] = NoTxn]
     /\ Answered(p, issued + 1, "identify")
     /\ UNCHANGED <<session, writer, machine>>

-----------------------------------------------------------------------------
(* Keeping the key, or giving it back.                                     *)

\* admin login insists on --account, init on the account that issued the key.
Accepts(p, owner) ==
  CASE proc[p].cmd = "manage" -> proc[p].account \in {None, owner}
    [] proc[p].cmd = "init" -> proc[p].user = owner
    [] OTHER -> TRUE

\* GET /me with the new key.
Identify(p) ==
  LET owners == {k.user : k \in {k \in live : k.id = proc[p].key}}
  IN /\ At(p, "identify")
     /\ \/ /\ \E o \in owners : /\ Accepts(p, o)
                                /\ proc' = [proc EXCEPT ![p].user = o, ![p].pc = "load"]
           /\ UNCHANGED faults
        \/ (\A o \in owners : ~Accepts(p, o)) /\ Goto(p, "revoke") /\ UNCHANGED faults
        \/ Fault /\ Goto(p, "revoke")
     /\ UNCHANGED <<server, writer, machine>>

LoadOld(p) ==
  /\ At(p, "load")
  /\ proc' = [proc EXCEPT ![p].old = slot[SlotOf(p)], ![p].pc = "save"]
  /\ UNCHANGED <<server, writer, machine, faults>>

\* Mutant: a login that cannot be stored is not revoked.
Unsaved_Kept(p) == Fault /\ UNCHANGED slot /\ Goto(p, "failed")

Unsaved(p) == Fault /\ UNCHANGED slot /\ Goto(p, "revoke")

Save(p) ==
  /\ At(p, "save")
  /\ \/ /\ slot' = [slot EXCEPT ![SlotOf(p)] = proc[p].key]
        /\ Goto(p, IF proc[p].cmd = "init" THEN "track" ELSE "activate")
        /\ UNCHANGED faults
     \/ Unsaved(p)
  /\ UNCHANGED <<server, writer, active, tracked>>

Activate(p) ==
  /\ At(p, "activate")
  /\ \/ /\ active' = [active EXCEPT ![KindOf(proc[p].cmd)] = proc[p].user]
        /\ Goto(p, "done") /\ UNCHANGED faults
     \/ Fault /\ UNCHANGED active /\ Goto(p, "restore")
  /\ UNCHANGED <<server, writer, slot, tracked>>

TrackProject(p) ==
  /\ At(p, "track")
  /\ \/ /\ tracked' = [tracked EXCEPT ![proc[p].user] = proc[p].key]
        /\ Goto(p, "link") /\ UNCHANGED faults
     \/ Fault /\ UNCHANGED tracked /\ Goto(p, "restore")
  /\ UNCHANGED <<server, writer, slot, active>>

\* velvet.yaml and the private binding of the directory, both or neither.
LinkDirectory(p) ==
  /\ At(p, "link")
  /\ \/ Goto(p, "done") /\ UNCHANGED faults
     \/ Fault /\ Goto(p, IF proc[p].key = 0 THEN "failed" ELSE "restore")
  /\ UNCHANGED <<server, writer, machine>>

\* What the slot held before comes back; nothing, if it held nothing.
Restore(p) ==
  /\ At(p, "restore")
  /\ \/ /\ slot' = [slot EXCEPT ![SlotOf(p)] = proc[p].old]
        /\ Goto(p, "revoke") /\ UNCHANGED faults
     \/ Fault /\ UNCHANGED slot /\ proc' = [proc EXCEPT ![p].clean = FALSE, ![p].pc = "revoke"]
  /\ UNCHANGED <<server, writer, active, tracked>>

\* DELETE /me/token with the key itself, and the same without an answer.
HandleRevokeOwnToken(id) == live' = Deleted(id) /\ UNCHANGED faults
Unanswered(id) == Fault /\ live' \in {live, Deleted(id)}

\* A dead key is refused, and nothing is left to revoke.
RevokeAfterFailure(p) ==
  /\ At(p, "revoke") /\ RowFree(proc[p].key)
  /\ \/ HandleRevokeOwnToken(proc[p].key) /\ Goto(p, "failed")
     \/ /\ Unanswered(proc[p].key)
        /\ proc' = [proc EXCEPT ![p].clean = FALSE, ![p].pc = "failed"]
  /\ UNCHANGED <<issued, session, txn, writer, machine>>

-----------------------------------------------------------------------------
(* Logging out: revocation is confirmed first, then local copies go.       *)

GiveUp(p) ==
  LET id == proc[p].with
  IN /\ At(p, "giveUp") /\ RowFree(id)
     /\ \/ /\ id \in Ids /\ HandleRevokeOwnToken(id)
           /\ Goto(p, IF proc[p].cmd = "logout" THEN "descendants" ELSE "forget")
        \/ id \notin Ids /\ UNCHANGED <<live, faults>> /\ Goto(p, "failed")
        \/ Unanswered(id) /\ Goto(p, "failed")
     /\ UNCHANGED <<issued, session, txn, writer, machine>>

ReadDescendants(p) ==
  /\ At(p, "descendants")
  /\ proc' = [proc EXCEPT ![p].old = tracked[proc[p].user],
                          ![p].pc = IF tracked[proc[p].user] = 0 THEN "untrack" ELSE "match"]
  /\ UNCHANGED <<server, writer, machine, faults>>

\* The hash in the index is compared with the key stored now.
MatchDescendant(p) ==
  /\ At(p, "match")
  /\ Goto(p, IF slot[Project] = proc[p].old THEN "drop" ELSE "untrack")
  /\ UNCHANGED <<server, writer, machine, faults>>

\* A local write of a logout, after which comes pc; it may fail.
Forgetting(p, from, pc, write) ==
  /\ At(p, from)
  /\ \/ write /\ Goto(p, pc) /\ UNCHANGED faults
     \/ Fault /\ Goto(p, "failed") /\ UNCHANGED machine
  /\ UNCHANGED <<server, writer>>

DropProject(p) ==
  Forgetting(p, "drop", "untrack",
             slot' = [slot EXCEPT ![Project] = 0] /\ UNCHANGED <<active, tracked>>)

Untrack(p) ==
  Forgetting(p, "untrack", "forget",
             tracked' = [tracked EXCEPT ![proc[p].user] = 0] /\ UNCHANGED <<active, slot>>)

DeleteLogin(p) ==
  Forgetting(p, "forget", "inactive",
             slot' = [slot EXCEPT ![<<KindOf(proc[p].cmd), proc[p].user>>] = 0] /\ UNCHANGED <<active, tracked>>)

ReadActiveAgain(p) ==
  /\ At(p, "inactive")
  /\ Goto(p, IF active[KindOf(proc[p].cmd)] = proc[p].user THEN "deactivate" ELSE "done")
  /\ UNCHANGED <<server, writer, machine, faults>>

Deactivate(p) ==
  Forgetting(p, "deactivate", "done",
             active' = [active EXCEPT ![KindOf(proc[p].cmd)] = None] /\ UNCHANGED <<slot, tracked>>)

\* The process dies with its variables (what it read from the store stays as
\* history), and with its connection a transaction it waits for.
Crash(p) ==
  /\ proc[p].pc \notin {"new", "done", "failed", "crashed"}
  /\ Fault
  /\ proc' = [proc EXCEPT ![p] = [New EXCEPT !.cmd = proc[p].cmd, !.old = proc[p].old,
                                             !.pc = "crashed"]]
  /\ txn' = [txn EXCEPT ![p] = NoTxn]
  /\ UNCHANGED <<live, issued, session, writer, machine>>

Browser ==
  \/ \E u \in Users : CreateAPIToken(u) \/ ChangeAccess(u)
  \/ \E id \in Ids : DeleteAPIToken(id)
  \/ \E p \in Processes : DenyCLISession(p) \/ ExpireCLISession(p)
  \/ \E p \in Processes, u \in Users : ApproveCLISession(p, u)

Command(p) ==
  \/ \E cmd \in Commands, account \in Users \cup {None}, relink \in BOOLEAN :
       Start(p, cmd, account, relink)
  \/ ReadActive(p) \/ ReadStored(p) \/ Verify(p) \/ ReadCached(p) \/ CheckCached(p)
  \/ CreateCLISession(p) \/ PollRefused(p) \/ CollectDenied(p) \/ CollectBegin(p)
  \/ CollectCommit(p) \/ IssueBegin(p) \/ IssueCommit(p)
  \/ Identify(p) \/ LoadOld(p) \/ Save(p) \/ Activate(p) \/ TrackProject(p)
  \/ LinkDirectory(p) \/ Restore(p) \/ RevokeAfterFailure(p)
  \/ GiveUp(p) \/ ReadDescendants(p) \/ MatchDescendant(p) \/ DropProject(p) \/ Untrack(p)
  \/ DeleteLogin(p) \/ ReadActiveAgain(p) \/ Deactivate(p)
  \/ Crash(p)

Next == Browser \/ \E p \in Processes : Command(p)

Spec == Init /\ [][Next]_vars

-----------------------------------------------------------------------------

\* A person never has more than Limit keys, whichever of the browser, the
\* device flow and a command with a setup key asks for them at the same time
\* (store/api_token.go:71).
QuotaKept == \A u \in Users : Cardinality(KeysOf(u)) <= Limit

\* A key that a device flow handed out was collected from a session that its
\* owner approved, that was not refused and did not expire since, and it is
\* the only one: consent in the browser and the poll of the command line
\* change the same row in any order (store/cli_session.go:281).
ConsentHeld ==
  \A k \in live : (k.via # None /\ proc[k.via].cmd # "init") =>
    /\ session[k.via] = [state |-> "collected", by |-> k.user]
    /\ \A l \in live : l.via = k.via => l = k

\* A command that failed after it was given a key leaves it nowhere: it is
\* revoked and out of the store, except where another command had picked it up
\* to put it back, and except where undoing was what failed
\* (cmd/velvet/login.go:279, config/setup.go:63, cmd/velvet/init.go:366).
NothingLeftBehind ==
  \A p \in Processes : (At(p, "failed") /\ proc[p].key # 0 /\ proc[p].clean) =>
    /\ proc[p].key \notin Ids
    /\ \A s \in Slots : slot[s] = proc[p].key =>
         \E q \in Processes \ {p} : proc[q].old = proc[p].key

\* Once the server confirmed a logout, the login and every project key issued
\* with it are gone and none comes back, even if an init that holds the login
\* is half way (cmd/velvet/login.go:261, store/cli_session.go:233).
Confirmed == {"descendants", "match", "drop", "untrack", "forget", "inactive", "deactivate"}
RevokedForGood ==
  \A p \in Processes : (proc[p].pc \in Confirmed \/ (At(p, "done") /\ proc[p].cmd \in {"logout", "adminLogout"})) =>
    proc[p].with \notin Ids /\ Children(proc[p].with) = {}

=============================================================================
