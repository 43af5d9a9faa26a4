---------------------------- MODULE Installation ----------------------------
(***************************************************************************)
(* GitHub App installations: who binds one to an organisation, how         *)
(* webhooks, the hourly schedule and administrators ask for a              *)
(* synchronisation, how the worker reads GitHub without a lock and writes  *)
(* the answer under one, and how evidence handlers are fenced              *)
(* (store/installation.go, store/github_setup.go, worker/installation.go). *)
(*                                                                         *)
(* github is GitHub's own state; every change there sends a delivery.      *)
(* queue holds the deliveries and synchronisation jobs that wait, and      *)
(* task[t] what worker t runs, with what it has read so far.  JobQueue     *)
(* shows that the queue hands out every job and fences a late settlement;  *)
(* here a job whose lease ran out is simply waiting again, and one whose    *)
(* last attempt failed is a dead letter.  Transactions under the           *)
(* organisation's row lock are one action each.                            *)
(***************************************************************************)
EXTENDS Naturals

CONSTANTS
  Workspaces,     \* organisations
  Installations,  \* GitHub installation ids
  Repos,          \* GitHub repository ids
  Workers,        \* worker loops
  Readers,        \* handlers that write evidence for a repository
  Setups,         \* setup states, one per attempt to connect
  None,
  MaxMoves        \* bound: GitHub's changes, requests, retries and faults

ASSUME MovesAssumption == MaxMoves \in Nat
ASSUME NoneAssumption == None \notin Workspaces

VARIABLES
  github,        \* github[i]: state and repositories of i, at GitHub
  workspace,     \* the organisations that exist
  installation,  \* installation[i]: the github_installation row
  repo,          \* repo[x]: the repo row; ws = None when there is none
  setup,         \* setup[g]: setup state and authorization state together
  queue,         \* deliveries and jobs waiting
  dead,          \* the dead letters among them, kept for a human to look at
  task,          \* task[t]: program counter and locals of a worker
  reader,        \* reader[r]: an evidence handler and the generation it captured
  moves          \* moves made so far

vars == <<github, workspace, installation, repo, setup, queue, dead, task, reader, moves>>

Owners == Workspaces \cup {None}
Actions == {"suspend", "unsuspend", "deleted", "repositories"}

\* Columns that hold a time or NULL are Booleans; sync_error is error.
Row == [owner: Owners, verified: BOOLEAN, suspended: BOOLEAN, deleted: BOOLEAN,
        gen: Nat, synced: BOOLEAN, error: BOOLEAN]

\* Deliveries of the same change that wait together are one; Overrun handles
\* one twice.
Delivery == [kind: {"event"}, inst: Installations, action: Actions]
InstallationSync == [kind: {"state", "repos"}, inst: Installations, ws: Owners, gen: Nat]

\* live: the lease has not run out; otherwise work waits in the queue again.
Task == [pc: {"event", "check", "ask", "apply", "backfill"},
         work: Delivery \cup InstallationSync, sync: InstallationSync,
         suspended: BOOLEAN, listing: SUBSET Repos, live: BOOLEAN]
Idle == [pc |-> "idle"]
Busy(t) == task[t].pc # "idle"

\* disturbed is history: since the capture, the installation was suspended,
\* deleted or lost its organisation.
Reader == [pc: {"resolved", "captured"}, repo: Repos, ws: Workspaces,
           inst: Installations, gen: Nat, disturbed: BOOLEAN]

SetupState ==
  [phase: {"none", "closed"}] \cup [phase: {"installation"}, ws: Workspaces]
  \cup [phase: {"authorization", "claimed"}, ws: Workspaces, inst: Installations]

Written(disturbed) == [pc |-> "written", disturbed |-> disturbed]

NewRow == [owner |-> None, verified |-> FALSE, suspended |-> FALSE, deleted |-> FALSE,
           gen |-> 0, synced |-> FALSE, error |-> FALSE]

\* Some installations were connected and synchronised before; a repository
\* has one account at GitHub, hence one installation.
Init ==
  \E owner \in [Installations -> Owners], listed \in [Installations -> SUBSET Repos] :
    /\ \A i, o \in Installations : i # o =>
         /\ owner[i] = owner[o] => owner[i] = None
         /\ listed[i] \cap listed[o] = {}
    /\ github = [i \in Installations |-> [state |-> "active", repos |-> listed[i]]]
    /\ workspace = Workspaces
    /\ installation = [i \in Installations |->
         IF owner[i] = None THEN NewRow
         ELSE [NewRow EXCEPT !.owner = owner[i], !.verified = TRUE, !.gen = 1, !.synced = TRUE]]
    /\ repo = [x \in Repos |->
         IF \E i \in Installations : owner[i] # None /\ x \in listed[i]
           THEN LET i == CHOOSE i \in Installations : x \in listed[i]
                IN  [ws |-> owner[i], inst |-> i, active |-> TRUE]
           ELSE [ws |-> None, inst |-> None, active |-> FALSE]]
    /\ setup = [g \in Setups |-> [phase |-> "none"]]
    /\ queue = {} /\ dead = {}
    /\ task = [t \in Workers |-> Idle]
    /\ reader = [r \in Readers |-> Idle]
    /\ moves = 0

Move == moves < MaxMoves /\ moves' = moves + 1

Disturb(i) ==
  reader' = [r \in Readers |->
    IF reader[r].pc = "captured" /\ reader[r].inst = i
      THEN [reader[r] EXCEPT !.disturbed = TRUE] ELSE reader[r]]

-----------------------------------------------------------------------------
(* GitHub.                                                                 *)

GitHubChange(i, state, repos, action) ==
  /\ Move
  /\ github[i].state # "gone"
  /\ github' = [github EXCEPT ![i] = [state |-> state, repos |-> repos]]
  /\ queue' = queue \cup {[kind |-> "event", inst |-> i, action |-> action]}
  /\ UNCHANGED <<workspace, installation, repo, setup, dead, task, reader>>

GitHubSuspend(i) ==
  /\ github[i].state = "active"
  /\ GitHubChange(i, "suspended", github[i].repos, "suspend")

GitHubUnsuspend(i) ==
  /\ github[i].state = "suspended"
  /\ GitHubChange(i, "active", github[i].repos, "unsuspend")

GitHubDelete(i) == GitHubChange(i, "gone", {}, "deleted")

\* A repository has one account, hence one installation.
GitHubSetRepos(i, repos) ==
  /\ repos # github[i].repos
  /\ \A o \in Installations \ {i} : repos \cap github[o].repos = {}
  /\ GitHubChange(i, github[i].state, repos, "repositories")

-----------------------------------------------------------------------------
(* Requests for a synchronisation.                                         *)

\* sync_generation+1, repos_synced_at and sync_error NULL.
Resync(row) == [row EXCEPT !.gen = @ + 1, !.synced = FALSE, !.error = FALSE]

SyncJob(i, row) ==
  [kind |-> IF row.suspended THEN "state" ELSE "repos",
   inst |-> i, ws |-> row.owner, gen |-> row.gen]

\* enqueueInstallationSyncTx, once its checks have passed.
EnqueueSync(i, row) ==
  /\ installation' = [installation EXCEPT ![i] = Resync(row)]
  /\ queue' = queue \cup {SyncJob(i, Resync(row))}

Bound(i) == installation[i].owner # None /\ installation[i].verified /\ ~installation[i].deleted
Serving(i) == Bound(i) /\ ~installation[i].suspended

\* An administrator asks again; on a suspended installation this asks GitHub
\* for its state first.
RequestInstallationSync(i) ==
  /\ Move
  /\ Bound(i)
  /\ EnqueueSync(i, installation[i])
  /\ UNCHANGED <<github, workspace, repo, setup, dead, task, reader>>

SyncWaiting(i) ==
  \/ \E s \in queue : s.kind = "repos" /\ s.inst = i
  \/ \E t \in Workers : Busy(t) /\ task[t].work.kind = "repos" /\ task[t].work.inst = i

\* The hourly pass skips an installation whose last synchronisation failed.
\* An hour may or may not have passed since a synchronisation that succeeded.
ScheduleInstallationSyncs(i) ==
  /\ Move
  /\ Serving(i) /\ ~installation[i].error /\ ~SyncWaiting(i)
  /\ EnqueueSync(i, installation[i])
  /\ UNCHANGED <<github, workspace, repo, setup, dead, task, reader>>

\* The foreign keys: the binding is set to NULL, repositories and setup states
\* go with the organisation.
DeleteWorkspace(w) ==
  /\ Move
  /\ w \in workspace
  /\ workspace' = workspace \ {w}
  /\ installation' = [i \in Installations |->
       IF installation[i].owner = w THEN [installation[i] EXCEPT !.owner = None]
       ELSE installation[i]]
  /\ repo' = [x \in Repos |->
       IF repo[x].ws = w THEN [ws |-> None, inst |-> None, active |-> FALSE] ELSE repo[x]]
  /\ setup' = [g \in Setups |->
       IF setup[g].phase \notin {"none", "closed"} /\ setup[g].ws = w THEN [phase |-> "closed"] ELSE setup[g]]
  /\ reader' = [r \in Readers |->
       IF reader[r].pc = "captured" /\ installation[reader[r].inst].owner = w
         THEN [reader[r] EXCEPT !.disturbed = TRUE] ELSE reader[r]]
  /\ UNCHANGED <<github, queue, dead, task>>

-----------------------------------------------------------------------------
(* Connecting: setup, authorization at GitHub, binding.                    *)

CreateGitHubSetup(g, w) ==
  /\ setup[g].phase = "none" /\ w \in workspace
  /\ setup' = [setup EXCEPT ![g] = [phase |-> "installation", ws |-> w]]
  /\ UNCHANGED <<github, workspace, installation, repo, queue, dead, task, reader, moves>>

StartGitHubInstallationAuthorization(g, i) ==
  /\ setup[g].phase = "installation"
  /\ setup' = [setup EXCEPT ![g] = [phase |-> "authorization", ws |-> @.ws, inst |-> i]]
  /\ UNCHANGED <<github, workspace, installation, repo, queue, dead, task, reader, moves>>

\* The verifier is handed out once.  The evidence is then read from GitHub as
\* the user: only of an installation that was there.
ClaimGitHubAuthorization(g) ==
  /\ setup[g].phase = "authorization"
  /\ github[setup[g].inst].state # "gone"
  /\ setup' = [setup EXCEPT ![g].phase = "claimed"]
  /\ UNCHANGED <<github, workspace, installation, repo, queue, dead, task, reader, moves>>

\* Another organisation's, deleted at GitHub, or the organisation has one.
Refused(i, w) ==
  \/ installation[i].owner \notin {None, w}
  \/ installation[i].deleted
  \/ \E o \in Installations \ {i} : installation[o].owner = w

\* A refusal rolls back; the callback cannot be repeated, its claim is spent.
BindInstallation(g) ==
  /\ setup[g].phase = "claimed" /\ setup[g].ws \in workspace
  /\ LET i == setup[g].inst
     IN  IF Refused(i, setup[g].ws)
           THEN UNCHANGED <<installation, queue>>
           ELSE EnqueueSync(i, [installation[i] EXCEPT !.owner = setup[g].ws,
                                                       !.verified = TRUE])
  /\ setup' = [setup EXCEPT ![g] = [phase |-> "closed"]]
  /\ UNCHANGED <<github, workspace, repo, dead, task, reader, moves>>

-----------------------------------------------------------------------------
(* The worker.                                                             *)

\* The job is done, or waits again.
Settle(t) == task' = [task EXCEPT ![t] = Idle]
Requeued(t) == IF task[t].live THEN queue \cup {task[t].work} ELSE queue

\* ClaimJob.  A delivery's handler reads the owner of the installation without
\* a lock; its sync has no generation yet.
ClaimJob(t, j) ==
  /\ ~Busy(t) /\ j \in queue
  /\ queue' = queue \ {j}
  /\ task' = [task EXCEPT ![t] =
       [pc |-> IF j.kind = "event" THEN "event" ELSE "check", work |-> j,
        sync |-> IF j.kind = "event"
                   THEN [kind |-> "state", inst |-> j.inst,
                         ws |-> installation[j.inst].owner, gen |-> 0]
                   ELSE j,
        suspended |-> TRUE, listing |-> {}, live |-> TRUE]]
  /\ UNCHANGED <<github, workspace, installation, repo, setup, dead, reader, moves>>

\* The lease runs out under a worker that continues, or the worker is gone.
Overrun(t) ==
  /\ Move
  /\ Busy(t) /\ task[t].live
  /\ queue' = Requeued(t)
  /\ \/ task' = [task EXCEPT ![t].live = FALSE]
     \/ Settle(t)
  /\ UNCHANGED <<github, workspace, installation, repo, setup, dead, reader>>

\* FailJob: another attempt, or a dead letter after the last one.
Fail(t) ==
  /\ Move
  /\ Settle(t)
  /\ \/ queue' = Requeued(t) /\ UNCHANGED dead
     \/ /\ dead' = IF task[t].live THEN dead \cup {task[t].work} ELSE dead
        /\ UNCHANGED queue

\* ErrStaleInstallationSync, or an organisation that is gone: the delivery is
\* tried again.  Fewer than five owners come and go.
Moved(s) == installation[s.inst].owner # s.ws

InstallationEventMoved(t) ==
  /\ task[t].pc = "event" /\ Moved(task[t].sync)
  /\ Settle(t)
  /\ queue' = Requeued(t)
  /\ UNCHANGED <<github, workspace, installation, repo, setup, dead, reader, moves>>

\* The database fails an event before it changes anything.
InstallationEventFails(t) ==
  /\ task[t].pc = "event"
  /\ Fail(t)
  /\ UNCHANGED <<github, workspace, installation, repo, setup, reader>>

\* Nothing to do: the installation is deleted, or a change of repositories
\* reaches one that is not served.
InstallationEventNothing(t) ==
  LET i == task[t].sync.inst
  IN  /\ task[t].pc = "event" /\ ~Moved(task[t].sync)
      /\ \/ installation[i].deleted
         \/ task[t].work.action = "repositories" /\ ~Serving(i)
      /\ Settle(t)
      /\ UNCHANGED <<github, workspace, installation, repo, setup, queue, dead, reader, moves>>

Deleted(row) == [row EXCEPT !.deleted = TRUE, !.owner = None, !.verified = FALSE,
                            !.gen = @ + 1, !.error = FALSE]
Suspended(row) == [row EXCEPT !.suspended = TRUE, !.gen = @ + 1]

\* A deleted installation is terminal.
InstallationEventDeleted(t) ==
  LET i == task[t].sync.inst
  IN  /\ task[t].pc = "event" /\ ~Moved(task[t].sync)
      /\ ~installation[i].deleted /\ task[t].work.action = "deleted"
      /\ repo' = [x \in Repos |-> IF repo[x].inst = i THEN [repo[x] EXCEPT !.active = FALSE]
                                  ELSE repo[x]]
      /\ installation' = [installation EXCEPT ![i] = Deleted(@)]
      /\ Settle(t) /\ Disturb(i)
      /\ UNCHANGED <<github, workspace, setup, queue, dead, moves>>

\* Either way the row is suspended and fenced until GitHub has been asked.
InstallationEventSuspension(t) ==
  LET i == task[t].sync.inst
  IN  /\ task[t].pc = "event" /\ ~Moved(task[t].sync)
      /\ ~installation[i].deleted /\ task[t].work.action \in {"suspend", "unsuspend"}
      /\ installation' = [installation EXCEPT ![i] = Suspended(@)]
      /\ task' = [task EXCEPT ![t].pc = "check", ![t].sync.gen = installation[i].gen + 1]
      /\ Disturb(i)
      /\ UNCHANGED <<github, workspace, repo, setup, queue, dead, moves>>

InstallationEventRepositories(t) ==
  LET i == task[t].sync.inst
  IN  /\ task[t].pc = "event" /\ ~Moved(task[t].sync)
      /\ Serving(i) /\ task[t].work.action = "repositories"
      /\ EnqueueSync(i, installation[i])
      /\ Settle(t)
      /\ UNCHANGED <<github, workspace, repo, setup, dead, reader, moves>>

-----------------------------------------------------------------------------
(* Reading GitHub and applying the answer, by the generation of the job.   *)

StateCurrent(s) ==
  /\ installation[s.inst].owner = s.ws /\ installation[s.inst].gen = s.gen
  /\ ~installation[s.inst].deleted

SyncCurrent(s) == StateCurrent(s) /\ s.ws # None /\ Serving(s.inst)

Current(s) == IF s.kind = "state" THEN StateCurrent(s) ELSE SyncCurrent(s)

\* The check before the call.
CheckCurrent(t) ==
  /\ task[t].pc = "check"
  /\ IF Current(task[t].sync) THEN task' = [task EXCEPT ![t].pc = "ask"] ELSE Settle(t)
  /\ UNCHANGED <<github, workspace, installation, repo, setup, queue, dead, reader, moves>>

\* The App reads the state of any installation it still has, and lists the
\* repositories of one that is not suspended.
AskGitHub(t) ==
  LET i == task[t].sync.inst
  IN  /\ task[t].pc = "ask"
      /\ github[i].state \in
           IF task[t].sync.kind = "state" THEN {"active", "suspended"} ELSE {"active"}
      /\ task' = [task EXCEPT ![t].pc = "apply",
           ![t].listing = IF task[t].sync.kind = "repos" THEN github[i].repos ELSE {},
           ![t].suspended = github[i].state = "suspended"]
      /\ UNCHANGED <<github, workspace, installation, repo, setup, queue, dead, reader, moves>>

FailInstallationSync(s) ==
  installation' = [installation EXCEPT ![s.inst].error =
    @ \/ (s.ws # None /\ installation[s.inst].owner = s.ws /\ installation[s.inst].gen = s.gen)]

\* GitHub, the database or a conflict fails a synchronisation.  Nothing is
\* recorded of an error in the check before the call, nor when the database
\* also fails the recording.
SyncFails(t) ==
  /\ task[t].pc \in {"check", "ask", "apply", "backfill"}
  /\ \/ task[t].pc # "check" /\ FailInstallationSync(task[t].sync)
     \/ UNCHANGED installation
  /\ Fail(t)
  /\ UNCHANGED <<github, workspace, repo, setup, reader>>

\* ErrStaleInstallationSync ends a job quietly.
ApplyStale(t) ==
  /\ task[t].pc = "apply" /\ ~Current(task[t].sync)
  /\ Settle(t)
  /\ UNCHANGED <<github, workspace, installation, repo, setup, queue, dead, reader, moves>>

\* Mutant: only the binding is compared, not the generation.
StateApplicable_AnyGeneration(s) ==
  installation[s.inst].owner = s.ws /\ ~installation[s.inst].deleted

StateApplicable(s) == StateCurrent(s)

\* Mutant: a suspension is lifted without listing the repositories again.
ApplyInstallationState_NoListing(t) ==
  LET s == task[t].sync
  IN  /\ task[t].pc = "apply" /\ s.kind = "state" /\ StateApplicable(s)
      /\ installation' = [installation EXCEPT ![s.inst].error = FALSE,
                            ![s.inst].suspended = @ /\ task[t].suspended]
      /\ Settle(t)
      /\ UNCHANGED <<github, workspace, repo, setup, queue, dead, reader, moves>>

\* Only an answer that GitHub serves the installation lifts the suspension,
\* and then everything is listed again.
ApplyInstallationState(t) ==
  LET s == task[t].sync
      row == [installation[s.inst] EXCEPT !.error = FALSE,
                !.suspended = @ /\ task[t].suspended]
  IN  /\ task[t].pc = "apply" /\ s.kind = "state" /\ StateApplicable(s)
      /\ IF ~task[t].suspended /\ row.owner # None /\ row.verified
           THEN EnqueueSync(s.inst, row)
           ELSE /\ installation' = [installation EXCEPT ![s.inst] = row]
                /\ UNCHANGED queue
      /\ Settle(t)
      /\ UNCHANGED <<github, workspace, repo, setup, dead, reader, moves>>

\* Mutant: a listing is applied whatever was requested since it was asked for.
ReposApplicable_AnyGeneration(s) == installation[s.inst].owner = s.ws /\ Serving(s.inst)

ReposApplicable(s) == SyncCurrent(s)

\* A repository row of another organisation refuses the whole listing.
RepositoryConflict(s, listing) == \E x \in listing : repo[x].ws \notin {None, s.ws}

ApplyInstallationRepos(t) ==
  LET s == task[t].sync
  IN  /\ task[t].pc = "apply" /\ s.kind = "repos" /\ ReposApplicable(s)
      /\ ~RepositoryConflict(s, task[t].listing)
      /\ repo' = [x \in Repos |->
           IF x \in task[t].listing THEN [ws |-> s.ws, inst |-> s.inst, active |-> TRUE]
           ELSE [repo[x] EXCEPT !.active = @ /\ ~(repo[x].ws = s.ws /\ repo[x].inst = s.inst)]]
      /\ installation' = [installation EXCEPT ![s.inst].synced = TRUE, ![s.inst].error = FALSE]
      /\ task' = [task EXCEPT ![t].pc = "backfill", ![t].listing = {}]
      /\ UNCHANGED <<github, workspace, setup, queue, dead, reader, moves>>

\* Every repository listed was read, or a newer generation took over.
BackfillEnds(t) ==
  /\ task[t].pc = "backfill"
  /\ Settle(t)
  /\ UNCHANGED <<github, workspace, installation, repo, setup, queue, dead, reader, moves>>

-----------------------------------------------------------------------------
(* Evidence handlers: pull_request, pull_request_review, push, and the     *)
(* reads of reconciliation.                                                *)

\* Mutant: a repository without a row is not dropped.
RepoByGitHubID_Unknown(r, x) ==
  /\ reader[r].pc \in {"idle", "written"}
  /\ reader' = [reader EXCEPT ![r] =
       [pc |-> "resolved", repo |-> x, ws |-> repo[x].ws, inst |-> repo[x].inst,
        gen |-> 0, disturbed |-> FALSE]]
  /\ UNCHANGED <<github, workspace, installation, repo, setup, queue, dead, task, moves>>

\* The payload names the repository and its installation.
RepoByGitHubID(r, x) ==
  /\ reader[r].pc \in {"idle", "written"}
  /\ repo[x].ws # None
  /\ reader' = [reader EXCEPT ![r] =
       [pc |-> "resolved", repo |-> x, ws |-> repo[x].ws, inst |-> repo[x].inst,
        gen |-> 0, disturbed |-> FALSE]]
  /\ UNCHANGED <<github, workspace, installation, repo, setup, queue, dead, task, moves>>

\* ActiveRepo joins the repository to the installation it has now.
ActiveRepo(r) ==
  LET x == reader[r].repo
      i == repo[x].inst
  IN  /\ reader[r].pc = "resolved"
      /\ reader' = [reader EXCEPT ![r] =
           IF /\ repo[x].ws = reader[r].ws /\ repo[x].active
              /\ Serving(i) /\ installation[i].owner = repo[x].ws
             THEN [@ EXCEPT !.pc = "captured", !.gen = installation[i].gen]
             ELSE Idle]
      /\ UNCHANGED <<github, workspace, installation, repo, setup, queue, dead, task, moves>>

\* Mutant: the repository and installation are checked, not the generation.
RepoFenced_AnyGeneration(e) ==
  /\ Serving(e.inst) /\ installation[e.inst].owner = e.ws
  /\ repo[e.repo].ws = e.ws /\ repo[e.repo].inst = e.inst /\ repo[e.repo].active

RepoFenced(e) ==
  /\ Serving(e.inst) /\ installation[e.inst].owner = e.ws
  /\ installation[e.inst].gen = e.gen
  /\ repo[e.repo].ws = e.ws /\ repo[e.repo].inst = e.inst /\ repo[e.repo].active

\* WithActiveRepo: a stale handler returns without an error and writes nothing.
WithActiveRepo(r) ==
  /\ reader[r].pc = "captured"
  /\ reader' = [reader EXCEPT ![r] =
       IF RepoFenced(reader[r]) THEN Written(@.disturbed) ELSE Idle]
  /\ UNCHANGED <<github, workspace, installation, repo, setup, queue, dead, task, moves>>

-----------------------------------------------------------------------------
AtGitHub(i) ==
  \/ GitHubSuspend(i) \/ GitHubUnsuspend(i) \/ GitHubDelete(i)
  \/ \E repos \in SUBSET Repos : GitHubSetRepos(i, repos)

Connect(g) ==
  \/ \E w \in Workspaces : CreateGitHubSetup(g, w)
  \/ \E i \in Installations : StartGitHubInstallationAuthorization(g, i)
  \/ ClaimGitHubAuthorization(g) \/ BindInstallation(g)

HandleEvent(t) ==
  \/ InstallationEventMoved(t) \/ InstallationEventFails(t) \/ InstallationEventNothing(t)
  \/ InstallationEventDeleted(t) \/ InstallationEventSuspension(t)
  \/ InstallationEventRepositories(t)

Synchronise(t) ==
  \/ CheckCurrent(t) \/ AskGitHub(t) \/ SyncFails(t) \/ ApplyStale(t)
  \/ ApplyInstallationState(t) \/ ApplyInstallationRepos(t) \/ BackfillEnds(t)

Work(t) == (\E j \in queue : ClaimJob(t, j)) \/ Overrun(t) \/ HandleEvent(t) \/ Synchronise(t)

Handle(r) == (\E x \in Repos : RepoByGitHubID(r, x)) \/ ActiveRepo(r) \/ WithActiveRepo(r)

Next ==
  \/ \E i \in Installations :
       AtGitHub(i) \/ RequestInstallationSync(i) \/ ScheduleInstallationSyncs(i)
  \/ \E w \in Workspaces : DeleteWorkspace(w)
  \/ \E g \in Setups : Connect(g)
  \/ \E t \in Workers : Work(t)
  \/ \E r \in Readers : Handle(r)

Spec == Init /\ [][Next]_vars

-----------------------------------------------------------------------------
(* Properties.                                                             *)

\* Types.
TypeOK ==
  /\ github \in [Installations -> [state: {"active", "suspended", "gone"},
                                   repos: SUBSET Repos]]
  /\ workspace \subseteq Workspaces
  /\ installation \in [Installations -> Row]
  /\ repo \in [Repos -> [ws: Owners, inst: Installations \cup {None}, active: BOOLEAN]]
  /\ setup \in [Setups -> SetupState]
  /\ queue \subseteq Delivery \cup InstallationSync
  /\ dead \subseteq Delivery \cup InstallationSync
  /\ task \in [Workers -> Task \cup {Idle}]
  /\ reader \in [Readers -> Reader \cup {Idle} \cup {Written(d) : d \in BOOLEAN}]
  /\ moves \in Nat

\* A delivery about i that no handler has acted on: it waits, a worker whose
\* lease still holds has it, or it is a dead letter.
Undelivered(i, actions) ==
  \/ \E d \in queue \cup dead : d.kind = "event" /\ d.inst = i /\ d.action \in actions
  \/ \E t \in Workers : /\ task[t].pc = "event" /\ task[t].live
                        /\ task[t].work.inst = i /\ task[t].work.action \in actions

\* An installation shown as "syncing" (bound, not suspended, not synced, no
\* error) has a job of its own generation, which waits, runs under a lease or
\* is a dead letter: no order of requests, suspensions, failures and crashes leaves it
\* waiting for a job that was lost or is stale.  A dead letter is replaced by
\* ScheduleInstallationSyncs, which counts live jobs only.
Syncing(i) == Serving(i) /\ ~installation[i].synced /\ ~installation[i].error

HasJob(i) ==
  LET wanted(j) == /\ j.kind = "repos" /\ j.inst = i
                   /\ j.ws = installation[i].owner /\ j.gen = installation[i].gen
  IN  \/ \E j \in queue \cup dead : wanted(j)
      \/ \E t \in Workers : Busy(t) /\ task[t].live /\ wanted(task[t].work)

SyncNeverForgotten == \A i \in Installations : Syncing(i) => HasJob(i)

\* Velvet treats an installation that GitHub has suspended as served only
\* while the delivery that says so is on its way, or is a dead letter: an older
\* "not suspended" read without a lock never undoes a newer suspension.
SuspensionMirrored ==
  \A i \in Installations :
    Serving(i) /\ github[i].state = "suspended" => Undelivered(i, {"suspend"})

\* Once synchronised, the connected repositories are GitHub's list, except
\* for a change whose delivery is on its way or a dead letter: no older list
\* is applied last.
Connected(i) == {x \in Repos : repo[x].inst = i /\ repo[x].active}

ListingSettled ==
  \A i \in Installations :
    Serving(i) /\ installation[i].synced =>
      Connected(i) = github[i].repos \/ Undelivered(i, {"repositories", "deleted"})

\* A handler that captured a generation and then lost the installation to a
\* suspension, a deletion or an organisation that is gone writes nothing, even
\* if everything has been restored when it commits (WithActiveRepo).
EvidenceUndisturbed == \A r \in Readers : reader[r].pc = "written" => ~reader[r].disturbed

=============================================================================
