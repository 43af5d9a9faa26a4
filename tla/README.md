# Velvet, verified

Velvet is a self-hosted project tracker: a Go API on PostgreSQL, a GitHub App that
reports pull requests, reviews and pushes to it, a command line, a desktop and a web
client. This directory holds TLA+ models of the parts of Velvet whose correctness
depends on the order of things, the TLC runs that check them, and TLAPS proofs of the
results that matter most. Paths below are relative to the repository
(`api/internal/store` is `store`).

    tlc -config AccessInvites.cfg MCAccess.tla      # one run
    tlapm AccessProofs.tla                          # one proof module

## 1. The system

### Components, their state and their operations

| Component | State | Operations | Models |
| --- | --- | --- | --- |
| Webhook intake and job queue (`api/webhook.go`, `store/github_event.go`, `store/job.go`, `worker/worker.go`, clean-up in `store/session.go`) | `github_event`, `job` | record a delivery and its job; claim under a lease; handle; stamp; complete, retry, dead-letter; purge | `JobQueue`, `Delivery` |
| Sprints, milestones, issues (`store/sprint.go`, `snapshot.go`, `milestone.go`, `issue.go`) | `sprint`, `milestone`, `issue`, `sprint_snapshot` | create, edit, activate, close with report and roll-forward | `Planning` |
| Organisations and people (`store/workspace.go`, `user.go`, `invite.go`, `login_token.go`, `login_confirmation.go`, `api/auth.go`) | `workspace`, `membership`, `invite`, `login_token`, `session` | found, rename, dissolve; change role, remove, leave; invite, resend, revoke, accept; issue and open sign-in links; log out | `Access`, `Organisation` |
| Row locks of all of these transactions | PostgreSQL's lock table | lock, wait, release | `LockOrder` |
| API keys: CLI sessions, tokens and their copies on a machine (`store/cli_session.go`, `api_token.go`, `api/cli_auth.go`, `cli/internal/config`, `cli/cmd/velvet`) | `cli_session`, `api_token`; credential files on the machine | approve, deny, collect; create, issue, rotate, revoke; sign in, init, log out | `Cli`, locks in `LockOrder` |
| GitHub identities (`store/membership_identity.go`) | `membership_github_identity` | link, unlink | locks only, in `LockOrder` |
| GitHub installations (`store/installation.go`, `github_setup.go`, `worker/installation.go`) | `github_installation`, `repo`, setup and authorization states | set up, bind, synchronise by generation, suspend, delete; fence evidence | `Installation`, locks in `LockOrder` |
| Pull requests, commits, issue links, suggestions (`store/pull_request.go`, `suggestion.go`, `evidence.go`, `worker/*`) | `pull_request`, `commit_ref`, `pr_issue_link`, `link_suggestion`, notes in `comment` | upsert from events, link, unlink, reconcile hourly, suggest, accept, dismiss, promote a note | `Evidence` |
| Images (`store/image.go`) | `image_attachment` | upload with quota and deduplication | locks only |
| List positions (`fracdex`) | strings between strings | midpoint | not modelled |
| Live updates (`api/stream.go`) | in-memory subscribers | publish, drop for slow readers | not modelled |
| Comments, labels, projects, worklog, reports, activity | one row at a time | writes behind the workspace lock; read-only queries | the `write` operation of `Access`; notes on a project in `Evidence` |
| GitHub, mail and AI clients, linker, configuration | none | HTTP, text matching, parsing | not modelled |
| Other commands of the command line (`cli/`) | keychain, directory bindings | HTTP calls | not modelled |
| Desktop and web clients | caches of API answers; the installed application | render; update in place | not modelled |
| Deployment (`deploy/`) | containers, backups | roll out, roll back, prune | not modelled |

### How they interact

* The API and the worker share nothing but the database. A webhook becomes a row of
  `github_event` and a row of `job` in one transaction; a worker claims the job later,
  perhaps in another process.
* Every write by a member goes through `LockWorkspaceWriterTx` or
  `LockWorkspaceAdminTx`: `SELECT ... FOR UPDATE` of the workspace row, then the
  member's role is read again. The middleware (`RequireWorkspace`, `RequireRole`) has
  already read it once, without a lock. This lock is what serialises an organisation.
* Transactions of a person rather than an organisation (sign-in, linking a GitHub
  account, the CLI device flow) lock the person's rows, and reach the workspace row
  only through foreign keys.
* GitHub is asked outside any transaction. What a worker read there is written later, if
  the generation it captured (`sync_generation` of the installation) is still the same.
* A command line shares its credential files with every other command on the machine and
  the server with everybody; a browser consents to what it asks for.
* Cascades and triggers of the schema change rows no statement names:
  `invalidate_deleted_invite_tokens`, `issue_depth_guard`, `ON DELETE CASCADE`.

### What is hard, and what makes each part correct

* **Queue.** Workers crash, leases run out under workers that are still busy, GitHub
  redelivers, and a handler's commit, the stamp and the settling of the job are three
  transactions. No delivery may be lost, no stale worker may settle a job.
* **Planning.** Long sequences of legal calls: a sprint is closed, reactivated, closed
  again; milestones share names; issues change project between two roll-forwards. One
  active sprint per project, frozen reports, work neither lost nor moved across
  projects.
* **Access.** What was read before the lock is stale after it. An admin must remain,
  demoted people must lose their authority, an invitation link must never become a
  plain sign-in link.
* **Installations.** Webhooks arrive late, twice and in any order, and a synchronisation
  reads GitHub while everything changes; any of it may fail, and fail for the last time. An
  old answer must not undo a newer suspension or list, and no installation may be shown as
  waiting for a synchronisation whose job was lost or is stale.
* **Evidence.** Events, reviews and reconciliation write the same rows, with timestamps of
  one second; suggestions come from a call that takes seconds. Nothing may be missed, no
  older version may win, and no single step of a worker may overrule a person.
* **Keys.** A key is shown once. Consent, collection, quota, storage on the machine and
  revocation are steps of four parties, each of which may fail alone.
* **Locks.** Transactions meet on several rows. A circle of waiting is broken by
  PostgreSQL with an error, which no caller retries.

`PROJECT.json` lists each hazard at its line with the property that covers it, or the
module of the plan that will.

## 2. The modules

### JobQueue (and Delivery)

One action per statement. `RecordDelivery` is the transaction of
`store.RecordDelivery`; `ClaimJob` takes a ready job whose `run_after` is earliest
(`older` orders them, so two jobs ready at once are taken in either order) and
increments `attempts`, the generation; `HandlerCommits`, `MarkDeliveryProcessed`, then
`CompleteJob` or `FailJob`, each of which compares the generation; `Crash` abandons a
claim anywhere; `PurgeEvent` and `PurgeDeadJob` are the daily clean-up. Time is a set,
`ready`: `RunAfterElapses` lets a lease or a backoff end at any moment, also under a
worker that is still running. `FOR UPDATE SKIP LOCKED` makes a claim one atomic step.
GitHub forgets a delivery after three days and the row lives for thirty, so a purged id
does not come back.

`Delivery` is the promise without jobs: a delivery is accepted, its effects committed,
then done or given up. `ImplementsDelivery` maps the rows to it.

### Planning

Tables are functions on the rows that exist. Since every writer first holds the
workspace row, each transaction is one action, and a transaction that fails is an action
that is not enabled. `CloseSprint` and `ActivateSprint` include everything
`closeSprintTx` does: report, choice of the next sprint, creation of missing milestones,
move of the unfinished issues. That the report comes before the move is the order of two
statements inside one transaction, which one action cannot tell. `comment.go` writes an
issue too, `PromoteCommentToIssue`; it is one that `CreateIssue` may write. The `Handle...` operators (`HandleCreateSprint`,
`HandleUpdateSprint`, `HandleCreateMilestone`, `HandleUpdateMilestone`,
`HandleCreateIssue`, `HandleUpdateIssue`) are the API handlers: which fields a request may
combine and which store operation it becomes. Where the
SQL leaves a tie open (two next sprints on one day, two milestones of one name) the model
takes either. Titles, people, labels, list positions and the activity feed are left out.

### Access (and Organisation)

A request is admitted on what the middleware reads (`Receive`), waits for the workspace
row (`LockWorkspace`), reads again (`Check`, with `Allowed`), and commits one of the
write actions, or is aborted anywhere. Opening a link reads the invitation of the link
before any lock, as `ConfirmLogin` does; previewing an invitation and issuing its link
are two steps, as in `handleAcceptInvite`. Deleting the organisation includes the
cascades and the trigger. `origin` and `confirms` are history variables. A person is
identified with a mailbox; one organisation is modelled, since no transaction but
sign-in touches two.

`Organisation` says only how memberships may change; `Access` implements it.

### LockOrder

Each transaction of the store is the sequence of row locks its statements take, with
PostgreSQL's modes and conflict table, including the `FOR KEY SHARE` locks of foreign
keys and the rows reached by cascades, in the order the triggers fire. One row stands
for each table, the one two transactions may share; where transactions cannot meet on a
row (an authorization for a link and one for an installation, a pending CLI session and
a collected one) there are two. A transaction may end at any point, since each check
between two locks may refuse it. Queueing among waiters is left out, rows touched only
under the workspace lock are, and so are the clean-up, which skips locked rows, and the
rows of images and activity that name a token.

### Installation

`github` is GitHub's own state; each change there sends a delivery. `task[t]` is a worker
with what it has read so far: `ClaimJob` reads the owner without a lock, `CheckCurrent`
compares generations before the call, `AskGitHub` is the call, and the `Apply...` actions
write its answer under the lock, where `StateApplicable` and `ReposApplicable` compare
generations again. `EnqueueSync` is `enqueueInstallationSyncTx`: it raises the generation
and stores the job in the same transaction. The event handler is one action per outcome
(`InstallationEventMoved` to `InstallationEventRepositories`). `Connect` is setup,
authorization and binding; `DeleteWorkspace` has the effects of the foreign keys.
`Overrun` and `Fail` stand for what `JobQueue` shows of the queue: work runs again, or, after
the last attempt, becomes one of the dead letters, `dead`. Each thing a worker does may
fail: an event before it changes anything (`InstallationEventFails`), the check before the
call, which records nothing, the call, the writing, the backfill, and the recording of
their failure (`SyncFails`). A
reader is an evidence handler: `ActiveRepo` captures the generation, `WithActiveRepo`
writes only under it; `disturbed` is history. That fence is what `Evidence` assumes of its
repository.

### Evidence

`kind[w]` says whether a piece of work is a pull request, a note or a commit. `github[w]`
is the pull request at GitHub and `sent` every version a delivery carries; a handler takes
any of them at any time. `task[t]` is a loop: a queue loop handles deliveries and reviews
and suggests, an hourly loop reconciles (`ReconcileRepo`, `ListPullRequests`, one
`SyncPullRequest` per row, `FinishReconcile`). The clock counts half seconds, because
GitHub's timestamps are whole seconds and the window of a reconciliation starts one second
before the last. A suggestion is four steps, `StaleSuggestionSubjects`,
`SuggestionCandidates`, the call, and `Suggest`, which does not read its subject again. A
person sees a suggestion (`page`) before deciding on it. What a text names is a constant,
`Refs`: the linker is text matching.

### Cli

One machine, one server, one directory and project, several commands at once. `live` holds
the keys, which are numbers in the order of their issue; `via` is history, the command a
key was issued to. A command walks through `proc[p].pc`: it reads what the machine holds
(`ReadActive`, `ReadStored`, `ReadCached`), obtains a key by the device flow
(`CreateCLISession`, `CollectBegin`, `CollectCommit`) or with a setup key (`IssueBegin`,
`IssueCommit`), then stores, activates, tracks and links it, or undoes all that
(`Restore`, `RevokeAfterFailure`); a logout revokes first and then forgets (`GiveUp` to
`Deactivate`). Issuing takes two steps, between which `txn` holds what the transaction has
locked: the advisory lock of the person, the row of the setup key, the membership and the
project. A browser approves, denies, creates and deletes keys, and changes what a person
may do; `Fault` is a write that fails, an answer that is lost, or a crash.

### Conventions

An operator `X_Something` commented `Mutant:` is a plausible bug of operator `X`. It is
used by no specification; each shows that one property would notice that bug.

## 3. What the runs check

Each run ends within three minutes on two cores.

| Run | Instance | Question | Result |
| --- | --- | --- | --- |
| `JobQueue` | 2 deliveries, 2 workers, 2 attempts, 1 crash, 1 overrun, with fairness (84 k states) | Are claims fenced, deliveries kept, extra claims accounted for; does every delivery settle, the queue drain, the queue implement `Delivery`? | holds |
| `JobQueueRetry` | 1 delivery, 1 worker, the real limit of 5, 6 crashes | "maxJobAttempts is where retrying stops" (`job.go:12`) | violated, see below |
| `PlanningCarry` | 1 project, 2 sprints, 3 milestones of 2 names, 2 issues with every parent | Are reports frozen; do sub-issues nest? | holds |
| `PlanningApart` | 2 projects, 3 sprints, 2 dates, 2 milestones, 1 issue (100 k) | One active sprint, projects apart, issue and milestone agree, exactly the unfinished work carried? | holds |
| `AccessAdmins` | 2 people, 2 concurrent requests, with fairness (341 k) | Does an admin remain, is authority held to the commit, is `Organisation` implemented, is every request answered? | holds |
| `AccessInvites` | 2 people, 2 invitations, 3 links, 2 requests (1.03 M) | Unique invitations, single use, admission only by invitation, bound links? | holds |
| `LockOrder` | 3 transactions of 28 kinds (133 k) | Can these transactions wait in a circle? | never |
| `LockOrderLink` | a removal and an identity link | "revocation either wins before this lookup or waits" (`membership_identity.go:93`) | violated, see below |
| `Installation` | 1 installation, 2 organisations, 1 repository, 2 workers, 1 handler, 1 setup, 3 moves (1.84 M) | Is a synchronisation shown as running without a job, a suspension or a list undone by an older answer, evidence written over a change, when anything may fail or become a dead letter? | never |
| `Evidence` | 1 piece of work of any kind, 2 issues, both loops of one process, 1 person, 2 changes, 4 half seconds (1.1 M) | Is a pull request missed, does an older version win, does a step of a worker overrule a person? | never |
| `EvidenceSwapped` | the same with 1 suggestion that is answered twice | "a person confirmed a suggested link" (`0013_link_suggestions.sql`) | violated, see below |
| `Cli` | 2 people, 2 commands, a limit of 3 keys, 2 faults (2.4 M) | Is the limit kept, consent held, a failed command cleaned up, a logout final? | holds |

**Why the bounds are enough.** Two workers are the claim that overran and the one that
took over, and an overrun with a crash makes a third generation; attempts count up to one more than
the limit. Two sprints and a re-activation show a second close; two of one project with
one of another, on equal and different days, show the choice of the next sprint; three
milestones with two names give both a match and a missing name. Two requests are a
check and the commit it races with; the second admin is the one that remains. Three
transactions allow circles of two and of three; modelling found that the three-way ones
come from one row standing for two, hence the separate rows of section 2. One
name of milestones in `PlanningApart` cannot show several carried at once: `CarryForward`
proves those. Invitations of `AccessInvites` offer `member`, to an administrator, a member or
neither, and one administrator has both requests of a race between two: `Admission`
proves any other role. Three moves are
a change at GitHub, a second one that undoes it, and an overrun or a failure between them
(each change, request, overrun and failure is a move); a larger
instance (two installations, two moves, 446 k states) also holds and reaches a repository
that another organisation has. Two changes with four half seconds put an edit
into the second in which a reconciliation started and one after it; one title names both
issues, so that an issue created between two versions is linked late; two commands are a
logout and the init it races with, or two sign-ins; a machine starts empty or signed in,
so that two commands suffice for what would take three; a limit of three is reached by
two commands and a browser. Each bound is a constant with a comment; `InviteRoom` and
`LinkRoom` keep small tables from leaving a request hanging, and `Ops`, `Grants`,
`Parents` and `MilestoneStatuses` restrict the inputs of a run.

**Symmetry** is used by safety runs only; `Evidence` has none, since its texts name its
issues. Deadlock checking is off for the queue, which is idle when GitHub is silent, and
for `Installation`, `Evidence` and `Cli`, whose moves, changes and commands are used up;
all other systems can always take a step.

**Fairness.** `JobQueue`: `worker.Run` loops for as long as the process lives, so
claiming and settling are weakly fair for each worker, and time passes. Nothing obliges
GitHub to deliver, a worker to crash or the clean-up to run. `Access`: handlers run to
their end, and PostgreSQL serves the waiters of a row lock in a queue, which is strong
fairness of `Proceed`. Neither people nor aborts are fair. `Installation`, `Evidence` and
`Cli` assume no fairness: `SyncNeverForgotten` and `NothingMissed` say instead that what
is still to be done has somebody to do it, or is kept where the hourly schedule finds it.

### Three disagreements with the repository's own words

1. `job.go:12` says that retrying stops at `maxJobAttempts`. Only `FailJob` looks at the
   limit. A job whose worker dies, or outlives its lease, before `FailJob` is claimed
   again however many attempts it has had. What does hold is `RetriesAccounted`: each
   claim beyond the limit is paid for by a crash or an overrun.
2. `membership_identity.go:93` says that a revocation either precedes a link or waits for
   it. The link holds the membership and then needs `FOR KEY SHARE` on the workspace, for
   the foreign keys of the identity and of the activity it inserts; the revocation holds
   the workspace and then deletes the membership. Each waits for the other until
   PostgreSQL fails one.
3. `0013_link_suggestions.sql` says that an accepted suggestion shows "that a person
   confirmed a suggested link". Accepting names the suggestion, not its issue. If the text
   of the work changes, or the issue is closed, between the page and the click, the next
   answer replaces the issue of the same row, and the click links to an issue that nobody
   saw.

The other pairs with the shape of the second (add both to `Ops` of `LockOrderLink.cfg` to see
one): link or change of an identity, and issuing a first project key, against a change
of role or a removal; linking or changing an identity against an image upload; changing
an identity against evidence from a webhook; unlinking against a removal; opening a
plain sign-in link against opening an invitation link of the same address; remembering
the last organisation against each step of the GitHub setup; and dissolving the
organisation against logout, remembering, starting a GitHub link, approving or
collecting a CLI session, and the identity operations. That is why these are not among
the kinds of the `LockOrder` run.

## 4. What is proved

The proofs hold for all values of the constants that satisfy the named assumptions of
the modules: any numbers of deliveries, workers, rows, people, requests, transactions.

| Module | Theorems |
| --- | --- |
| `JobQueueProofs` | `TypeCorrect`, `Fencing` (`SoleGeneration`), `NewestClaimHolds` (`NewestClaimIsLive`), `Durability` (`NoDeliveryLost`), `RetryAccounting`, `Refinement` (`ImplementsDelivery`) |
| `PlanningProofs` | `TypeCorrect`, `SingleActive`, `Agreement`, `Nesting`, `FrozenReports`, `CarryForward`, `ProjectsStayApart` (`ProjectsApart`) |
| `AccessProofs` | `TypeCorrect`, `LastAdmin`, `Authority`, `UniqueInvite`, `LinksSingleUse`, `Admission`, `LinksStayBound`, `Isolation`, `LockReleased`, `Refinement` (`ImplementsOrganisation`) |
| `LockOrderProofs` | `TypeCorrect`, `OrderlyIsSafe` and `WorkspaceFirstIsSafe` (both `NoDeadlock`) |
| `InstallationProofs` | `Invariance`, `TypeCorrect`, `SyncNeverForgottenHolds`, `SuspensionMirroredHolds`, `ListingSettledHolds`, `EvidenceUndisturbedHolds` |
| `EvidenceProofs` | `Invariance`, `TypeCorrect`, `NothingIsMissed` (`NothingMissed`), `NewestAlwaysWins` (`NewestWins`), `StepsNeverOverrule` (`NoStepOverrules`) |
| `CliProofs` | `TypeCorrect`, `QuotaHolds` (`QuotaKept`), `ConsentAlwaysHeld` (`ConsentHeld`), `NothingIsLeftBehind` (`NothingLeftBehind`), `RevocationHolds` (`RevokedForGood`) |

**Queue.** The invariant is `TypeOK /\ DeliveryInv /\ FenceInv /\ RetryInv`. `FenceInv` adds
to the checked properties that no generation exceeds `attempts` (`ClaimsAreOld`), so that
the next claim is new; `DeliveryInv` that a delivery and its job exist together
(`RowsAgree`) and that a worker past the commit has committed and past the stamp has
stamped (`HandlerProgress`); `RetryInv` that a waiting job which no worker holds under
its newest claim has room for one more claim (`RoomForClaim`). None of the checked
properties is inductive without its addition.

**Planning.** `OneActiveSprint`, `ProjectAgrees` and `OneLevelDeep` are inductive given
types. `CarryUnfinished` follows from a step lemma about `RollForward`: the fresh
milestones are injective on missing names, so each carried milestone has a target.
`ProjectsApart` holds because the sprint
that follows is always of the project of the one that ends (`NextSprintsExist`), and a
roll-forward writes the unfinished issues of the one and milestones of the other only
(`RollForwardEffect`).

**Access.** The invariant adds to the properties `RequestFits` (arguments match the
operation), `SectionInv` (a request past the lock is the holder of the lock and the
organisation is open), `CheckedInv` (what `Check` allowed is still true) and `LinkInv`
(a link loses its invitation only by being consumed). `SectionInv` is the heart: at most one
request is between lock and commit, so nothing that `Check` read can change. `Isolation`
states it as an action property: from its lock to its end a transaction sees one state of
the organisation, expiring invitations apart, which is why `Planning` may take a
transaction as one step. `LockReleased` is the converse of `SectionInv` and the safety half
of `EveryRequestEnds`: who waits for the lock waits for a request that is inside.

**Locks.** If every operation locks the workspace `FOR UPDATE` first, at most one
transaction holds anything, and it waits for nobody (`WorkspaceFirstIsSafe`, which needs no
look at the scripts). `OrderlyIsSafe` is about the 28 kinds of the run, thirteen of which
do not begin with the workspace, for any number of transactions. The invariant is that
locks which conflict are never held together (`ConflictFree`). The rest is an order of the locks, `Level`: a waiting transaction has the
level of the lock it wants (`Rank`), which is below everything it holds (`Sound`, one lemma
per kind), so whoever waits has a higher level than whom it waits for (`WaitsDescend`), and
among any transactions one of least level waits for none of the others. No order of rows
does alone. The level of a session or a person depends on the mode, `Until` being the
least level that can wait for a held lock; two locks that run against the order are only
taken under the workspace (`UnderWorkspace`); and a logout, which takes the GitHub states
of a session in another order than the setup does, has first excluded everybody who could
hold one (`UnderSession`, `LogoutNeverWaits`). A new transaction is safe if its script
passes `Sound`.

**Installations.** The invariant `IInv` is one conjunct per sentence. Nothing a job, an
answer or a handler carries is ahead of its installation's generation (`Generations`), so
that raising the generation makes all of them stale at once. What a worker of the current
generation read from GitHub is what GitHub says now, or a delivery is on its way
(`Fresh`), which gives `SuspensionMirrored` (through `Mirrored`) and `ListingSettled`. A
delivery is on its way while it waits, or a worker whose lease holds has it, or it is a dead
letter; a worker that outlived its lease does not count, since the delivery waits again
(`Undelivered`, and `HasJob` of jobs). Either stays so until its handler has acted
(`UndeliveredKept`). `SyncNeverForgotten` needs that a worker
which backfills has synchronised (`Backfilled`) and that the state is asked of suspended
installations only (`StateAsked`); `EvidenceUndisturbed` that a handler which was disturbed
is behind its installation (`ReadersFenced`). `Bindings`, `RepoHome` and `TaskShape` tie
the rows together.

**Evidence.** `NothingMissed` says that a pull request which Velvet lacks, or has in an
older version, lies in the window of the next reconciliation. It is not inductive: a
reconciliation that ends moves the window, so what it listed must be accounted for while
it runs. `Windows` does so for each loop: before the listing, what Velvet is behind on and
GitHub had before the reconciliation began is in the window it will list; after it, such
versions are still in `todo`, as long as the loop may write at all (`Fenced`), so when
`todo` is empty only later changes remain, and the next window begins before those. `Past`
keeps what GitHub and the repository have stamped behind the clock. The one second that
`Since` subtracts is used once, in `SecondBounds`: a whole second is less than a second
older than the moment it stands for. `NewestWins` and `NoStepOverrules` are action properties
that need types only; their proofs go through `Upsert` and `Suggest` as the SQL does,
condition by condition.

**Keys.** `Core` is types, the flow of a command (`Flow`: which commands come to which
point and what they know there), that every key anybody remembers was issued
(`KnownInv`), and what an open transaction may rely on (`TxnInv`). On it rest four
invariants. Quota: a transaction that will add a key is alone with the keys of its person,
and there is room (`RoomInv`); this needs a limit of two or more, what an initial machine
holds (`LimitAssumption`; twenty in the code). Consent: a command that could not be given
a key yet has none (`UnkeyedInv`), and a collected session never changes. Cleaning up
(`CleanInv`): keys of commands are distinct, a key that its command has not stored is known
to nobody else (`Secret`), and a stored one is where its command put it or where another
command, which had read it there, put it back (`Placed`). Logouts: a new key is new,
and one with a parent is issued while the parent is there and locked.

**Only model-checked.** Liveness (`EveryDeliverySettles`, `QueueDrains`,
`EveryRequestEnds`), since TLAPS has no fairness reasoning here. Their safety halves are
proved: `RetriesAccounted` bounds the claims of a job, `NoDeliveryLost` keeps a job for
every unsettled delivery, `LockReleased` keeps a lock with a running request. Every other
property of the passing runs is a theorem.

## 5. What is abstracted

* A transaction under the workspace lock is one step of `Planning`; `Access` shows the
  steps between admission and commit, and that the lock excludes others.
* One organisation. Rows of different organisations share only people and the queue.
* Time: expiry, leases and backoff end at any moment. Limits per minute and per hour
  (sign-in links, CLI sessions) are not modelled; `Links` bounds issuance.
* Content: titles, texts, slugs, colours, descriptions, mails, HTML.
* What a webhook handler writes is one commit of `JobQueue`; its content belongs to
  `Installation` and `Evidence`.
* `Installation`: a delivery whose installation changed owner is always tried again (the
  code gives up after five attempts, more owners than come and go); equal deliveries that
  wait together are one; rate limits and the expiry of setup states are left out. A dead
  letter stays: its purge after thirty days is `JobQueue`'s. `SyncNeverForgotten` accepts one,
  because the hourly schedule, which counts live jobs only, then asks again;
  `SuspensionMirrored` and `ListingSettled` accept one of an event, which nothing retries: the
  installation may differ from GitHub until the next event or synchronisation. A
  synchronisation whose failure was recorded stays failed until somebody asks again, as in
  the code.
* `Installation` shows one more thing that no property forbids. A worker that outlived its
  lease may handle an old `suspend` after the handler of `unsuspend` has raised the
  generation; the check or the recording then fails. The installation stays suspended at
  Velvet alone, with no error recorded and no job, and the schedule skips suspended
  installations, until an event or an administrator asks. Velvet then reads less than it
  may; it never treats a suspended installation as served.
* `Evidence`: one repository, whose generations come and go at will; disconnecting and
  connecting it again within one generation, by two overlapping synchronisations, is left
  out. A first synchronisation reads ninety days, longer than the model lives. The clocks
  of GitHub and the server differ by less than the second of margin. Two versions within
  one second tie, and the later to arrive wins (`>=`), as in the SQL. Review rows, activity
  and the size and state of a pull request are left out, the last because they go with its
  version; suggestions are switched on, and the thirty days after which "no match" is asked
  again are not counted. An issue created during the slow call is never among its
  candidates; it makes a "no match" stale only if it is created after that is stored.
* `NoStepOverrules` is about one step of a worker and a row that exists. What a person took
  away can come back in several steps. `Unlink` deletes the link, and the next event or
  reconciliation of the pull request inserts it again as automatic if its text still names
  the issue (`pull_request.go:176-187`). A dismissal is a field of the suggestion, so an
  answer with another issue, or none, clears it, and a later answer with the first issue is
  shown again; `suggestion.go:292` promises that a dismissal survives only "a re-ask that
  lands on the same issue", and goes on "so a person is not shown a suggestion they already
  turned down", which is then not so. The model does both; no run is devoted to it.
* `Cli`: one project and one server. The keychain and the directory bindings are left out,
  the binding being written with `velvet.yaml` or not at all, and the keys of the desktop
  application, collected in the same way. Whether a person may write and whether the project
  is active are one flag, `writer`: the code asks for the role at approval and for both at
  collection, so the model lets more through at approval and as much at collection. A poll while the session is pending changes
  nothing. Looking up and deleting a key to revoke it is one step. The code accepts these
  races, and no property forbids them: two sign-ins at once, a lost answer or a crash leave
  a live key that no machine holds; a logout may delete a login stored since, drop a
  project key that another account has just put there, or clear an account activated in
  between; undoing a failure may overwrite a newer key.

## 6. Plan

Done: 1 `JobQueue` with `Delivery`, 2 `Planning`, 3 `Access` with `Organisation`,
4 `LockOrder`, 5 `Installation`, 6 `Cli`, 7 `Evidence`, each with its proofs.

| Next | Module | Questions | Composes |
| --- | --- | --- | --- |
| 8 | `Images` | quotas per target, organisation and bytes under concurrent uploads | |
| 9 | `Fracdex` | the midpoint lies strictly between, against the order of strings, on bounded inputs; positions after a roll-forward | `Planning` |
| 10 | `Updater`, `Rollout`, `Stream` | an update leaves one working version; writers stopped before a migration; views converge after dropped events | |

Not planned: the HTTP, mail and AI clients, parsing and matching of text, rendering, and
the web client, which have no state the properties tell apart; the agent plugins,
documentation, end-to-end tests and benchmarks.
