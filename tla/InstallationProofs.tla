-------------------------- MODULE InstallationProofs --------------------------
(***************************************************************************)
(* Proofs about Installation, for every set of organisations,              *)
(* installations, repositories, workers and handlers.                      *)
(*                                                                         *)
(* What makes the properties inductive: a generation a job, an answer or a *)
(* handler carries is never ahead of its installation's, so raising the    *)
(* generation makes all of them stale at once; what one of the current     *)
(* generation has read is what GitHub says now, or a delivery is on its    *)
(* way (Fresh); and a delivery counts as on its way only while it waits,   *)
(* its lease still holds or it is a dead letter: a worker that lost its    *)
(* lease cannot bring it back.                                             *)
(***************************************************************************)
EXTENDS Installation, TLAPS

\* One binding per organisation, verified, of organisations that exist.
Bindings ==
  /\ \A i \in Installations : installation[i].owner \in workspace \cup {None}
  /\ \A i \in Installations : installation[i].owner # None => installation[i].verified
  /\ \A i, o \in Installations :
       installation[i].owner = installation[o].owner /\ i # o => installation[i].owner = None

\* A repository belongs to the organisation its installation is bound to,
\* unless the installation was deleted at GitHub; without a row it is inactive.
RepoHome ==
  \A x \in Repos :
    IF repo[x].ws = None THEN ~repo[x].active /\ repo[x].inst = None
    ELSE /\ repo[x].inst \in Installations
         /\ \/ installation[repo[x].inst].owner = repo[x].ws
            \/ installation[repo[x].inst].deleted /\ repo[x].ws \in workspace

\* What a worker runs agrees with what it took from the queue.
TaskShape ==
  \A t \in Workers : Busy(t) =>
    /\ task[t].pc = "event" => task[t].work.kind = "event"
    /\ IF task[t].work.kind = "event"
         THEN task[t].sync.kind = "state" /\ task[t].sync.inst = task[t].work.inst
         ELSE task[t].sync = task[t].work
    /\ task[t].pc = "backfill" => task[t].sync.kind = "repos"

\* No generation is ahead of its installation's.
Generations ==
  /\ \A j \in queue : j.kind # "event" => j.gen <= installation[j.inst].gen
  /\ \A t \in Workers : Busy(t) => task[t].sync.gen <= installation[task[t].sync.inst].gen

\* Only of a suspended installation is GitHub asked for the state.
StateAsked ==
  /\ \A j \in queue : j.kind = "state" /\ j.gen = installation[j.inst].gen
                                     /\ installation[j.inst].owner # None
       => installation[j.inst].suspended
  /\ \A t \in Workers :
       LET s == task[t].sync
       IN  Busy(t) /\ task[t].pc # "event" /\ s.kind = "state"
             /\ s.gen = installation[s.inst].gen /\ installation[s.inst].owner # None
           => installation[s.inst].suspended

\* A worker that backfills at the current generation has synchronised.
Backfilled ==
  \A t \in Workers :
    task[t].pc = "backfill" /\ task[t].sync.gen = installation[task[t].sync.inst].gen
      => installation[task[t].sync.inst].synced

\* GitHub's suspension is in the row, or on its way, bound or not.
Mirrored ==
  \A i \in Installations :
    github[i].state = "suspended" /\ ~installation[i].deleted =>
      installation[i].suspended \/ Undelivered(i, {"suspend"})

\* An answer of the current generation still holds, or its refutation is on
\* its way.
FreshTask(t) ==
  LET i == task[t].sync.inst
  IN  task[t].pc = "apply" /\ task[t].sync.gen = installation[i].gen =>
        /\ task[t].sync.kind = "state" /\ ~task[t].suspended /\ ~installation[i].deleted
             => github[i].state # "suspended" \/ Undelivered(i, {"suspend"})
        /\ task[t].sync.kind = "repos" /\ Serving(i)
             => \/ task[t].listing = github[i].repos
                \/ Undelivered(i, {"repositories", "deleted"})

Fresh == \A t \in Workers : FreshTask(t)

\* A handler that captured a generation is up to date and undisturbed, or
\* will not pass the fence again.
ReadersFenced ==
  \A r \in Readers :
    LET e == reader[r]
    IN  /\ e.pc = "resolved" => ~e.disturbed
        /\ e.pc = "resolved" =>
             \/ e.ws \notin workspace
             \/ /\ repo[e.repo].ws = e.ws
                /\ repo[e.repo].inst = e.inst \/ installation[e.inst].deleted
        /\ e.pc = "captured" =>
             \/ e.ws \notin workspace \/ installation[e.inst].deleted
             \/ e.gen < installation[e.inst].gen
             \/ /\ e.gen = installation[e.inst].gen /\ installation[e.inst].owner = e.ws
                /\ ~e.disturbed

IInv ==
  /\ TypeOK /\ Bindings /\ RepoHome /\ TaskShape /\ Generations /\ StateAsked
  /\ Backfilled /\ SyncNeverForgotten /\ Mirrored /\ Fresh /\ ListingSettled /\ ReadersFenced
  /\ EvidenceUndisturbed

-----------------------------------------------------------------------------
(* Types.                                                                  *)

\* A request raises the generation, clears the outcome and keeps the rest.
LEMMA ResyncRow ==
  ASSUME NEW row \in Row
  PROVE  /\ Resync(row) \in Row
         /\ Resync(row).gen = row.gen + 1 /\ ~Resync(row).synced /\ ~Resync(row).error
         /\ Resync(row).owner = row.owner /\ Resync(row).verified = row.verified
         /\ Resync(row).suspended = row.suspended /\ Resync(row).deleted = row.deleted
<1>1. PICK n \in Nat : n = row.gen + 1
  BY DEF Row
<1>2. [row EXCEPT !.gen = n, !.synced = FALSE, !.error = FALSE] \in Row
  BY DEF Row
<1>3. Resync(row) \in Row
  BY <1>1, <1>2 DEF Resync
<1>4. Resync(row).gen = row.gen + 1 /\ Resync(row).owner = row.owner
  BY DEF Resync, Row
<1>5. ~Resync(row).synced /\ ~Resync(row).error
  BY DEF Resync, Row
<1>6. Resync(row).verified = row.verified
  BY DEF Resync, Row
<1>7. Resync(row).suspended = row.suspended
  BY DEF Resync, Row
<1>8. Resync(row).deleted = row.deleted
  BY DEF Resync, Row
<1> QED
  BY <1>3, <1>4, <1>5, <1>6, <1>7, <1>8, Zenon

\* The other updates of a row.
LEMMA RowUpdates ==
  ASSUME NEW row \in Row
  PROVE  /\ [row EXCEPT !.owner = None] \in Row
         /\ [row EXCEPT !.synced = TRUE, !.error = FALSE] \in Row
         /\ Suspended(row) \in Row /\ Suspended(row).gen = row.gen + 1
         /\ Deleted(row) \in Row /\ Deleted(row).gen = row.gen + 1
         /\ Suspended(row).suspended /\ Suspended(row).owner = row.owner
         /\ Deleted(row).deleted /\ Deleted(row).owner = None
<1>1. PICK n \in Nat : n = row.gen + 1
  BY DEF Row
<1>2. [row EXCEPT !.owner = None] \in Row
  BY DEF Row, Owners
<1>3. [row EXCEPT !.synced = TRUE, !.error = FALSE] \in Row
  BY DEF Row
<1>4. [row EXCEPT !.suspended = TRUE, !.gen = n] \in Row
  BY DEF Row
<1>5. [row EXCEPT !.deleted = TRUE, !.owner = None, !.verified = FALSE,
                  !.gen = n, !.error = FALSE] \in Row
  BY DEF Row, Owners
<1>6. Suspended(row) \in Row /\ Deleted(row) \in Row
  BY <1>1, <1>4, <1>5 DEF Suspended, Deleted
<1>7. /\ Suspended(row).gen = row.gen + 1 /\ Deleted(row).gen = row.gen + 1
      /\ Suspended(row).owner = row.owner /\ Deleted(row).owner = None
  BY DEF Suspended, Deleted, Row
<1>8. Suspended(row).suspended /\ Deleted(row).deleted
  BY DEF Suspended, Deleted, Row
<1> QED
  BY <1>2, <1>3, <1>6, <1>7, <1>8, Zenon

\* A failed synchronisation changes the error only.
LEMMA RowError ==
  ASSUME NEW row \in Row, NEW e
  PROVE  [row EXCEPT !.error = row.error \/ e] \in Row
<1>1. PICK b \in BOOLEAN : b = (row.error \/ e)
  OBVIOUS
<1>2. [row EXCEPT !.error = b] \in Row
  BY DEF Row
<1> QED
  BY <1>1, <1>2, Zenon

\* A row whose suspension may be lifted is a row.
LEMMA RowLifted ==
  ASSUME NEW row \in Row, NEW e
  PROVE  [row EXCEPT !.error = FALSE, !.suspended = row.suspended /\ e] \in Row
<1>1. PICK b \in BOOLEAN : b = (row.suspended /\ e)
  OBVIOUS
<1>2. [row EXCEPT !.error = FALSE, !.suspended = b] \in Row
  BY DEF Row
<1> QED
  BY <1>1, <1>2, Zenon

\* The job of a row is of its installation, organisation and generation.
LEMMA SyncJobOf ==
  ASSUME NEW i \in Installations, NEW row \in Row
  PROVE  /\ SyncJob(i, row) \in InstallationSync
         /\ SyncJob(i, row).kind = IF row.suspended THEN "state" ELSE "repos"
         /\ SyncJob(i, row).inst = i /\ SyncJob(i, row).ws = row.owner
         /\ SyncJob(i, row).gen = row.gen
<1>1. SyncJob(i, row) \in InstallationSync
  BY DEF SyncJob, InstallationSync, Row
<1>2. SyncJob(i, row).kind = IF row.suspended THEN "state" ELSE "repos"
  BY DEF SyncJob, InstallationSync, Row
<1>3. SyncJob(i, row).inst = i /\ SyncJob(i, row).ws = row.owner /\ SyncJob(i, row).gen = row.gen
  BY DEF SyncJob
<1> QED
  BY <1>1, <1>2, <1>3

\* The columns of a row.
LEMMA RowOf ==
  ASSUME TypeOK, NEW i \in Installations
  PROVE  /\ installation[i] \in Row /\ installation[i].owner \in Owners
         /\ installation[i].gen \in Nat /\ installation[i].verified \in BOOLEAN
         /\ installation[i].suspended \in BOOLEAN /\ installation[i].deleted \in BOOLEAN
         /\ installation[i].synced \in BOOLEAN /\ installation[i].error \in BOOLEAN
  BY DEF TypeOK, Row

\* The fields of what a worker runs.
LEMMA TaskOf ==
  ASSUME TypeOK, NEW t \in Workers, task[t].pc # "idle"
  PROVE  /\ task[t] \in Task /\ task[t].live \in BOOLEAN /\ task[t].suspended \in BOOLEAN
         /\ task[t].work \in Delivery \cup InstallationSync
         /\ task[t].sync \in InstallationSync /\ task[t].sync.inst \in Installations
         /\ task[t].sync.gen \in Nat /\ task[t].sync.ws \in Owners
         /\ task[t].listing \in SUBSET Repos
<1>1. task[t] \in Task
  BY DEF TypeOK, Idle
<1> QED
  BY <1>1 DEF Task, InstallationSync

\* The fields of a handler.
LEMMA ReaderOf ==
  ASSUME TypeOK, NEW r \in Readers, reader[r].pc \in {"resolved", "captured"}
  PROVE  /\ reader[r] \in Reader /\ reader[r].repo \in Repos /\ reader[r].ws \in Workspaces
         /\ reader[r].inst \in Installations /\ reader[r].gen \in Nat
<1>1. reader[r] \in Reader
  BY DEF TypeOK, Idle, Written
<1> QED
  BY <1>1 DEF Reader

\* Every action keeps the types.
LEMMA TypeStep ==
  ASSUME IInv, Next PROVE TypeOK'
<1>f. TypeOK /\ RepoHome
  BY DEF IInv
<1>1. ASSUME NEW i \in Installations, GitHubSuspend(i) PROVE TypeOK'
  BY <1>f, <1>1 DEF GitHubSuspend, GitHubChange, Move, TypeOK, Row,
    Delivery, InstallationSync, Task, Idle, Owners, Actions, Reader,
    SetupState, Written, NewRow
<1>2. ASSUME NEW i \in Installations, GitHubUnsuspend(i) PROVE TypeOK'
  BY <1>f, <1>2 DEF GitHubUnsuspend, GitHubChange, Move, TypeOK, Row,
    Delivery, InstallationSync, Task, Idle, Owners, Actions, Reader,
    SetupState, Written, NewRow
<1>3. ASSUME NEW i \in Installations, GitHubDelete(i) PROVE TypeOK'
  BY <1>f, <1>3 DEF GitHubDelete, GitHubChange, Move, TypeOK, Row,
    Delivery, InstallationSync, Task, Idle, Owners, Actions, Reader,
    SetupState, Written, NewRow
<1>4. ASSUME NEW i \in Installations, NEW repos \in SUBSET Repos, GitHubSetRepos(i, repos) PROVE TypeOK'
  BY <1>f, <1>4 DEF GitHubSetRepos, GitHubChange, Move, TypeOK, Row,
    Delivery, InstallationSync, Task, Idle, Owners, Actions, Reader,
    SetupState, Written, NewRow
<1>5. ASSUME NEW i \in Installations, RequestInstallationSync(i) PROVE TypeOK'
  <2>1. installation' \in [Installations -> Row]
    BY <1>f, <1>5, RowOf, ResyncRow DEF RequestInstallationSync, EnqueueSync, TypeOK, Move
  <2>2. queue' \subseteq Delivery \cup InstallationSync
    BY <1>f, <1>5, RowOf, ResyncRow, SyncJobOf DEF RequestInstallationSync, EnqueueSync, TypeOK, Move
  <2> QED
    BY <1>f, <1>5, <2>1, <2>2 DEF TypeOK, RequestInstallationSync, Move
<1>6. ASSUME NEW i \in Installations, ScheduleInstallationSyncs(i) PROVE TypeOK'
  <2>1. installation' \in [Installations -> Row]
    BY <1>f, <1>6, RowOf, ResyncRow DEF ScheduleInstallationSyncs, EnqueueSync, TypeOK, Move
  <2>2. queue' \subseteq Delivery \cup InstallationSync
    BY <1>f, <1>6, RowOf, ResyncRow, SyncJobOf DEF ScheduleInstallationSyncs, EnqueueSync, TypeOK, Move
  <2> QED
    BY <1>f, <1>6, <2>1, <2>2 DEF TypeOK, ScheduleInstallationSyncs, Move
<1>7. ASSUME NEW w \in Workspaces, DeleteWorkspace(w) PROVE TypeOK'
  <2>1. installation' \in [Installations -> Row]
    BY <1>f, <1>7, RowOf, RowUpdates DEF DeleteWorkspace, TypeOK
  <2>2. repo' \in [Repos -> [ws: Owners, inst: Installations \cup {None}, active: BOOLEAN]]
    BY <1>f, <1>7 DEF DeleteWorkspace, Owners, TypeOK
  <2>3. setup' \in [Setups -> SetupState]
    BY <1>f, <1>7 DEF DeleteWorkspace, SetupState, TypeOK
  <2>4. reader' \in [Readers -> Reader \cup {Idle} \cup {Written(d) : d \in BOOLEAN}]
    <3>1. ASSUME NEW r \in Readers, reader[r].pc = "captured"
          PROVE  [reader[r] EXCEPT !.disturbed = TRUE] \in Reader
      BY <1>f, <3>1, ReaderOf DEF Reader
    <3> QED
      BY <1>f, <1>7, <3>1 DEF DeleteWorkspace, TypeOK
  <2>5. workspace' \subseteq Workspaces /\ moves' \in Nat /\ UNCHANGED <<github, queue, dead, task>>
    BY <1>f, <1>7 DEF DeleteWorkspace, Move, TypeOK
  <2> QED
    BY <1>f, <1>7, <2>1, <2>2, <2>3, <2>4, <2>5 DEF TypeOK
<1>8. ASSUME NEW g \in Setups, NEW w \in Workspaces, CreateGitHubSetup(g, w) PROVE TypeOK'
  BY <1>f, <1>8 DEF CreateGitHubSetup, TypeOK, Row, Delivery,
    InstallationSync, Task, Idle, Owners, Actions, Reader, SetupState,
    Written, NewRow
<1>9. ASSUME NEW g \in Setups, NEW i \in Installations, StartGitHubInstallationAuthorization(g, i) PROVE TypeOK'
  BY <1>f, <1>9 DEF StartGitHubInstallationAuthorization, TypeOK, Row,
    Delivery, InstallationSync, Task, Idle, Owners, Actions, Reader,
    SetupState, Written, NewRow
<1>10. ASSUME NEW g \in Setups, ClaimGitHubAuthorization(g) PROVE TypeOK'
  <2>1. setup[g] \in [phase: {"authorization"}, ws: Workspaces, inst: Installations]
    BY <1>f, <1>10 DEF ClaimGitHubAuthorization, TypeOK, SetupState
  <2>2. setup' \in [Setups -> SetupState]
    BY <1>f, <1>10, <2>1 DEF ClaimGitHubAuthorization, TypeOK, SetupState
  <2> QED
    BY <1>f, <1>10, <2>1, <2>2 DEF TypeOK, ClaimGitHubAuthorization
<1>11. ASSUME NEW g \in Setups, BindInstallation(g) PROVE TypeOK'
  <2> DEFINE i == setup[g].inst
            row == [installation[i] EXCEPT !.owner = setup[g].ws, !.verified = TRUE]
  <2>1. setup[g] \in [phase: {"claimed"}, ws: Workspaces, inst: Installations]
    BY <1>f, <1>11 DEF BindInstallation, TypeOK, SetupState
  <2>2. i \in Installations /\ row \in Row
    BY ZenonT(40), <1>f, <2>1, RowOf DEF Row, Owners
  <2>3. /\ installation' \in [Installations -> Row]
        /\ queue' \subseteq Delivery \cup InstallationSync
    <3>1. \/ EnqueueSync(i, row)
          \/ UNCHANGED <<installation, queue>>
      BY <1>11 DEF BindInstallation
    <3>2. Resync(row) \in Row /\ SyncJob(i, Resync(row)) \in InstallationSync
      <4> HIDE DEF i, row
      <4> QED BY <2>2, ResyncRow, SyncJobOf
    <3> HIDE DEF i, row
    <3> QED
      BY <1>f, <2>2, <3>1, <3>2 DEF EnqueueSync, TypeOK
  <2>4. setup' \in [Setups -> SetupState]
    BY <1>f, <1>11 DEF BindInstallation, TypeOK, SetupState
  <2> QED
    BY <1>f, <1>11, <2>3, <2>4 DEF TypeOK, BindInstallation
<1>12. ASSUME NEW t \in Workers, NEW j \in queue, ClaimJob(t, j) PROVE TypeOK'
  BY <1>f, <1>12 DEF ClaimJob, Busy, TypeOK, Row, Delivery,
    InstallationSync, Task, Idle, Owners, Actions, Reader, SetupState,
    Written, NewRow
<1>13. ASSUME NEW t \in Workers, Overrun(t) PROVE TypeOK'
  <2>1. task[t] \in Task
    BY <1>f, <1>13, TaskOf DEF Overrun, Busy
  <2>2. [task[t] EXCEPT !.live = FALSE] \in Task
    BY <2>1 DEF Task
  <2>3. task' \in [Workers -> Task \cup {Idle}]
    BY <1>f, <1>13, <2>2 DEF Overrun, Settle, TypeOK
  <2>4. queue' \subseteq Delivery \cup InstallationSync
    BY <1>f, <1>13, <2>1, TaskOf DEF Overrun, Requeued, TypeOK, Busy
  <2> QED
    BY <1>f, <1>13, <2>1, <2>2, <2>3, <2>4 DEF TypeOK, Overrun, Move
<1>14. ASSUME NEW t \in Workers, InstallationEventMoved(t) PROVE TypeOK'
  BY <1>f, <1>14 DEF InstallationEventMoved, Settle, Requeued, Moved,
    TypeOK, Row, Delivery, InstallationSync, Task, Idle, Owners, Actions,
    Reader, SetupState, Written, NewRow
<1>15. ASSUME NEW t \in Workers, InstallationEventNothing(t) PROVE TypeOK'
  BY <1>f, <1>15 DEF InstallationEventNothing, Settle, Moved, Serving,
    Bound, TypeOK, Row, Delivery, InstallationSync, Task, Idle, Owners,
    Actions, Reader, SetupState, Written, NewRow
<1>16. ASSUME NEW t \in Workers, InstallationEventDeleted(t) PROVE TypeOK'
  <2>1. task[t].sync.inst \in Installations
    BY <1>f, <1>16, TaskOf DEF InstallationEventDeleted
  <2>2. installation' \in [Installations -> Row]
    <3> DEFINE old == installation[task[t].sync.inst]
    <3>1. old \in Row
      BY <1>f, <2>1, RowOf
    <3>2. Deleted(old) \in Row
      BY <3>1, RowUpdates
    <3> QED
      BY <1>f, <1>16, <2>1, <3>2 DEF InstallationEventDeleted, TypeOK
  <2>3. repo' \in [Repos -> [ws: Owners, inst: Installations \cup {None}, active: BOOLEAN]]
    BY <1>f, <1>16 DEF InstallationEventDeleted, TypeOK
  <2>4. reader' \in [Readers -> Reader \cup {Idle} \cup {Written(d) : d \in BOOLEAN}]
    <3>1. ASSUME NEW r \in Readers, reader[r].pc = "captured"
          PROVE  [reader[r] EXCEPT !.disturbed = TRUE] \in Reader
      BY <1>f, <3>1, ReaderOf DEF Reader
    <3> QED
      BY <1>f, <1>16, <3>1 DEF InstallationEventDeleted, Disturb, TypeOK
  <2> QED
    BY <1>f, <1>16, <2>1, <2>2, <2>3, <2>4 DEF TypeOK, InstallationEventDeleted, Settle
<1>17. ASSUME NEW t \in Workers, InstallationEventSuspension(t) PROVE TypeOK'
  <2>1. task[t] \in Task /\ task[t].sync \in InstallationSync /\ task[t].sync.inst \in Installations
    BY <1>f, <1>17, TaskOf DEF InstallationEventSuspension
  <2>2. installation' \in [Installations -> Row]
    <3> DEFINE old == installation[task[t].sync.inst]
    <3>1. old \in Row
      BY <1>f, <2>1, RowOf
    <3>2. Suspended(old) \in Row
      BY <3>1, RowUpdates
    <3> QED
      BY <1>f, <1>17, <2>1, <3>2 DEF InstallationEventSuspension, TypeOK
  <2>3. task' \in [Workers -> Task \cup {Idle}]
    <3> DEFINE s == [task[t].sync EXCEPT !.gen = installation[task[t].sync.inst].gen + 1]
                k == [task[t] EXCEPT !.pc = "check", !.sync = s]
    <3>1. s \in InstallationSync
      BY <1>f, <2>1, RowOf DEF InstallationSync
    <3>2. k \in Task
      BY <2>1, <3>1 DEF Task
    <3>3. task' = [task EXCEPT ![t] = k]
      BY <1>f, <1>17, <2>1 DEF InstallationEventSuspension, Task, TypeOK
    <3> QED
      BY <1>f, <3>2, <3>3 DEF TypeOK
  <2>4. reader' \in [Readers -> Reader \cup {Idle} \cup {Written(d) : d \in BOOLEAN}]
    <3>1. ASSUME NEW r \in Readers, reader[r].pc = "captured"
          PROVE  [reader[r] EXCEPT !.disturbed = TRUE] \in Reader
      BY <1>f, <3>1, ReaderOf DEF Reader
    <3> QED
      BY <1>f, <1>17, <3>1 DEF InstallationEventSuspension, Disturb, TypeOK
  <2> QED
    BY <1>f, <1>17, <2>1, <2>2, <2>3, <2>4 DEF TypeOK, InstallationEventSuspension
<1>18. ASSUME NEW t \in Workers, InstallationEventRepositories(t) PROVE TypeOK'
  <2>1. task[t].sync.inst \in Installations
    BY <1>f, <1>18, TaskOf DEF InstallationEventRepositories
  <2>2. installation' \in [Installations -> Row]
    BY <1>f, <1>18, <2>1, RowOf, ResyncRow DEF InstallationEventRepositories, EnqueueSync, TypeOK
  <2>3. queue' \subseteq Delivery \cup InstallationSync
    BY <1>f, <1>18, <2>1, RowOf, ResyncRow, SyncJobOf DEF InstallationEventRepositories, EnqueueSync, TypeOK
  <2> QED
    BY <1>f, <1>18, <2>1, <2>2, <2>3 DEF TypeOK, InstallationEventRepositories, Settle
<1>19. ASSUME NEW t \in Workers, CheckCurrent(t) PROVE TypeOK'
  <2>1. task[t] \in Task
    BY <1>f, <1>19, TaskOf DEF CheckCurrent, Busy
  <2>2. [task[t] EXCEPT !.pc = "ask"] \in Task
    BY <2>1 DEF Task
  <2> QED
    BY <1>f, <1>19, <2>1, <2>2 DEF TypeOK, CheckCurrent, Settle
<1>20. ASSUME NEW t \in Workers, AskGitHub(t) PROVE TypeOK'
  <2> DEFINE i == task[t].sync.inst
            k == [task[t] EXCEPT !.pc = "apply",
                    !.listing = IF task[t].sync.kind = "repos" THEN github[i].repos ELSE {},
                    !.suspended = github[i].state = "suspended"]
  <2>1. task[t] \in Task /\ i \in Installations
    BY <1>f, <1>20, TaskOf DEF AskGitHub
  <2>2. github[i].repos \in SUBSET Repos
    BY <1>f, <2>1 DEF TypeOK
  <2>3. k \in Task
    BY <2>1, <2>2, Zenon DEF Task
  <2>4. task' = [task EXCEPT ![t] = k]
    BY <1>f, <1>20, <2>1 DEF AskGitHub, Task, TypeOK
  <2> QED
    BY SMTT(30), <1>f, <1>20, <2>3, <2>4 DEF TypeOK, AskGitHub
<1>21. ASSUME NEW t \in Workers, SyncFails(t) PROVE TypeOK'
  <2>1. task[t] \in Task /\ task[t].sync.inst \in Installations
    BY <1>f, <1>21, TaskOf DEF SyncFails
  <2>2. installation' \in [Installations -> Row]
    <3>1. CASE FailInstallationSync(task[t].sync)
      BY <1>f, <2>1, <3>1, RowOf, RowError DEF FailInstallationSync, TypeOK
    <3>2. CASE UNCHANGED installation
      BY <1>f, <3>2 DEF TypeOK
    <3> QED
      BY <1>21, <3>1, <3>2 DEF SyncFails
  <2>3. /\ queue' \subseteq Delivery \cup InstallationSync
        /\ dead' \subseteq Delivery \cup InstallationSync
    BY <1>f, <1>21, <2>1, TaskOf DEF SyncFails, Fail, Requeued, TypeOK
  <2> QED
    BY <1>f, <1>21, <2>1, <2>2, <2>3 DEF TypeOK, SyncFails, Fail, Settle, Move
<1>22. ASSUME NEW t \in Workers, ApplyStale(t) PROVE TypeOK'
  BY <1>f, <1>22 DEF ApplyStale, Settle, Current, StateCurrent,
    SyncCurrent, Serving, Bound, TypeOK, Row, Delivery, InstallationSync,
    Task, Idle, Owners, Actions, Reader, SetupState, Written, NewRow
<1>23. ASSUME NEW t \in Workers, ApplyInstallationState(t) PROVE TypeOK'
  <2> DEFINE s == task[t].sync
            lifted == installation[s.inst].suspended /\ task[t].suspended
            row == [installation[s.inst] EXCEPT !.error = FALSE, !.suspended = lifted]
  <2>1. task[t] \in Task /\ s.inst \in Installations
    BY <1>f, <1>23, TaskOf DEF ApplyInstallationState
  <2>3. row \in Row
    BY <1>f, <2>1, RowOf, RowLifted
  <2>4. \/ EnqueueSync(s.inst, row)
        \/ installation' = [installation EXCEPT ![s.inst] = row] /\ UNCHANGED queue
    BY <1>23 DEF ApplyInstallationState
  <2>5. /\ installation' \in [Installations -> Row]
        /\ queue' \subseteq Delivery \cup InstallationSync
    <3> HIDE DEF row
    <3> QED BY <1>f, <2>1, <2>3, <2>4, ResyncRow, SyncJobOf DEF EnqueueSync, TypeOK
  <2> QED
    BY <1>f, <1>23, <2>5 DEF TypeOK, ApplyInstallationState, Settle
<1>24. ASSUME NEW t \in Workers, ApplyInstallationRepos(t) PROVE TypeOK'
  <2> DEFINE s == task[t].sync
  <2>1. /\ task[t] \in Task /\ s.inst \in Installations /\ s.ws \in Owners
        /\ task[t].listing \subseteq Repos
    BY <1>f, <1>24, TaskOf DEF ApplyInstallationRepos
  <2>2. installation' \in [Installations -> Row]
    BY <1>f, <1>24, <2>1, RowOf, RowUpdates DEF ApplyInstallationRepos, TypeOK
  <2>3. [task[t] EXCEPT !.pc = "backfill", !.listing = {}] \in Task
    BY <2>1 DEF Task
  <2>4. task' \in [Workers -> Task \cup {Idle}]
    BY <1>f, <1>24, <2>1, <2>3 DEF ApplyInstallationRepos, TypeOK
  <2>5. repo' \in [Repos -> [ws: Owners, inst: Installations \cup {None}, active: BOOLEAN]]
    <3>1. ASSUME NEW x \in Repos
          PROVE  [repo[x] EXCEPT !.active = @ /\ ~(repo[x].ws = s.ws /\ repo[x].inst = s.inst)]
                   \in [ws: Owners, inst: Installations \cup {None}, active: BOOLEAN]
      <4> DEFINE kept == repo[x].active /\ ~(repo[x].ws = s.ws /\ repo[x].inst = s.inst)
      <4>1. kept \in BOOLEAN
        OBVIOUS
      <4> HIDE DEF kept
      <4>2. [repo[x] EXCEPT !.active = kept]
              \in [ws: Owners, inst: Installations \cup {None}, active: BOOLEAN]
        BY <1>f, <4>1 DEF TypeOK
      <4> QED
        BY <4>2 DEF kept
    <3> QED
      BY <1>f, <1>24, <2>1, <3>1 DEF ApplyInstallationRepos
  <2> QED
    BY <1>f, <1>24, <2>2, <2>4, <2>5 DEF TypeOK, ApplyInstallationRepos
<1>25. ASSUME NEW t \in Workers, BackfillEnds(t) PROVE TypeOK'
  BY <1>f, <1>25 DEF BackfillEnds, Settle, TypeOK, Row, Delivery,
    InstallationSync, Task, Idle, Owners, Actions, Reader, SetupState,
    Written, NewRow
<1>26. ASSUME NEW r \in Readers, NEW x \in Repos, RepoByGitHubID(r, x) PROVE TypeOK'
  <2>1. repo[x].ws \in Workspaces /\ repo[x].inst \in Installations
    BY <1>f, <1>26 DEF RepoByGitHubID, TypeOK, Owners, RepoHome
  <2>2. reader' \in [Readers -> Reader \cup {Idle} \cup {Written(d) : d \in BOOLEAN}]
    BY <1>f, <1>26, <2>1 DEF RepoByGitHubID, TypeOK, Reader
  <2> QED
    BY <1>f, <1>26, <2>2 DEF RepoByGitHubID, TypeOK
<1>27. ASSUME NEW r \in Readers, ActiveRepo(r) PROVE TypeOK'
  <2> DEFINE i == repo[reader[r].repo].inst
  <2>1. reader[r] \in Reader /\ reader[r].repo \in Repos
    BY <1>f, <1>27, ReaderOf DEF ActiveRepo
  <2>2. CASE repo[reader[r].repo].ws = None
    BY <1>f, <1>27, <2>1, <2>2, NoneAssumption DEF ActiveRepo, TypeOK, Reader
  <2>3. CASE repo[reader[r].repo].ws # None
    <3>1. i \in Installations /\ installation[i].gen \in Nat
      BY <1>f, <2>1, <2>3, RowOf DEF RepoHome
    <3>2. [reader[r] EXCEPT !.pc = "captured", !.gen = installation[i].gen] \in Reader
      BY <2>1, <3>1 DEF Reader
    <3> QED
      BY <1>f, <1>27, <3>2 DEF ActiveRepo, TypeOK
  <2> QED
    BY <2>2, <2>3
<1>28. ASSUME NEW r \in Readers, WithActiveRepo(r) PROVE TypeOK'
  BY <1>f, <1>28 DEF WithActiveRepo, RepoFenced, Serving, Bound, TypeOK,
    Row, Delivery, InstallationSync, Task, Idle, Owners, Actions, Reader,
    SetupState, Written, NewRow
<1>29. ASSUME NEW t \in Workers, InstallationEventFails(t) PROVE TypeOK'
  <2>1. task[t] \in Task
    BY <1>f, <1>29, TaskOf DEF InstallationEventFails
  <2>2. /\ queue' \subseteq Delivery \cup InstallationSync
        /\ dead' \subseteq Delivery \cup InstallationSync
    BY <1>f, <1>29, <2>1, TaskOf DEF InstallationEventFails, Fail, Requeued, TypeOK
  <2> QED
    BY <1>f, <1>29, <2>1, <2>2 DEF TypeOK, InstallationEventFails, Fail, Settle, Move
<1> QED
  BY <1>1, <1>2, <1>3, <1>4, <1>5, <1>6, <1>7, <1>8, <1>9, <1>10, <1>11,
    <1>12, <1>13, <1>14, <1>15, <1>16, <1>17, <1>18, <1>19, <1>20, <1>21,
    <1>22, <1>23, <1>24, <1>25, <1>26, <1>27, <1>28, <1>29 DEF Next, AtGitHub,
    Connect, Work, HandleEvent, Synchronise, Handle

\* What a step may do to a row: the generation never falls, and while it stays
\* a row keeps its owner (unless the organisation goes), its outcome, and is
\* not served anew.
RowStepped(i) ==
  /\ workspace' \subseteq workspace
  /\ installation[i].gen <= installation'[i].gen
  /\ installation[i].deleted => installation'[i].deleted
  /\ installation'[i].gen = installation[i].gen =>
       /\ \/ installation'[i].owner = installation[i].owner
          \/ installation'[i].owner = None /\ installation[i].owner \notin workspace'
       /\ installation'[i].deleted <=> installation[i].deleted
       /\ installation[i].synced => installation'[i].synced
       /\ Serving(i)' => Serving(i)

\* Every action steps each row that way.
LEMMA RowStep ==
  ASSUME IInv, Next, NEW o \in Installations PROVE RowStepped(o)
<1>f. TypeOK
  BY DEF IInv
<1>o. installation[o] \in Row /\ installation[o].gen \in Nat
  BY <1>f, RowOf
<1>1. ASSUME NEW i \in Installations, GitHubSuspend(i) PROVE RowStepped(o)
  BY <1>f, <1>o, <1>1 DEF GitHubSuspend, GitHubChange, Move, RowStepped,
    Serving, Bound
<1>2. ASSUME NEW i \in Installations, GitHubUnsuspend(i) PROVE RowStepped(o)
  BY <1>f, <1>o, <1>2 DEF GitHubUnsuspend, GitHubChange, Move, RowStepped,
    Serving, Bound
<1>3. ASSUME NEW i \in Installations, GitHubDelete(i) PROVE RowStepped(o)
  BY <1>f, <1>o, <1>3 DEF GitHubDelete, GitHubChange, Move, RowStepped, Serving,
    Bound
<1>4. ASSUME NEW i \in Installations, NEW repos \in SUBSET Repos, GitHubSetRepos(i, repos) PROVE RowStepped(o)
  BY <1>f, <1>o, <1>4 DEF GitHubSetRepos, GitHubChange, Move, RowStepped,
    Serving, Bound
<1>5. ASSUME NEW i \in Installations, RequestInstallationSync(i) PROVE RowStepped(o)
  <2>1. installation[i] \in Row /\ installation[i].gen \in Nat
    BY <1>f, <1>o, <1>5, RowOf DEF RequestInstallationSync
  <2>2. installation' = [installation EXCEPT ![i] = Resync(installation[i])]
    BY <1>5 DEF RequestInstallationSync, EnqueueSync
  <2>3. ASSUME o = i PROVE RowStepped(o)
    BY <1>f, <1>o, <1>5, <2>1, <2>2, <2>3, ResyncRow DEF RequestInstallationSync, RowStepped, TypeOK
  <2>4. ASSUME o # i PROVE RowStepped(o)
    BY <1>f, <1>o, <1>5, <2>2, <2>4, RowOf DEF RequestInstallationSync, RowStepped, Serving, Bound, TypeOK
  <2> QED
    BY <2>3, <2>4
<1>6. ASSUME NEW i \in Installations, ScheduleInstallationSyncs(i) PROVE RowStepped(o)
  <2>1. installation[i] \in Row /\ installation[i].gen \in Nat
    BY <1>f, <1>o, <1>6, RowOf DEF ScheduleInstallationSyncs
  <2>2. installation' = [installation EXCEPT ![i] = Resync(installation[i])]
    BY <1>6 DEF ScheduleInstallationSyncs, EnqueueSync
  <2>3. ASSUME o = i PROVE RowStepped(o)
    BY <1>f, <1>o, <1>6, <2>1, <2>2, <2>3, ResyncRow DEF ScheduleInstallationSyncs, RowStepped, TypeOK
  <2>4. ASSUME o # i PROVE RowStepped(o)
    BY <1>f, <1>o, <1>6, <2>2, <2>4, RowOf DEF ScheduleInstallationSyncs, RowStepped, Serving, Bound, TypeOK
  <2> QED
    BY <2>3, <2>4
<1>7. ASSUME NEW w \in Workspaces, DeleteWorkspace(w) PROVE RowStepped(o)
  <2>1. /\ installation[o] \in Row /\ installation[o].gen \in Nat
        /\ installation'[o] = IF installation[o].owner = w
                              THEN [installation[o] EXCEPT !.owner = None]
                              ELSE installation[o]
        /\ workspace' = workspace \ {w}
    BY <1>f, <1>o, <1>7, RowOf DEF DeleteWorkspace
  <2>2. CASE installation[o].owner = w
    BY <2>1, <2>2 DEF RowStepped, Serving, Bound, Row
  <2>3. CASE installation[o].owner # w
    BY <2>1, <2>3 DEF RowStepped, Serving, Bound
  <2> QED
    BY <2>2, <2>3
<1>8. ASSUME NEW g \in Setups, NEW w \in Workspaces, CreateGitHubSetup(g, w) PROVE RowStepped(o)
  BY <1>f, <1>o, <1>8 DEF CreateGitHubSetup, RowStepped, Serving, Bound
<1>9. ASSUME NEW g \in Setups, NEW i \in Installations, StartGitHubInstallationAuthorization(g, i) PROVE RowStepped(o)
  BY <1>f, <1>o, <1>9 DEF StartGitHubInstallationAuthorization, RowStepped,
    Serving, Bound
<1>10. ASSUME NEW g \in Setups, ClaimGitHubAuthorization(g) PROVE RowStepped(o)
  BY <1>f, <1>o, <1>10 DEF ClaimGitHubAuthorization, RowStepped, Serving, Bound
<1>11. ASSUME NEW g \in Setups, BindInstallation(g) PROVE RowStepped(o)
  <2> DEFINE i == setup[g].inst
            row == [installation[i] EXCEPT !.owner = setup[g].ws, !.verified = TRUE]
  <2>1. setup[g] \in [phase: {"claimed"}, ws: Workspaces, inst: Installations]
    BY <1>f, <1>o, <1>11 DEF BindInstallation, TypeOK, SetupState
  <2>2. i \in Installations /\ row \in Row /\ row.gen = installation[i].gen
    BY ZenonT(40), <1>f, <2>1, RowOf DEF Row, Owners
  <2>3. row.deleted <=> installation[i].deleted
    BY <1>f, <2>1, RowOf DEF Row
  <2>4. \/ installation' = [installation EXCEPT ![i] = Resync(row)]
        \/ UNCHANGED installation
    BY <1>11 DEF BindInstallation, EnqueueSync
  <2>5. installation'[i] = Resync(row) \/ installation'[i] = installation[i]
    BY <1>f, <2>2, <2>4 DEF TypeOK
  <2>6. Resync(row).gen = installation[i].gen + 1 /\ (Resync(row).deleted <=> installation[i].deleted)
    <3> HIDE DEF row, i
    <3> QED BY <2>2, <2>3, ResyncRow
  <2>7. installation[i].gen \in Nat
    BY <1>f, <2>2, RowOf
  <2> HIDE DEF i, row
  <2>a. ASSUME o = i PROVE RowStepped(o)
    BY <1>f, <1>o, <1>11, <2>a, <2>2, <2>4, <2>5, <2>6, <2>7 DEF BindInstallation, RowStepped, TypeOK, Serving, Bound
  <2>b. ASSUME o # i PROVE RowStepped(o)
    BY <1>f, <1>o, <1>11, <2>b, <2>2, <2>4, <2>5, <2>6, <2>7, RowOf DEF BindInstallation, RowStepped, Serving, Bound, TypeOK
  <2> QED
    BY <2>a, <2>b
<1>12. ASSUME NEW t \in Workers, NEW j \in queue, ClaimJob(t, j) PROVE RowStepped(o)
  BY <1>f, <1>o, <1>12 DEF ClaimJob, Busy, RowStepped, Serving, Bound
<1>13. ASSUME NEW t \in Workers, Overrun(t) PROVE RowStepped(o)
  BY <1>f, <1>o, <1>13 DEF Overrun, Move, Busy, Requeued, Settle, RowStepped,
    Serving, Bound
<1>14. ASSUME NEW t \in Workers, InstallationEventMoved(t) PROVE RowStepped(o)
  BY <1>f, <1>o, <1>14 DEF InstallationEventMoved, Settle, Requeued, Moved,
    RowStepped, Serving, Bound
<1>15. ASSUME NEW t \in Workers, InstallationEventNothing(t) PROVE RowStepped(o)
  BY <1>f, <1>o, <1>15 DEF InstallationEventNothing, Settle, Moved, Serving,
    Bound, RowStepped
<1>16. ASSUME NEW t \in Workers, InstallationEventDeleted(t) PROVE RowStepped(o)
  <2> DEFINE i == task[t].sync.inst
  <2>1. i \in Installations /\ installation[i] \in Row /\ installation[i].gen \in Nat
    BY <1>f, <1>o, <1>16, TaskOf, RowOf DEF InstallationEventDeleted
  <2>2. installation' = [installation EXCEPT ![i] = Deleted(installation[i])]
    BY <1>16 DEF InstallationEventDeleted
  <2>3. Deleted(installation[i]).gen = installation[i].gen + 1
    BY <2>1, RowUpdates
  <2>4. installation[i].deleted => Deleted(installation[i]).deleted
    BY <1>16, <2>1 DEF InstallationEventDeleted
  <2> HIDE DEF i
  <2>a. ASSUME o = i PROVE RowStepped(o)
    BY <1>f, <1>o, <1>16, <2>a, <2>1, <2>2, <2>3, <2>4 DEF InstallationEventDeleted, RowStepped, TypeOK
  <2>b. ASSUME o # i PROVE RowStepped(o)
    BY <1>f, <1>o, <1>16, <2>b, <2>1, <2>2, <2>3, <2>4, RowOf DEF InstallationEventDeleted, RowStepped, Serving, Bound, TypeOK
  <2> QED
    BY <2>a, <2>b
<1>17. ASSUME NEW t \in Workers, InstallationEventSuspension(t) PROVE RowStepped(o)
  <2> DEFINE i == task[t].sync.inst
  <2>1. i \in Installations /\ installation[i] \in Row /\ installation[i].gen \in Nat
    BY <1>f, <1>o, <1>17, TaskOf, RowOf DEF InstallationEventSuspension
  <2>2. installation' = [installation EXCEPT ![i] = Suspended(installation[i])]
    BY <1>17 DEF InstallationEventSuspension
  <2>3. Suspended(installation[i]).gen = installation[i].gen + 1
    BY <2>1, RowUpdates
  <2>4. installation[i].deleted => Suspended(installation[i]).deleted
    BY <1>17, <2>1 DEF InstallationEventSuspension
  <2> HIDE DEF i
  <2>a. ASSUME o = i PROVE RowStepped(o)
    BY <1>f, <1>o, <1>17, <2>a, <2>1, <2>2, <2>3, <2>4 DEF InstallationEventSuspension, RowStepped, TypeOK
  <2>b. ASSUME o # i PROVE RowStepped(o)
    BY SMTT(30), <1>f, <1>o, <1>17, <2>b, <2>1, <2>2, <2>3, <2>4, RowOf DEF InstallationEventSuspension, RowStepped, Serving, Bound, TypeOK
  <2> QED
    BY <2>a, <2>b
<1>18. ASSUME NEW t \in Workers, InstallationEventRepositories(t) PROVE RowStepped(o)
  <2> DEFINE i == task[t].sync.inst
  <2>1. i \in Installations /\ installation[i] \in Row /\ installation[i].gen \in Nat
    BY <1>f, <1>o, <1>18, TaskOf, RowOf DEF InstallationEventRepositories
  <2>2. installation' = [installation EXCEPT ![i] = Resync(installation[i])]
    BY <1>18 DEF InstallationEventRepositories, EnqueueSync
  <2>3. /\ Resync(installation[i]).gen = installation[i].gen + 1
        /\ Resync(installation[i]).deleted = installation[i].deleted
    BY <2>1, ResyncRow
  <2> HIDE DEF i
  <2>a. ASSUME o = i PROVE RowStepped(o)
    BY <1>f, <1>o, <1>18, <2>a, <2>1, <2>2, <2>3 DEF InstallationEventRepositories, RowStepped, TypeOK
  <2>b. ASSUME o # i PROVE RowStepped(o)
    BY <1>f, <1>o, <1>18, <2>b, <2>1, <2>2, <2>3, RowOf DEF InstallationEventRepositories, RowStepped, Serving, Bound, TypeOK
  <2> QED
    BY <2>a, <2>b
<1>19. ASSUME NEW t \in Workers, CheckCurrent(t) PROVE RowStepped(o)
  BY <1>f, <1>o, <1>19 DEF CheckCurrent, Settle, Current, StateCurrent,
    SyncCurrent, Serving, Bound, RowStepped
<1>20. ASSUME NEW t \in Workers, AskGitHub(t) PROVE RowStepped(o)
  BY <1>f, <1>o, <1>20 DEF AskGitHub, RowStepped, Serving, Bound
<1>21. ASSUME NEW t \in Workers, SyncFails(t) PROVE RowStepped(o)
  <2> DEFINE i == task[t].sync.inst
  <2>1. i \in Installations /\ installation[i] \in Row /\ installation[i].gen \in Nat
    BY <1>f, <1>o, <1>21, TaskOf, RowOf DEF SyncFails
  <2>2. \/ \E e : installation' = [installation EXCEPT ![i].error = e]
        \/ installation' = installation
    BY <1>21 DEF SyncFails, FailInstallationSync
  <2>3. workspace' = workspace
    BY <1>21 DEF SyncFails
  <2> HIDE DEF i
  <2>a. ASSUME o = i, NEW e, installation' = [installation EXCEPT ![i].error = e]
        PROVE  RowStepped(o)
    BY <1>f, <1>o, <2>a, <2>1, <2>3 DEF RowStepped, TypeOK, Serving, Bound, Row
  <2>b. ASSUME o # i, NEW e, installation' = [installation EXCEPT ![i].error = e]
        PROVE  RowStepped(o)
    BY <1>f, <1>o, <2>b, <2>1, <2>3, RowOf DEF RowStepped, Serving, Bound, TypeOK
  <2>c. ASSUME installation' = installation PROVE RowStepped(o)
    BY <1>o, <2>c, <2>3 DEF RowStepped, Serving, Bound
  <2> QED
    BY <2>2, <2>a, <2>b, <2>c
<1>22. ASSUME NEW t \in Workers, ApplyStale(t) PROVE RowStepped(o)
  BY <1>f, <1>o, <1>22 DEF ApplyStale, Settle, Current, StateCurrent,
    SyncCurrent, Serving, Bound, RowStepped
<1>23. ASSUME NEW t \in Workers, ApplyInstallationState(t) PROVE RowStepped(o)
  <2> DEFINE i == task[t].sync.inst
  <2>1. i \in Installations /\ installation[i] \in Row /\ installation[i].gen \in Nat
    BY <1>f, <1>o, <1>23, TaskOf, RowOf DEF ApplyInstallationState
  <2> DEFINE row == [installation[i] EXCEPT !.error = FALSE,
                    !.suspended = installation[i].suspended /\ task[t].suspended]
  <2>2. row \in Row /\ row.gen = installation[i].gen /\ row.owner = installation[i].owner
    BY ZenonT(40), <2>1, RowLifted DEF Row
  <2>3. /\ row.deleted <=> installation[i].deleted
        /\ row.synced <=> installation[i].synced
        /\ row.verified <=> installation[i].verified
        /\ task[t].suspended => (row.suspended <=> installation[i].suspended)
    BY <2>1 DEF Row
  <2>4. \/ installation' = [installation EXCEPT ![i] = Resync(row)]
        \/ /\ installation' = [installation EXCEPT ![i] = row]
           /\ task[t].suspended \/ row.owner = None \/ ~row.verified
    BY <1>23 DEF ApplyInstallationState, EnqueueSync
  <2>5. \/ installation'[i] = Resync(row)
        \/ /\ installation'[i] = row
           /\ task[t].suspended \/ row.owner = None \/ ~row.verified
    BY <1>f, <2>1, <2>4 DEF TypeOK
  <2>6. Resync(row).gen = row.gen + 1 /\ (Resync(row).deleted <=> installation[i].deleted)
    <3> HIDE DEF row, i
    <3> QED BY <2>2, <2>3, ResyncRow
  <2>7. \A k \in Installations \ {i} : installation'[k] = installation[k]
    BY <1>f, <2>4 DEF TypeOK
  <2>8. workspace' = workspace
    BY <1>23 DEF ApplyInstallationState
  <2> HIDE DEF i, row
  <2>a. ASSUME o = i PROVE RowStepped(o)
    BY <1>f, <1>o, <1>23, <2>a, <2>1, <2>2, <2>3, <2>5, <2>6, <2>7, <2>8 DEF RowStepped, Serving, Bound
  <2>b. ASSUME o # i PROVE RowStepped(o)
    BY <1>f, <1>o, <1>23, <2>b, <2>1, <2>2, <2>3, <2>5, <2>6, <2>7, <2>8, RowOf DEF RowStepped, Serving, Bound
  <2> QED
    BY <2>a, <2>b
<1>24. ASSUME NEW t \in Workers, ApplyInstallationRepos(t) PROVE RowStepped(o)
  <2> DEFINE i == task[t].sync.inst
  <2>1. i \in Installations /\ installation[i] \in Row
    BY <1>f, <1>24, TaskOf, RowOf DEF ApplyInstallationRepos
  <2>2. installation' = [installation EXCEPT ![i].synced = TRUE, ![i].error = FALSE]
    BY <1>24 DEF ApplyInstallationRepos
  <2>3. workspace' = workspace
    BY <1>24 DEF ApplyInstallationRepos
  <2> HIDE DEF i
  <2>4. installation'[i] = [installation[i] EXCEPT !.synced = TRUE, !.error = FALSE]
    BY <1>f, <2>1, <2>2 DEF TypeOK
  <2>5. /\ installation'[i].gen = installation[i].gen
        /\ installation'[i].deleted = installation[i].deleted
        /\ installation'[i].owner = installation[i].owner
        /\ installation'[i].verified = installation[i].verified
        /\ installation'[i].suspended = installation[i].suspended
        /\ installation'[i].synced
    BY <2>1, <2>4 DEF Row
  <2>6. \A k \in Installations \ {i} : installation'[k] = installation[k]
    BY <1>f, <2>2 DEF TypeOK
  <2>a. ASSUME o = i PROVE RowStepped(o)
    BY <1>o, <2>a, <2>3, <2>5 DEF RowStepped, Serving, Bound
  <2>b. ASSUME o # i PROVE RowStepped(o)
    BY <1>o, <2>b, <2>3, <2>6 DEF RowStepped, Serving, Bound
  <2> QED
    BY <2>a, <2>b
<1>25. ASSUME NEW t \in Workers, BackfillEnds(t) PROVE RowStepped(o)
  BY <1>f, <1>o, <1>25 DEF BackfillEnds, Settle, RowStepped, Serving, Bound
<1>26. ASSUME NEW r \in Readers, NEW x \in Repos, RepoByGitHubID(r, x) PROVE RowStepped(o)
  BY <1>f, <1>o, <1>26 DEF RepoByGitHubID, RowStepped, Serving, Bound
<1>27. ASSUME NEW r \in Readers, ActiveRepo(r) PROVE RowStepped(o)
  BY <1>f, <1>o, <1>27 DEF ActiveRepo, Serving, Bound, RowStepped
<1>28. ASSUME NEW r \in Readers, WithActiveRepo(r) PROVE RowStepped(o)
  BY <1>f, <1>o, <1>28 DEF WithActiveRepo, RepoFenced, Serving, Bound,
    RowStepped
<1>29. ASSUME NEW t \in Workers, InstallationEventFails(t) PROVE RowStepped(o)
  BY <1>f, <1>o, <1>29 DEF InstallationEventFails, RowStepped, Serving, Bound
<1> QED
  BY <1>1, <1>2, <1>3, <1>4, <1>5, <1>6, <1>7, <1>8, <1>9, <1>10, <1>11,
    <1>12, <1>13, <1>14, <1>15, <1>16, <1>17, <1>18, <1>19, <1>20, <1>21,
    <1>22, <1>23, <1>24, <1>25, <1>26, <1>27, <1>28, <1>29 DEF Next, AtGitHub,
    Connect, Work, HandleEvent, Synchronise, Handle

-----------------------------------------------------------------------------
(* What one step does to each part of the state.                           *)

\* A worker's task changes by an action of its own.
TaskStepped(t) ==
  \/ task'[t] = task[t] \/ task'[t] = Idle
  \/ \E j \in queue : ClaimJob(t, j)
  \/ Overrun(t) /\ task' = [task EXCEPT ![t].live = FALSE]
  \/ InstallationEventSuspension(t) \/ CheckCurrent(t) \/ AskGitHub(t)
  \/ ApplyInstallationRepos(t)

\* What is new in the queue is a delivery, a job tried again, or a request for
\* the generation the installation has now.
QueueStepped ==
  \A j \in queue' :
    \/ j \in queue \/ j.kind = "event"
    \/ \E t \in Workers : Busy(t) /\ j = task[t].work
    \/ /\ j \in InstallationSync /\ j.gen = installation'[j.inst].gen
       /\ j.kind = "state" => installation'[j.inst].suspended

\* Owners, deletions and organisations change by three actions.
OwnersStepped ==
  \/ \E g \in Setups : BindInstallation(g)
  \/ \E w \in Workspaces : DeleteWorkspace(w)
  \/ \E t \in Workers : InstallationEventDeleted(t)
  \/ /\ workspace' = workspace
     /\ \A i \in Installations : /\ installation'[i].owner = installation[i].owner
                                 /\ installation'[i].deleted <=> installation[i].deleted
                                 /\ installation'[i].verified <=> installation[i].verified

\* Repository rows change by three actions.
ReposStepped ==
  \/ \E w \in Workspaces : DeleteWorkspace(w)
  \/ \E t \in Workers : InstallationEventDeleted(t) \/ ApplyInstallationRepos(t)
  \/ repo' = repo

\* Every action changes tasks that way.
LEMMA TaskStep ==
  ASSUME IInv, Next, NEW u \in Workers PROVE TaskStepped(u)
<1>f. TypeOK
  BY DEF IInv
<1>1. ASSUME NEW i \in Installations, GitHubSuspend(i) PROVE TaskStepped(u)
  BY <1>1 DEF GitHubSuspend, GitHubChange, TaskStepped
<1>2. ASSUME NEW i \in Installations, GitHubUnsuspend(i) PROVE TaskStepped(u)
  BY <1>2 DEF GitHubUnsuspend, GitHubChange, TaskStepped
<1>3. ASSUME NEW i \in Installations, GitHubDelete(i) PROVE TaskStepped(u)
  BY <1>3 DEF GitHubDelete, GitHubChange, TaskStepped
<1>4. ASSUME NEW i \in Installations, NEW repos \in SUBSET Repos, GitHubSetRepos(i, repos) PROVE TaskStepped(u)
  BY <1>4 DEF GitHubSetRepos, GitHubChange, TaskStepped
<1>5. ASSUME NEW i \in Installations, RequestInstallationSync(i) PROVE TaskStepped(u)
  BY <1>5 DEF RequestInstallationSync, TaskStepped
<1>6. ASSUME NEW i \in Installations, ScheduleInstallationSyncs(i) PROVE TaskStepped(u)
  BY <1>6 DEF ScheduleInstallationSyncs, TaskStepped
<1>7. ASSUME NEW w \in Workspaces, DeleteWorkspace(w) PROVE TaskStepped(u)
  BY <1>7 DEF DeleteWorkspace, TaskStepped
<1>8. ASSUME NEW g \in Setups, NEW w \in Workspaces, CreateGitHubSetup(g, w) PROVE TaskStepped(u)
  BY <1>8 DEF CreateGitHubSetup, TaskStepped
<1>9. ASSUME NEW g \in Setups, NEW i \in Installations, StartGitHubInstallationAuthorization(g, i) PROVE TaskStepped(u)
  BY <1>9 DEF StartGitHubInstallationAuthorization, TaskStepped
<1>10. ASSUME NEW g \in Setups, ClaimGitHubAuthorization(g) PROVE TaskStepped(u)
  BY <1>10 DEF ClaimGitHubAuthorization, TaskStepped
<1>11. ASSUME NEW g \in Setups, BindInstallation(g) PROVE TaskStepped(u)
  BY <1>11 DEF BindInstallation, TaskStepped
<1>12. ASSUME NEW t \in Workers, NEW j \in queue, ClaimJob(t, j) PROVE TaskStepped(u)
  <2>1. t # u => task'[u] = task[u]
    BY <1>f, <1>12 DEF ClaimJob, TypeOK
  <2> QED
    BY <1>12, <2>1 DEF TaskStepped
<1>13. ASSUME NEW t \in Workers, Overrun(t) PROVE TaskStepped(u)
  <2>1. t # u => task'[u] = task[u]
    BY <1>f, <1>13 DEF Overrun, Settle, TypeOK
  <2>2. task' = [task EXCEPT ![t] = Idle] => task'[t] = Idle
    BY <1>f DEF TypeOK
  <2>3. task' = [task EXCEPT ![t].live = FALSE] \/ task' = [task EXCEPT ![t] = Idle]
    BY <1>13 DEF Overrun, Settle
  <2> QED
    BY <1>13, <2>1, <2>2, <2>3 DEF TaskStepped
<1>14. ASSUME NEW t \in Workers, InstallationEventMoved(t) PROVE TaskStepped(u)
  BY <1>f, <1>14 DEF InstallationEventMoved, Settle, TaskStepped, TypeOK
<1>15. ASSUME NEW t \in Workers, InstallationEventNothing(t) PROVE TaskStepped(u)
  BY <1>f, <1>15 DEF InstallationEventNothing, Settle, TaskStepped, TypeOK
<1>16. ASSUME NEW t \in Workers, InstallationEventDeleted(t) PROVE TaskStepped(u)
  BY <1>f, <1>16 DEF InstallationEventDeleted, Settle, TaskStepped, TypeOK
<1>17. ASSUME NEW t \in Workers, InstallationEventSuspension(t) PROVE TaskStepped(u)
  <2>1. t # u => task'[u] = task[u]
    BY <1>f, <1>17 DEF InstallationEventSuspension, Settle, TypeOK
  <2> QED
    BY <1>17, <2>1 DEF TaskStepped
<1>18. ASSUME NEW t \in Workers, InstallationEventRepositories(t) PROVE TaskStepped(u)
  BY <1>f, <1>18 DEF InstallationEventRepositories, Settle, TaskStepped,
    TypeOK
<1>19. ASSUME NEW t \in Workers, CheckCurrent(t) PROVE TaskStepped(u)
  <2>1. t # u => task'[u] = task[u]
    BY <1>f, <1>19 DEF CheckCurrent, Settle, TypeOK
  <2> QED
    BY <1>19, <2>1 DEF TaskStepped
<1>20. ASSUME NEW t \in Workers, AskGitHub(t) PROVE TaskStepped(u)
  <2>1. t # u => task'[u] = task[u]
    BY <1>f, <1>20 DEF AskGitHub, Settle, TypeOK
  <2> QED
    BY <1>20, <2>1 DEF TaskStepped
<1>21. ASSUME NEW t \in Workers, SyncFails(t) PROVE TaskStepped(u)
  BY <1>f, <1>21 DEF SyncFails, Settle, TaskStepped, TypeOK, Fail
<1>22. ASSUME NEW t \in Workers, ApplyStale(t) PROVE TaskStepped(u)
  BY <1>f, <1>22 DEF ApplyStale, Settle, TaskStepped, TypeOK
<1>23. ASSUME NEW t \in Workers, ApplyInstallationState(t) PROVE TaskStepped(u)
  BY <1>f, <1>23 DEF ApplyInstallationState, Settle, TaskStepped, TypeOK
<1>24. ASSUME NEW t \in Workers, ApplyInstallationRepos(t) PROVE TaskStepped(u)
  <2>1. t # u => task'[u] = task[u]
    BY <1>f, <1>24 DEF ApplyInstallationRepos, Settle, TypeOK
  <2> QED
    BY <1>24, <2>1 DEF TaskStepped
<1>25. ASSUME NEW t \in Workers, BackfillEnds(t) PROVE TaskStepped(u)
  BY <1>f, <1>25 DEF BackfillEnds, Settle, TaskStepped, TypeOK
<1>26. ASSUME NEW r \in Readers, NEW x \in Repos, RepoByGitHubID(r, x) PROVE TaskStepped(u)
  BY <1>26 DEF RepoByGitHubID, TaskStepped
<1>27. ASSUME NEW r \in Readers, ActiveRepo(r) PROVE TaskStepped(u)
  BY <1>27 DEF ActiveRepo, TaskStepped
<1>28. ASSUME NEW r \in Readers, WithActiveRepo(r) PROVE TaskStepped(u)
  BY <1>28 DEF WithActiveRepo, TaskStepped
<1>29. ASSUME NEW t \in Workers, InstallationEventFails(t) PROVE TaskStepped(u)
  BY <1>f, <1>29 DEF InstallationEventFails, Settle, TaskStepped, TypeOK, Fail
<1> QED
  BY <1>1, <1>2, <1>3, <1>4, <1>5, <1>6, <1>7, <1>8, <1>9, <1>10, <1>11,
    <1>12, <1>13, <1>14, <1>15, <1>16, <1>17, <1>18, <1>19, <1>20, <1>21,
    <1>22, <1>23, <1>24, <1>25, <1>26, <1>27, <1>28, <1>29 DEF Next, AtGitHub,
    Connect, Work, HandleEvent, Synchronise, Handle

\* Every action changes the queue that way.
LEMMA QueueStep ==
  ASSUME IInv, Next PROVE QueueStepped
<1>f. TypeOK
  BY DEF IInv
<1>1. ASSUME NEW i \in Installations, GitHubSuspend(i) PROVE QueueStepped
  BY <1>1 DEF GitHubSuspend, GitHubChange, QueueStepped
<1>2. ASSUME NEW i \in Installations, GitHubUnsuspend(i) PROVE QueueStepped
  BY <1>2 DEF GitHubUnsuspend, GitHubChange, QueueStepped
<1>3. ASSUME NEW i \in Installations, GitHubDelete(i) PROVE QueueStepped
  BY <1>3 DEF GitHubDelete, GitHubChange, QueueStepped
<1>4. ASSUME NEW i \in Installations, NEW repos \in SUBSET Repos, GitHubSetRepos(i, repos) PROVE QueueStepped
  BY <1>4 DEF GitHubSetRepos, GitHubChange, QueueStepped
<1>5. ASSUME NEW i \in Installations, RequestInstallationSync(i) PROVE QueueStepped
  <2>1. installation[i] \in Row
    BY <1>f, RowOf
  <2> QED
    BY <1>f, <1>5, <2>1, ResyncRow, SyncJobOf DEF RequestInstallationSync, EnqueueSync, QueueStepped, TypeOK
<1>6. ASSUME NEW i \in Installations, ScheduleInstallationSyncs(i) PROVE QueueStepped
  <2>1. installation[i] \in Row
    BY <1>f, RowOf
  <2> QED
    BY <1>f, <1>6, <2>1, ResyncRow, SyncJobOf DEF ScheduleInstallationSyncs, EnqueueSync, QueueStepped, TypeOK
<1>7. ASSUME NEW w \in Workspaces, DeleteWorkspace(w) PROVE QueueStepped
  BY <1>7 DEF DeleteWorkspace, QueueStepped
<1>8. ASSUME NEW g \in Setups, NEW w \in Workspaces, CreateGitHubSetup(g, w) PROVE QueueStepped
  BY <1>8 DEF CreateGitHubSetup, QueueStepped
<1>9. ASSUME NEW g \in Setups, NEW i \in Installations, StartGitHubInstallationAuthorization(g, i) PROVE QueueStepped
  BY <1>9 DEF StartGitHubInstallationAuthorization, QueueStepped
<1>10. ASSUME NEW g \in Setups, ClaimGitHubAuthorization(g) PROVE QueueStepped
  BY <1>10 DEF ClaimGitHubAuthorization, QueueStepped
<1>11. ASSUME NEW g \in Setups, BindInstallation(g) PROVE QueueStepped
  <2> DEFINE i == setup[g].inst
            row == [installation[i] EXCEPT !.owner = setup[g].ws, !.verified = TRUE]
  <2>1. setup[g] \in [phase: {"claimed"}, ws: Workspaces, inst: Installations]
    BY <1>f, <1>11 DEF BindInstallation, TypeOK, SetupState
  <2>2. i \in Installations /\ row \in Row
    BY ZenonT(40), <1>f, <2>1, RowOf DEF Row, Owners
  <2>3. EnqueueSync(i, row) \/ UNCHANGED queue
    BY <1>11 DEF BindInstallation
  <2> HIDE DEF i, row
  <2> QED
    BY <1>f, <2>2, <2>3, ResyncRow, SyncJobOf DEF EnqueueSync, QueueStepped, TypeOK
<1>12. ASSUME NEW t \in Workers, NEW j \in queue, ClaimJob(t, j) PROVE QueueStepped
  BY <1>12 DEF ClaimJob, QueueStepped
<1>13. ASSUME NEW t \in Workers, Overrun(t) PROVE QueueStepped
  BY <1>13 DEF Overrun, Requeued, QueueStepped, Busy
<1>14. ASSUME NEW t \in Workers, InstallationEventMoved(t) PROVE QueueStepped
  BY <1>14 DEF InstallationEventMoved, Requeued, QueueStepped, Busy
<1>15. ASSUME NEW t \in Workers, InstallationEventNothing(t) PROVE QueueStepped
  BY <1>15 DEF InstallationEventNothing, QueueStepped
<1>16. ASSUME NEW t \in Workers, InstallationEventDeleted(t) PROVE QueueStepped
  BY <1>16 DEF InstallationEventDeleted, QueueStepped
<1>17. ASSUME NEW t \in Workers, InstallationEventSuspension(t) PROVE QueueStepped
  BY <1>17 DEF InstallationEventSuspension, QueueStepped
<1>18. ASSUME NEW t \in Workers, InstallationEventRepositories(t) PROVE QueueStepped
  <2> DEFINE i == task[t].sync.inst
  <2>1. i \in Installations /\ installation[i] \in Row
    BY <1>f, <1>18, TaskOf, RowOf DEF InstallationEventRepositories
  <2> HIDE DEF i
  <2>2. EnqueueSync(i, installation[i])
    BY <1>18 DEF InstallationEventRepositories, i
  <2> QED
    BY <1>f, <2>1, <2>2, ResyncRow, SyncJobOf DEF EnqueueSync, QueueStepped, TypeOK
<1>19. ASSUME NEW t \in Workers, CheckCurrent(t) PROVE QueueStepped
  BY <1>19 DEF CheckCurrent, QueueStepped
<1>20. ASSUME NEW t \in Workers, AskGitHub(t) PROVE QueueStepped
  BY <1>20 DEF AskGitHub, QueueStepped
<1>21. ASSUME NEW t \in Workers, SyncFails(t) PROVE QueueStepped
  BY <1>21 DEF SyncFails, Fail, Requeued, QueueStepped, Busy
<1>22. ASSUME NEW t \in Workers, ApplyStale(t) PROVE QueueStepped
  BY <1>22 DEF ApplyStale, QueueStepped
<1>23. ASSUME NEW t \in Workers, ApplyInstallationState(t) PROVE QueueStepped
  <2> DEFINE i == task[t].sync.inst
            row == [installation[i] EXCEPT !.error = FALSE,
                      !.suspended = installation[i].suspended /\ task[t].suspended]
  <2>1. i \in Installations /\ row \in Row
    BY <1>f, <1>23, TaskOf, RowOf, RowLifted DEF ApplyInstallationState
  <2>2. EnqueueSync(i, row) \/ UNCHANGED queue
    BY <1>23 DEF ApplyInstallationState
  <2> HIDE DEF i, row
  <2> QED
    BY <1>f, <2>1, <2>2, ResyncRow, SyncJobOf DEF EnqueueSync, QueueStepped, TypeOK
<1>24. ASSUME NEW t \in Workers, ApplyInstallationRepos(t) PROVE QueueStepped
  BY <1>24 DEF ApplyInstallationRepos, QueueStepped
<1>25. ASSUME NEW t \in Workers, BackfillEnds(t) PROVE QueueStepped
  BY <1>25 DEF BackfillEnds, QueueStepped
<1>26. ASSUME NEW r \in Readers, NEW x \in Repos, RepoByGitHubID(r, x) PROVE QueueStepped
  BY <1>26 DEF RepoByGitHubID, QueueStepped
<1>27. ASSUME NEW r \in Readers, ActiveRepo(r) PROVE QueueStepped
  BY <1>27 DEF ActiveRepo, QueueStepped
<1>28. ASSUME NEW r \in Readers, WithActiveRepo(r) PROVE QueueStepped
  BY <1>28 DEF WithActiveRepo, QueueStepped
<1>29. ASSUME NEW t \in Workers, InstallationEventFails(t) PROVE QueueStepped
  BY <1>29 DEF InstallationEventFails, Fail, Requeued, QueueStepped, Busy
<1> QED
  BY <1>1, <1>2, <1>3, <1>4, <1>5, <1>6, <1>7, <1>8, <1>9, <1>10, <1>11,
    <1>12, <1>13, <1>14, <1>15, <1>16, <1>17, <1>18, <1>19, <1>20, <1>21,
    <1>22, <1>23, <1>24, <1>25, <1>26, <1>27, <1>28, <1>29 DEF Next, AtGitHub,
    Connect, Work, HandleEvent, Synchronise, Handle

\* Every action changes owners that way.
LEMMA OwnerStep ==
  ASSUME IInv, Next PROVE OwnersStepped
<1>f. TypeOK
  BY DEF IInv
<1>1. ASSUME NEW i \in Installations, GitHubSuspend(i) PROVE OwnersStepped
  BY <1>1 DEF GitHubSuspend, GitHubChange, OwnersStepped
<1>2. ASSUME NEW i \in Installations, GitHubUnsuspend(i) PROVE OwnersStepped
  BY <1>2 DEF GitHubUnsuspend, GitHubChange, OwnersStepped
<1>3. ASSUME NEW i \in Installations, GitHubDelete(i) PROVE OwnersStepped
  BY <1>3 DEF GitHubDelete, GitHubChange, OwnersStepped
<1>4. ASSUME NEW i \in Installations, NEW repos \in SUBSET Repos, GitHubSetRepos(i, repos) PROVE OwnersStepped
  BY <1>4 DEF GitHubSetRepos, GitHubChange, OwnersStepped
<1>5. ASSUME NEW i \in Installations, RequestInstallationSync(i) PROVE OwnersStepped
  <2>1. installation[i] \in Row
    BY <1>f, RowOf
  <2>2. installation' = [installation EXCEPT ![i] = Resync(installation[i])] /\ workspace' = workspace
    BY <1>5 DEF RequestInstallationSync, EnqueueSync
  <2> QED
    BY <1>f, <2>1, <2>2, ResyncRow DEF OwnersStepped, TypeOK
<1>6. ASSUME NEW i \in Installations, ScheduleInstallationSyncs(i) PROVE OwnersStepped
  <2>1. installation[i] \in Row
    BY <1>f, RowOf
  <2>2. installation' = [installation EXCEPT ![i] = Resync(installation[i])] /\ workspace' = workspace
    BY <1>6 DEF ScheduleInstallationSyncs, EnqueueSync
  <2> QED
    BY <1>f, <2>1, <2>2, ResyncRow DEF OwnersStepped, TypeOK
<1>7. ASSUME NEW w \in Workspaces, DeleteWorkspace(w) PROVE OwnersStepped
  BY <1>7 DEF OwnersStepped
<1>8. ASSUME NEW g \in Setups, NEW w \in Workspaces, CreateGitHubSetup(g, w) PROVE OwnersStepped
  BY <1>8 DEF CreateGitHubSetup, OwnersStepped
<1>9. ASSUME NEW g \in Setups, NEW i \in Installations, StartGitHubInstallationAuthorization(g, i) PROVE OwnersStepped
  BY <1>9 DEF StartGitHubInstallationAuthorization, OwnersStepped
<1>10. ASSUME NEW g \in Setups, ClaimGitHubAuthorization(g) PROVE OwnersStepped
  BY <1>10 DEF ClaimGitHubAuthorization, OwnersStepped
<1>11. ASSUME NEW g \in Setups, BindInstallation(g) PROVE OwnersStepped
  BY <1>11 DEF OwnersStepped
<1>12. ASSUME NEW t \in Workers, NEW j \in queue, ClaimJob(t, j) PROVE OwnersStepped
  BY <1>12 DEF ClaimJob, OwnersStepped
<1>13. ASSUME NEW t \in Workers, Overrun(t) PROVE OwnersStepped
  BY <1>13 DEF Overrun, OwnersStepped
<1>14. ASSUME NEW t \in Workers, InstallationEventMoved(t) PROVE OwnersStepped
  BY <1>14 DEF InstallationEventMoved, OwnersStepped
<1>15. ASSUME NEW t \in Workers, InstallationEventNothing(t) PROVE OwnersStepped
  BY <1>15 DEF InstallationEventNothing, OwnersStepped
<1>16. ASSUME NEW t \in Workers, InstallationEventDeleted(t) PROVE OwnersStepped
  BY <1>16 DEF OwnersStepped
<1>17. ASSUME NEW t \in Workers, InstallationEventSuspension(t) PROVE OwnersStepped
  <2> DEFINE i == task[t].sync.inst
  <2>1. i \in Installations /\ installation[i] \in Row
    BY <1>f, <1>17, TaskOf, RowOf DEF InstallationEventSuspension
  <2>2. installation' = [installation EXCEPT ![i] = Suspended(installation[i])] /\ workspace' = workspace
    BY <1>17 DEF InstallationEventSuspension, EnqueueSync
  <2>3. /\ Suspended(installation[i]).owner = installation[i].owner
        /\ Suspended(installation[i]).deleted <=> installation[i].deleted
        /\ Suspended(installation[i]).verified <=> installation[i].verified
    BY <2>1 DEF Suspended, Row
  <2> HIDE DEF i
  <2> QED
    BY <1>f, <2>1, <2>2, <2>3 DEF OwnersStepped, TypeOK
<1>18. ASSUME NEW t \in Workers, InstallationEventRepositories(t) PROVE OwnersStepped
  <2> DEFINE i == task[t].sync.inst
  <2>1. i \in Installations /\ installation[i] \in Row
    BY <1>f, <1>18, TaskOf, RowOf DEF InstallationEventRepositories
  <2>2. installation' = [installation EXCEPT ![i] = Resync(installation[i])] /\ workspace' = workspace
    BY <1>18 DEF InstallationEventRepositories, EnqueueSync
  <2>3. /\ Resync(installation[i]).owner = installation[i].owner
        /\ Resync(installation[i]).deleted <=> installation[i].deleted
        /\ Resync(installation[i]).verified <=> installation[i].verified
    BY <2>1 DEF Resync, Row
  <2> HIDE DEF i
  <2> QED
    BY <1>f, <2>1, <2>2, <2>3 DEF OwnersStepped, TypeOK
<1>19. ASSUME NEW t \in Workers, CheckCurrent(t) PROVE OwnersStepped
  BY <1>19 DEF CheckCurrent, OwnersStepped
<1>20. ASSUME NEW t \in Workers, AskGitHub(t) PROVE OwnersStepped
  BY <1>20 DEF AskGitHub, OwnersStepped
<1>21. ASSUME NEW t \in Workers, SyncFails(t) PROVE OwnersStepped
  <2> DEFINE i == task[t].sync.inst
  <2>1. i \in Installations
    BY <1>f, <1>21, TaskOf DEF SyncFails
  <2>2. \/ \E e : installation' = [installation EXCEPT ![i].error = e]
        \/ installation' = installation
    BY <1>21 DEF SyncFails, FailInstallationSync
  <2>3. workspace' = workspace
    BY <1>21 DEF SyncFails
  <2> HIDE DEF i
  <2>4. ASSUME NEW e, installation' = [installation EXCEPT ![i].error = e]
        PROVE  OwnersStepped
    BY <1>f, <2>1, <2>3, <2>4, RowOf DEF OwnersStepped, TypeOK, Row
  <2>5. CASE installation' = installation
    BY <2>3, <2>5 DEF OwnersStepped
  <2> QED
    BY <2>2, <2>4, <2>5
<1>22. ASSUME NEW t \in Workers, ApplyStale(t) PROVE OwnersStepped
  BY <1>22 DEF ApplyStale, OwnersStepped
<1>23. ASSUME NEW t \in Workers, ApplyInstallationState(t) PROVE OwnersStepped
  <2> DEFINE i == task[t].sync.inst
            row == [installation[i] EXCEPT !.error = FALSE,
                      !.suspended = installation[i].suspended /\ task[t].suspended]
  <2>1. i \in Installations /\ installation[i] \in Row /\ row \in Row
    BY <1>f, <1>23, TaskOf, RowOf, RowLifted DEF ApplyInstallationState
  <2>2. \/ installation' = [installation EXCEPT ![i] = Resync(row)]
        \/ installation' = [installation EXCEPT ![i] = row]
    BY <1>23 DEF ApplyInstallationState, EnqueueSync
  <2>3. /\ row.owner = installation[i].owner
        /\ (row.deleted <=> installation[i].deleted)
        /\ (row.verified <=> installation[i].verified)
    BY <2>1 DEF Row
  <2>4. workspace' = workspace
    BY <1>23 DEF ApplyInstallationState
  <2> HIDE DEF i, row
  <2>5. /\ Resync(row).owner = installation[i].owner
        /\ (Resync(row).deleted <=> installation[i].deleted)
        /\ (Resync(row).verified <=> installation[i].verified)
    BY <2>1, <2>3 DEF Resync, Row
  <2>6. \A o \in Installations : /\ installation'[o].owner = installation[o].owner
                                 /\ installation'[o].deleted <=> installation[o].deleted
                                 /\ installation'[o].verified <=> installation[o].verified
    BY <1>f, <2>1, <2>2, <2>3, <2>5 DEF TypeOK
  <2> QED
    BY <2>4, <2>6 DEF OwnersStepped
<1>24. ASSUME NEW t \in Workers, ApplyInstallationRepos(t) PROVE OwnersStepped
  <2> DEFINE i == task[t].sync.inst
  <2>1. i \in Installations
    BY <1>f, <1>24, TaskOf DEF ApplyInstallationRepos
  <2>2. installation' = [installation EXCEPT ![i].synced = TRUE, ![i].error = FALSE]
    BY <1>24 DEF ApplyInstallationRepos, FailInstallationSync
  <2>3. workspace' = workspace
    BY <1>24 DEF ApplyInstallationRepos
  <2> HIDE DEF i
  <2> QED
    BY <1>f, <2>1, <2>2, <2>3, RowOf DEF OwnersStepped, TypeOK, Row
<1>25. ASSUME NEW t \in Workers, BackfillEnds(t) PROVE OwnersStepped
  BY <1>25 DEF BackfillEnds, OwnersStepped
<1>26. ASSUME NEW r \in Readers, NEW x \in Repos, RepoByGitHubID(r, x) PROVE OwnersStepped
  BY <1>26 DEF RepoByGitHubID, OwnersStepped
<1>27. ASSUME NEW r \in Readers, ActiveRepo(r) PROVE OwnersStepped
  BY <1>27 DEF ActiveRepo, OwnersStepped
<1>28. ASSUME NEW r \in Readers, WithActiveRepo(r) PROVE OwnersStepped
  BY <1>28 DEF WithActiveRepo, OwnersStepped
<1>29. ASSUME NEW t \in Workers, InstallationEventFails(t) PROVE OwnersStepped
  BY <1>29 DEF InstallationEventFails, OwnersStepped
<1> QED
  BY <1>1, <1>2, <1>3, <1>4, <1>5, <1>6, <1>7, <1>8, <1>9, <1>10, <1>11,
    <1>12, <1>13, <1>14, <1>15, <1>16, <1>17, <1>18, <1>19, <1>20, <1>21,
    <1>22, <1>23, <1>24, <1>25, <1>26, <1>27, <1>28, <1>29 DEF Next, AtGitHub,
    Connect, Work, HandleEvent, Synchronise, Handle

\* Every action changes repositories that way.
LEMMA RepoStep ==
  ASSUME IInv, Next PROVE ReposStepped
<1>f. TypeOK
  BY DEF IInv
<1>1. ASSUME NEW i \in Installations, GitHubSuspend(i) PROVE ReposStepped
  BY <1>1 DEF GitHubSuspend, GitHubChange, ReposStepped
<1>2. ASSUME NEW i \in Installations, GitHubUnsuspend(i) PROVE ReposStepped
  BY <1>2 DEF GitHubUnsuspend, GitHubChange, ReposStepped
<1>3. ASSUME NEW i \in Installations, GitHubDelete(i) PROVE ReposStepped
  BY <1>3 DEF GitHubDelete, GitHubChange, ReposStepped
<1>4. ASSUME NEW i \in Installations, NEW repos \in SUBSET Repos, GitHubSetRepos(i, repos) PROVE ReposStepped
  BY <1>4 DEF GitHubSetRepos, GitHubChange, ReposStepped
<1>5. ASSUME NEW i \in Installations, RequestInstallationSync(i) PROVE ReposStepped
  BY <1>5 DEF RequestInstallationSync, ReposStepped
<1>6. ASSUME NEW i \in Installations, ScheduleInstallationSyncs(i) PROVE ReposStepped
  BY <1>6 DEF ScheduleInstallationSyncs, ReposStepped
<1>7. ASSUME NEW w \in Workspaces, DeleteWorkspace(w) PROVE ReposStepped
  BY <1>7 DEF ReposStepped
<1>8. ASSUME NEW g \in Setups, NEW w \in Workspaces, CreateGitHubSetup(g, w) PROVE ReposStepped
  BY <1>8 DEF CreateGitHubSetup, ReposStepped
<1>9. ASSUME NEW g \in Setups, NEW i \in Installations, StartGitHubInstallationAuthorization(g, i) PROVE ReposStepped
  BY <1>9 DEF StartGitHubInstallationAuthorization, ReposStepped
<1>10. ASSUME NEW g \in Setups, ClaimGitHubAuthorization(g) PROVE ReposStepped
  BY <1>10 DEF ClaimGitHubAuthorization, ReposStepped
<1>11. ASSUME NEW g \in Setups, BindInstallation(g) PROVE ReposStepped
  BY <1>11 DEF BindInstallation, ReposStepped
<1>12. ASSUME NEW t \in Workers, NEW j \in queue, ClaimJob(t, j) PROVE ReposStepped
  BY <1>12 DEF ClaimJob, ReposStepped
<1>13. ASSUME NEW t \in Workers, Overrun(t) PROVE ReposStepped
  BY <1>13 DEF Overrun, ReposStepped
<1>14. ASSUME NEW t \in Workers, InstallationEventMoved(t) PROVE ReposStepped
  BY <1>14 DEF InstallationEventMoved, ReposStepped
<1>15. ASSUME NEW t \in Workers, InstallationEventNothing(t) PROVE ReposStepped
  BY <1>15 DEF InstallationEventNothing, ReposStepped
<1>16. ASSUME NEW t \in Workers, InstallationEventDeleted(t) PROVE ReposStepped
  BY <1>16 DEF ReposStepped
<1>17. ASSUME NEW t \in Workers, InstallationEventSuspension(t) PROVE ReposStepped
  BY <1>17 DEF InstallationEventSuspension, ReposStepped
<1>18. ASSUME NEW t \in Workers, InstallationEventRepositories(t) PROVE ReposStepped
  BY <1>18 DEF InstallationEventRepositories, ReposStepped
<1>19. ASSUME NEW t \in Workers, CheckCurrent(t) PROVE ReposStepped
  BY <1>19 DEF CheckCurrent, ReposStepped
<1>20. ASSUME NEW t \in Workers, AskGitHub(t) PROVE ReposStepped
  BY <1>20 DEF AskGitHub, ReposStepped
<1>21. ASSUME NEW t \in Workers, SyncFails(t) PROVE ReposStepped
  BY <1>21 DEF SyncFails, ReposStepped
<1>22. ASSUME NEW t \in Workers, ApplyStale(t) PROVE ReposStepped
  BY <1>22 DEF ApplyStale, ReposStepped
<1>23. ASSUME NEW t \in Workers, ApplyInstallationState(t) PROVE ReposStepped
  BY <1>23 DEF ApplyInstallationState, ReposStepped
<1>24. ASSUME NEW t \in Workers, ApplyInstallationRepos(t) PROVE ReposStepped
  BY <1>24 DEF ReposStepped
<1>25. ASSUME NEW t \in Workers, BackfillEnds(t) PROVE ReposStepped
  BY <1>25 DEF BackfillEnds, ReposStepped
<1>26. ASSUME NEW r \in Readers, NEW x \in Repos, RepoByGitHubID(r, x) PROVE ReposStepped
  BY <1>26 DEF RepoByGitHubID, ReposStepped
<1>27. ASSUME NEW r \in Readers, ActiveRepo(r) PROVE ReposStepped
  BY <1>27 DEF ActiveRepo, ReposStepped
<1>28. ASSUME NEW r \in Readers, WithActiveRepo(r) PROVE ReposStepped
  BY <1>28 DEF WithActiveRepo, ReposStepped
<1>29. ASSUME NEW t \in Workers, InstallationEventFails(t) PROVE ReposStepped
  BY <1>29 DEF InstallationEventFails, ReposStepped
<1> QED
  BY <1>1, <1>2, <1>3, <1>4, <1>5, <1>6, <1>7, <1>8, <1>9, <1>10, <1>11,
    <1>12, <1>13, <1>14, <1>15, <1>16, <1>17, <1>18, <1>19, <1>20, <1>21,
    <1>22, <1>23, <1>24, <1>25, <1>26, <1>27, <1>28, <1>29 DEF Next, AtGitHub,
    Connect, Work, HandleEvent, Synchronise, Handle

-----------------------------------------------------------------------------
(* Bindings, repositories and handlers.                                    *)

\* Binding gives a row that nobody else has to an organisation that exists.
LEMMA BindRow ==
  ASSUME IInv, NEW g \in Setups, BindInstallation(g)
  PROVE  /\ workspace' = workspace /\ repo' = repo /\ reader' = reader
         /\ \/ installation' = installation
            \/ \E i \in Installations, w \in workspace :
                 /\ ~Refused(i, w)
                 /\ installation' = [installation EXCEPT ![i] =
                      Resync([installation[i] EXCEPT !.owner = w, !.verified = TRUE])]
<1>f. TypeOK
  BY DEF IInv
<1> DEFINE i == setup[g].inst
           w == setup[g].ws
<1>1. setup[g].phase = "claimed" /\ w \in workspace
  BY DEF BindInstallation
<1>2. i \in Installations
  BY <1>f, <1>1 DEF TypeOK, SetupState
<1>3. CASE Refused(i, w)
  BY <1>3 DEF BindInstallation
<1>4. CASE ~Refused(i, w)
  <2>1. installation' = [installation EXCEPT ![i] =
                      Resync([installation[i] EXCEPT !.owner = w, !.verified = TRUE])]
    BY <1>4 DEF BindInstallation, EnqueueSync
  <2>2. workspace' = workspace /\ repo' = repo /\ reader' = reader
    BY DEF BindInstallation
  <2> HIDE DEF i, w
  <2> QED
    BY <1>1, <1>2, <1>4, <2>1, <2>2
<1> QED
  BY <1>3, <1>4

\* The row that binding leaves.
LEMMA BoundRow ==
  ASSUME NEW row \in Row, NEW w \in Workspaces
  PROVE  /\ Resync([row EXCEPT !.owner = w, !.verified = TRUE]).owner = w
         /\ Resync([row EXCEPT !.owner = w, !.verified = TRUE]).deleted <=> row.deleted
         /\ Resync([row EXCEPT !.owner = w, !.verified = TRUE]).verified
         /\ Resync([row EXCEPT !.owner = w, !.verified = TRUE]).suspended <=> row.suspended
         /\ Resync([row EXCEPT !.owner = w, !.verified = TRUE]).gen = row.gen + 1
<1>1. [row EXCEPT !.owner = w, !.verified = TRUE] \in Row
  BY DEF Row, Owners
<1>2. /\ [row EXCEPT !.owner = w, !.verified = TRUE].owner = w
      /\ [row EXCEPT !.owner = w, !.verified = TRUE].deleted <=> row.deleted
      /\ [row EXCEPT !.owner = w, !.verified = TRUE].gen = row.gen
      /\ [row EXCEPT !.owner = w, !.verified = TRUE].verified
      /\ [row EXCEPT !.owner = w, !.verified = TRUE].suspended <=> row.suspended
  BY DEF Row
<1> DEFINE b == [row EXCEPT !.owner = w, !.verified = TRUE]
<1> HIDE DEF b
<1>3. /\ b \in Row /\ b.owner = w /\ (b.deleted <=> row.deleted) /\ b.gen = row.gen
      /\ b.verified /\ (b.suspended <=> row.suspended)
  BY <1>1, <1>2 DEF b
<1>4. /\ Resync(b) \in Row /\ Resync(b).owner = w /\ Resync(b).gen = row.gen + 1
  BY <1>3, ResyncRow
<1>5. Resync(b).deleted <=> row.deleted
  BY <1>3 DEF Resync, Row
<1>6. Resync(b).verified
  BY <1>3 DEF Resync, Row
<1>7. Resync(b).suspended <=> row.suspended
  BY <1>3 DEF Resync, Row
<1> QED
  BY <1>4, <1>5, <1>6, <1>7 DEF b

\* The bindings stay one to one (the unique index and the check of Bind).
LEMMA BindingsStep ==
  ASSUME IInv, Next PROVE Bindings'
<1>f. TypeOK /\ Bindings /\ workspace \subseteq Workspaces
  BY DEF IInv, TypeOK
<1>1. OwnersStepped
  BY OwnerStep
<1>2. ASSUME NEW g \in Setups, BindInstallation(g) PROVE Bindings'
  <2>1. CASE installation' = installation
    BY <1>f, <1>2, <2>1, BindRow DEF Bindings
  <2>2. ASSUME NEW i \in Installations, NEW w \in workspace, ~Refused(i, w),
               installation' = [installation EXCEPT ![i] =
                      Resync([installation[i] EXCEPT !.owner = w, !.verified = TRUE])]
        PROVE  Bindings'
    <3>1. workspace' = workspace
      BY <1>2, BindRow
    <3>2. installation'[i].owner = w
      <4>1. Resync([installation[i] EXCEPT !.owner = w, !.verified = TRUE]).owner = w
        <5>1. installation[i] \in Row /\ w \in Workspaces
          BY <1>f, RowOf
        <5> QED
          BY <5>1, BoundRow
      <4> QED
        BY <1>f, <2>2, <4>1 DEF TypeOK
    <3>3. \A o \in Installations \ {i} : installation'[o] = installation[o]
      BY <1>f, <2>2 DEF TypeOK
    <3>4. \A o \in Installations \ {i} : installation[o].owner # w
      BY <2>2 DEF Refused
    <3>5. installation'[i].verified
      <4>1. installation[i] \in Row /\ w \in Workspaces
        BY <1>f, RowOf
      <4>2. Resync([installation[i] EXCEPT !.owner = w, !.verified = TRUE]).verified
        BY <4>1, BoundRow
      <4> QED
        BY <1>f, <2>2, <4>2 DEF TypeOK
    <3> QED
      BY <1>f, <3>1, <3>2, <3>3, <3>4, <3>5 DEF Bindings
  <2> QED
    BY <1>2, <2>1, <2>2, BindRow
<1>3. ASSUME NEW w \in Workspaces, DeleteWorkspace(w) PROVE Bindings'
  <2>1. \A i \in Installations :
          /\ installation'[i].owner = IF installation[i].owner = w THEN None ELSE installation[i].owner
          /\ installation'[i].verified <=> installation[i].verified
    BY <1>f, <1>3, RowOf DEF DeleteWorkspace, Row
  <2>2. workspace' = workspace \ {w}
    BY <1>3 DEF DeleteWorkspace
  <2> QED
    BY <1>f, <2>1, <2>2 DEF Bindings
<1>4. ASSUME NEW t \in Workers, InstallationEventDeleted(t) PROVE Bindings'
  <2> DEFINE i == task[t].sync.inst
  <2>1. i \in Installations
    BY <1>f, <1>4, TaskOf DEF InstallationEventDeleted
  <2>2. installation' = [installation EXCEPT ![i] = Deleted(installation[i])] /\ workspace' = workspace
    BY <1>4 DEF InstallationEventDeleted
  <2> HIDE DEF i
  <2>3. Deleted(installation[i]).owner = None
    BY <1>f, <2>1, RowOf, RowUpdates
  <2> QED
    BY <1>f, <2>1, <2>2, <2>3 DEF Bindings, TypeOK
<1>5. CASE /\ workspace' = workspace
           /\ \A i \in Installations : /\ installation'[i].owner = installation[i].owner
                                       /\ installation'[i].deleted <=> installation[i].deleted
                                       /\ installation'[i].verified <=> installation[i].verified
  BY <1>f, <1>5 DEF Bindings
<1> QED
  BY <1>1, <1>2, <1>3, <1>4, <1>5 DEF OwnersStepped

\* A repository moves with its organisation (the foreign keys and the refusal
\* of another organisation's row).
LEMMA RepoHomeStep ==
  ASSUME IInv, Next PROVE RepoHome'
<1>f. TypeOK /\ Bindings /\ RepoHome /\ workspace \subseteq Workspaces
  BY DEF IInv, TypeOK
<1>n. None \notin workspace
  BY <1>f, NoneAssumption
<1>1. OwnersStepped /\ ReposStepped
  BY OwnerStep, RepoStep
<1>2. ASSUME NEW g \in Setups, BindInstallation(g) PROVE RepoHome'
  <2>1. CASE installation' = installation
    BY <1>f, <1>2, <2>1, BindRow DEF RepoHome
  <2>2. ASSUME NEW i \in Installations, NEW w \in workspace, ~Refused(i, w),
               installation' = [installation EXCEPT ![i] =
                      Resync([installation[i] EXCEPT !.owner = w, !.verified = TRUE])]
        PROVE  RepoHome'
    <3>1. workspace' = workspace /\ repo' = repo
      BY <1>2, BindRow
    <3>2. installation'[i].owner = w
      <4>1. Resync([installation[i] EXCEPT !.owner = w, !.verified = TRUE]).owner = w
        <5>1. installation[i] \in Row /\ w \in Workspaces
          BY <1>f, RowOf
        <5> QED
          BY <5>1, BoundRow
      <4> QED
        BY <1>f, <2>2, <4>1 DEF TypeOK
    <3>3. \A o \in Installations \ {i} : installation'[o] = installation[o]
      BY <1>f, <2>2 DEF TypeOK
    <3>4. installation[i].owner \in {None, w} /\ ~installation[i].deleted
      BY <2>2 DEF Refused
    <3> QED
      BY <1>f, <3>1, <3>2, <3>3, <3>4 DEF RepoHome
  <2> QED
    BY <1>2, <2>1, <2>2, BindRow
<1>3. ASSUME NEW w \in Workspaces, DeleteWorkspace(w) PROVE RepoHome'
  <2>1. \A i \in Installations :
          /\ installation'[i].owner = IF installation[i].owner = w THEN None ELSE installation[i].owner
          /\ installation'[i].deleted <=> installation[i].deleted
    BY <1>f, <1>3, RowOf DEF DeleteWorkspace, Row
  <2>2. workspace' = workspace \ {w}
    BY <1>3 DEF DeleteWorkspace
  <2>3. \A x \in Repos : repo'[x] = IF repo[x].ws = w THEN [ws |-> None, inst |-> None, active |-> FALSE]
                                    ELSE repo[x]
    BY <1>3 DEF DeleteWorkspace
  <2>4. SUFFICES ASSUME NEW x \in Repos
                 PROVE  IF repo'[x].ws = None THEN ~repo'[x].active /\ repo'[x].inst = None
                        ELSE /\ repo'[x].inst \in Installations
                             /\ \/ installation'[repo'[x].inst].owner = repo'[x].ws
                                \/ installation'[repo'[x].inst].deleted /\ repo'[x].ws \in workspace'
    BY DEF RepoHome
  <2>5. CASE repo[x].ws = w
    BY <2>3, <2>5
  <2>6. CASE repo[x].ws # w
    BY <1>f, <2>1, <2>2, <2>3, <2>6 DEF RepoHome
  <2> QED
    BY <2>5, <2>6
<1>4. ASSUME NEW t \in Workers, InstallationEventDeleted(t) PROVE RepoHome'
  <2> DEFINE i == task[t].sync.inst
  <2>1. i \in Installations
    BY <1>f, <1>4, TaskOf DEF InstallationEventDeleted
  <2>2. installation' = [installation EXCEPT ![i] = Deleted(installation[i])] /\ workspace' = workspace
    BY <1>4 DEF InstallationEventDeleted
  <2>3. repo' = [x \in Repos |-> IF repo[x].inst = i THEN [repo[x] EXCEPT !.active = FALSE]
                                 ELSE repo[x]]
    BY <1>4 DEF InstallationEventDeleted
  <2> HIDE DEF i
  <2>4. Deleted(installation[i]).deleted
    BY <1>f, <2>1, RowOf, RowUpdates
  <2>5. \A x \in Repos : /\ repo'[x].ws = repo[x].ws /\ repo'[x].inst = repo[x].inst
                         /\ ~repo[x].active => ~repo'[x].active
    BY <1>f, <2>3 DEF TypeOK
  <2>6. \A o \in Installations : o = i \/ installation'[o] = installation[o]
    BY <1>f, <2>1, <2>2 DEF TypeOK
  <2>7. installation'[i].deleted
    BY <1>f, <2>1, <2>2, <2>4 DEF TypeOK
  <2> QED
    BY <1>f, <1>n, <2>1, <2>2, <2>5, <2>6, <2>7 DEF RepoHome, Bindings
<1>5. ASSUME NEW t \in Workers, ApplyInstallationRepos(t),
             workspace' = workspace,
             \A i \in Installations : /\ installation'[i].owner = installation[i].owner
                                      /\ installation'[i].deleted <=> installation[i].deleted
      PROVE  RepoHome'
  <2> DEFINE s == task[t].sync
             listing == task[t].listing
  <2>1. s.inst \in Installations /\ listing \subseteq Repos
    BY <1>f, <1>5, TaskOf DEF ApplyInstallationRepos
  <2>2. s.ws # None /\ installation[s.inst].owner = s.ws
    BY <1>5 DEF ApplyInstallationRepos, ReposApplicable, SyncCurrent, StateCurrent
  <2>3. repo' = [x \in Repos |->
           IF x \in listing THEN [ws |-> s.ws, inst |-> s.inst, active |-> TRUE]
           ELSE [repo[x] EXCEPT !.active = repo[x].active /\ ~(repo[x].ws = s.ws /\ repo[x].inst = s.inst)]]
    BY <1>5 DEF ApplyInstallationRepos
  <2> HIDE DEF s, listing
  <2>4. ASSUME NEW x \in Repos, x \in listing
        PROVE  repo'[x].ws = s.ws /\ repo'[x].inst = s.inst
    BY <2>3, <2>4
  <2>5. ASSUME NEW x \in Repos, x \notin listing
        PROVE  /\ repo'[x].ws = repo[x].ws /\ repo'[x].inst = repo[x].inst
               /\ ~repo[x].active => ~repo'[x].active
    BY <1>f, <2>3, <2>5 DEF TypeOK
  <2> QED
    BY <1>f, <1>5, <2>1, <2>2, <2>4, <2>5 DEF RepoHome
<1>6. CASE /\ repo' = repo /\ workspace' = workspace
           /\ \A i \in Installations : /\ installation'[i].owner = installation[i].owner
                                       /\ installation'[i].deleted <=> installation[i].deleted
  BY <1>f, <1>6 DEF RepoHome
<1> QED
  BY <1>1, <1>2, <1>3, <1>4, <1>5, <1>6 DEF OwnersStepped, ReposStepped

\* A handler changes by its own steps, or is disturbed by one of three actions.
ReaderStepped(r) ==
  \/ reader'[r] = reader[r]
  \/ \E x \in Repos : RepoByGitHubID(r, x)
  \/ ActiveRepo(r) \/ WithActiveRepo(r)
  \/ /\ reader[r].pc = "captured"
     /\ reader'[r] = [reader[r] EXCEPT !.disturbed = TRUE]
     /\ \/ \E w \in Workspaces : DeleteWorkspace(w) /\ installation[reader[r].inst].owner = w
        \/ \E t \in Workers :
             /\ InstallationEventDeleted(t) \/ InstallationEventSuspension(t)
             /\ reader[r].inst = task[t].sync.inst

\* Every action changes handlers that way.
LEMMA ReaderStep ==
  ASSUME IInv, Next, NEW o \in Readers PROVE ReaderStepped(o)
<1>f. TypeOK
  BY DEF IInv
<1>1. ASSUME NEW i \in Installations, GitHubSuspend(i) PROVE ReaderStepped(o)
  BY <1>1 DEF GitHubSuspend, GitHubChange, ReaderStepped
<1>2. ASSUME NEW i \in Installations, GitHubUnsuspend(i) PROVE ReaderStepped(o)
  BY <1>2 DEF GitHubUnsuspend, GitHubChange, ReaderStepped
<1>3. ASSUME NEW i \in Installations, GitHubDelete(i) PROVE ReaderStepped(o)
  BY <1>3 DEF GitHubDelete, GitHubChange, ReaderStepped
<1>4. ASSUME NEW i \in Installations, NEW repos \in SUBSET Repos, GitHubSetRepos(i, repos) PROVE ReaderStepped(o)
  BY <1>4 DEF GitHubSetRepos, GitHubChange, ReaderStepped
<1>5. ASSUME NEW i \in Installations, RequestInstallationSync(i) PROVE ReaderStepped(o)
  BY <1>5 DEF RequestInstallationSync, ReaderStepped
<1>6. ASSUME NEW i \in Installations, ScheduleInstallationSyncs(i) PROVE ReaderStepped(o)
  BY <1>6 DEF ScheduleInstallationSyncs, ReaderStepped
<1>7. ASSUME NEW w \in Workspaces, DeleteWorkspace(w) PROVE ReaderStepped(o)
  BY <1>7 DEF DeleteWorkspace, ReaderStepped
<1>8. ASSUME NEW g \in Setups, NEW w \in Workspaces, CreateGitHubSetup(g, w) PROVE ReaderStepped(o)
  BY <1>8 DEF CreateGitHubSetup, ReaderStepped
<1>9. ASSUME NEW g \in Setups, NEW i \in Installations, StartGitHubInstallationAuthorization(g, i) PROVE ReaderStepped(o)
  BY <1>9 DEF StartGitHubInstallationAuthorization, ReaderStepped
<1>10. ASSUME NEW g \in Setups, ClaimGitHubAuthorization(g) PROVE ReaderStepped(o)
  BY <1>10 DEF ClaimGitHubAuthorization, ReaderStepped
<1>11. ASSUME NEW g \in Setups, BindInstallation(g) PROVE ReaderStepped(o)
  BY <1>11, BindRow DEF ReaderStepped
<1>12. ASSUME NEW t \in Workers, NEW j \in queue, ClaimJob(t, j) PROVE ReaderStepped(o)
  BY <1>12 DEF ClaimJob, ReaderStepped
<1>13. ASSUME NEW t \in Workers, Overrun(t) PROVE ReaderStepped(o)
  BY <1>13 DEF Overrun, ReaderStepped
<1>14. ASSUME NEW t \in Workers, InstallationEventMoved(t) PROVE ReaderStepped(o)
  BY <1>14 DEF InstallationEventMoved, ReaderStepped
<1>15. ASSUME NEW t \in Workers, InstallationEventNothing(t) PROVE ReaderStepped(o)
  BY <1>15 DEF InstallationEventNothing, ReaderStepped
<1>16. ASSUME NEW t \in Workers, InstallationEventDeleted(t) PROVE ReaderStepped(o)
  BY <1>16 DEF InstallationEventDeleted, Disturb, ReaderStepped
<1>17. ASSUME NEW t \in Workers, InstallationEventSuspension(t) PROVE ReaderStepped(o)
  BY <1>17 DEF InstallationEventSuspension, Disturb, ReaderStepped
<1>18. ASSUME NEW t \in Workers, InstallationEventRepositories(t) PROVE ReaderStepped(o)
  BY <1>18 DEF InstallationEventRepositories, ReaderStepped
<1>19. ASSUME NEW t \in Workers, CheckCurrent(t) PROVE ReaderStepped(o)
  BY <1>19 DEF CheckCurrent, ReaderStepped
<1>20. ASSUME NEW t \in Workers, AskGitHub(t) PROVE ReaderStepped(o)
  BY <1>20 DEF AskGitHub, ReaderStepped
<1>21. ASSUME NEW t \in Workers, SyncFails(t) PROVE ReaderStepped(o)
  BY <1>21 DEF SyncFails, ReaderStepped
<1>22. ASSUME NEW t \in Workers, ApplyStale(t) PROVE ReaderStepped(o)
  BY <1>22 DEF ApplyStale, ReaderStepped
<1>23. ASSUME NEW t \in Workers, ApplyInstallationState(t) PROVE ReaderStepped(o)
  BY <1>23 DEF ApplyInstallationState, ReaderStepped
<1>24. ASSUME NEW t \in Workers, ApplyInstallationRepos(t) PROVE ReaderStepped(o)
  BY <1>24 DEF ApplyInstallationRepos, ReaderStepped
<1>25. ASSUME NEW t \in Workers, BackfillEnds(t) PROVE ReaderStepped(o)
  BY <1>25 DEF BackfillEnds, ReaderStepped
<1>26. ASSUME NEW r \in Readers, NEW x \in Repos, RepoByGitHubID(r, x) PROVE ReaderStepped(o)
  <2>1. CASE r = o
    BY <1>26, <2>1 DEF ReaderStepped
  <2>2. CASE r # o
    BY <1>f, <1>26, <2>2 DEF RepoByGitHubID, ReaderStepped, TypeOK
  <2> QED
    BY <2>1, <2>2
<1>27. ASSUME NEW r \in Readers, ActiveRepo(r) PROVE ReaderStepped(o)
  <2>1. CASE r = o
    BY <1>27, <2>1 DEF ReaderStepped
  <2>2. CASE r # o
    BY <1>f, <1>27, <2>2 DEF ActiveRepo, ReaderStepped, TypeOK
  <2> QED
    BY <2>1, <2>2
<1>28. ASSUME NEW r \in Readers, WithActiveRepo(r) PROVE ReaderStepped(o)
  <2>1. CASE r = o
    BY <1>28, <2>1 DEF ReaderStepped
  <2>2. CASE r # o
    BY <1>f, <1>28, <2>2 DEF WithActiveRepo, ReaderStepped, TypeOK
  <2> QED
    BY <2>1, <2>2
<1>29. ASSUME NEW t \in Workers, InstallationEventFails(t) PROVE ReaderStepped(o)
  BY <1>f, <1>29 DEF InstallationEventFails, ReaderStepped
<1> QED
  BY <1>1, <1>2, <1>3, <1>4, <1>5, <1>6, <1>7, <1>8, <1>9, <1>10, <1>11,
    <1>12, <1>13, <1>14, <1>15, <1>16, <1>17, <1>18, <1>19, <1>20, <1>21,
    <1>22, <1>23, <1>24, <1>25, <1>26, <1>27, <1>28, <1>29 DEF Next, AtGitHub,
    Connect, Work, HandleEvent, Synchronise, Handle

\* No handler that will pass the fence is disturbed.
LEMMA ReadersFencedStep ==
  ASSUME IInv, Next PROVE ReadersFenced'
<1>f. /\ TypeOK /\ Bindings /\ RepoHome /\ ReadersFenced
      /\ workspace \subseteq Workspaces
  BY DEF IInv, TypeOK
<1> SUFFICES ASSUME NEW r \in Readers
             PROVE  LET e == reader'[r]
                    IN  /\ e.pc = "resolved" => ~e.disturbed
                        /\ e.pc = "resolved" =>
                             \/ e.ws \notin workspace'
                             \/ /\ repo'[e.repo].ws = e.ws
                                /\ repo'[e.repo].inst = e.inst \/ installation'[e.inst].deleted
                        /\ e.pc = "captured" =>
                             \/ e.ws \notin workspace' \/ installation'[e.inst].deleted
                             \/ e.gen < installation'[e.inst].gen
                             \/ /\ e.gen = installation'[e.inst].gen
                                /\ installation'[e.inst].owner = e.ws
                                /\ ~e.disturbed
  BY DEF ReadersFenced
<1> DEFINE e == reader[r]
<1>r. ReaderStepped(r) /\ ReposStepped
  BY ReaderStep, RepoStep
<1>e. /\ e.pc = "resolved" => ~e.disturbed
      /\ e.pc = "resolved" =>
           \/ e.ws \notin workspace
           \/ /\ repo[e.repo].ws = e.ws
              /\ repo[e.repo].inst = e.inst \/ installation[e.inst].deleted
      /\ e.pc = "captured" =>
           \/ e.ws \notin workspace \/ installation[e.inst].deleted
           \/ e.gen < installation[e.inst].gen
           \/ /\ e.gen = installation[e.inst].gen /\ installation[e.inst].owner = e.ws
              /\ ~e.disturbed
  BY <1>f DEF ReadersFenced
<1>t. ASSUME e.pc \in {"resolved", "captured"}
      PROVE  /\ e.repo \in Repos /\ e.ws \in Workspaces /\ e.ws # None
             /\ e.inst \in Installations /\ e.gen \in Nat
  BY <1>f, <1>t, ReaderOf, NoneAssumption
<1>g. ASSUME NEW i \in Installations
      PROVE  /\ RowStepped(i)
             /\ installation[i].gen \in Nat /\ installation'[i].gen \in Nat
  <2>1. TypeOK'
    BY TypeStep
  <2>2. installation[i].gen \in Nat
    BY <1>f, RowOf
  <2>3. installation'[i].gen \in Nat
    BY <2>1 DEF TypeOK, Row
  <2> QED
    BY <2>2, <2>3, RowStep
<1>1. CASE reader'[r] = reader[r]
  <2> HIDE DEF e
  <2>r. reader'[r] = e
    BY <1>1 DEF e
  <2>1. ASSUME e.pc = "resolved"
        PROVE  \/ e.ws \notin workspace'
               \/ /\ repo'[e.repo].ws = e.ws
                  /\ repo'[e.repo].inst = e.inst \/ installation'[e.inst].deleted
    <3>t. /\ e.repo \in Repos /\ e.ws \in Workspaces /\ e.ws # None /\ e.inst \in Installations
      BY <1>t, <2>1
    <3>m. workspace' \subseteq workspace /\ (installation[e.inst].deleted => installation'[e.inst].deleted)
      BY <1>g, <3>t DEF RowStepped
    <3>1. CASE repo' = repo
      BY <1>e, <2>1, <3>m, <3>1
    <3>2. ASSUME NEW w \in Workspaces, DeleteWorkspace(w)
          PROVE  \/ e.ws \notin workspace'
                 \/ /\ repo'[e.repo].ws = e.ws
                    /\ repo'[e.repo].inst = e.inst \/ installation'[e.inst].deleted
      <4>1. workspace' = workspace \ {w} /\ (repo[e.repo].ws # w => repo'[e.repo] = repo[e.repo])
        BY <3>2, <3>t DEF DeleteWorkspace
      <4> QED
        BY <1>e, <2>1, <3>m, <4>1
    <3>3. ASSUME NEW t \in Workers, InstallationEventDeleted(t)
          PROVE  \/ e.ws \notin workspace'
                 \/ /\ repo'[e.repo].ws = e.ws
                    /\ repo'[e.repo].inst = e.inst \/ installation'[e.inst].deleted
      <4>1. repo'[e.repo].ws = repo[e.repo].ws /\ repo'[e.repo].inst = repo[e.repo].inst
        BY <1>f, <3>3, <3>t DEF InstallationEventDeleted, TypeOK
      <4> QED
        BY <1>e, <2>1, <3>m, <4>1
    <3>4. ASSUME NEW t \in Workers, ApplyInstallationRepos(t), e.ws \in workspace
          PROVE  /\ repo'[e.repo].ws = e.ws
                 /\ repo'[e.repo].inst = e.inst \/ installation'[e.inst].deleted
      <4> DEFINE s == task[t].sync
                 listing == task[t].listing
      <4>1. s.inst \in Installations
        BY <1>f, <3>4, TaskOf DEF ApplyInstallationRepos
      <4>2. installation[s.inst].owner = s.ws /\ ~RepositoryConflict(s, listing)
        BY <3>4 DEF ApplyInstallationRepos, ReposApplicable, SyncCurrent, StateCurrent
      <4>3. repo' = [x \in Repos |->
           IF x \in listing THEN [ws |-> s.ws, inst |-> s.inst, active |-> TRUE]
           ELSE [repo[x] EXCEPT !.active = repo[x].active /\ ~(repo[x].ws = s.ws /\ repo[x].inst = s.inst)]]
        BY <3>4 DEF ApplyInstallationRepos
      <4> HIDE DEF s, listing
      <4>4. /\ repo[e.repo].ws = e.ws
            /\ repo[e.repo].inst = e.inst \/ installation[e.inst].deleted
        BY <1>e, <2>1, <3>4
      <4>5. CASE e.repo \notin listing
        <5>1. repo'[e.repo].ws = repo[e.repo].ws /\ repo'[e.repo].inst = repo[e.repo].inst
          BY <1>f, <3>t, <4>3, <4>5 DEF TypeOK
        <5> QED
          BY <3>m, <4>4, <5>1
      <4>6. CASE e.repo \in listing
        <5>1. repo'[e.repo].ws = s.ws /\ repo'[e.repo].inst = s.inst
          BY <3>t, <4>3, <4>6
        <5>2. repo[e.repo].ws = s.ws
          BY <3>t, <4>2, <4>4, <4>6 DEF RepositoryConflict
        <5>3. installation[e.inst].deleted \/ installation[e.inst].owner = e.ws
          BY <1>f, <3>t, <4>4 DEF RepoHome
        <5>4. installation[e.inst].deleted \/ e.inst = s.inst
          BY <1>f, <3>t, <4>1, <4>2, <4>4, <5>2, <5>3 DEF Bindings
        <5> QED
          BY <3>m, <4>4, <5>1, <5>2, <5>4
      <4> QED
        BY <4>5, <4>6
    <3> QED
      BY <1>r, <3>m, <3>1, <3>2, <3>3, <3>4 DEF ReposStepped
  <2>2. ASSUME e.pc = "captured"
        PROVE  \/ e.ws \notin workspace' \/ installation'[e.inst].deleted
               \/ e.gen < installation'[e.inst].gen
               \/ /\ e.gen = installation'[e.inst].gen
                  /\ installation'[e.inst].owner = e.ws
                  /\ ~e.disturbed
    <3>1. e.inst \in Installations /\ e.gen \in Nat
      BY <1>t, <2>2
    <3>2. /\ installation[e.inst].gen \in Nat /\ installation'[e.inst].gen \in Nat
          /\ installation[e.inst].gen <= installation'[e.inst].gen
          /\ workspace' \subseteq workspace
          /\ installation[e.inst].deleted => installation'[e.inst].deleted
          /\ installation'[e.inst].gen = installation[e.inst].gen =>
               \/ installation'[e.inst].owner = installation[e.inst].owner
               \/ installation[e.inst].owner \notin workspace'
      BY <1>g, <3>1 DEF RowStepped
    <3> QED
      BY <1>e, <2>2, <3>1, <3>2
  <2> QED
    BY <1>e, <2>r, <2>1, <2>2
<1>2. ASSUME NEW x \in Repos, RepoByGitHubID(r, x)
      PROVE  /\ reader'[r].pc = "resolved" /\ ~reader'[r].disturbed
             /\ repo'[reader'[r].repo].ws = reader'[r].ws
             /\ repo'[reader'[r].repo].inst = reader'[r].inst
  BY <1>f, <1>2 DEF RepoByGitHubID, TypeOK
<1>3. ASSUME ActiveRepo(r), reader'[r].pc # "idle"
      PROVE  /\ reader'[r].pc = "captured"
             /\ \/ installation'[reader'[r].inst].deleted
                \/ /\ reader'[r].gen = installation'[reader'[r].inst].gen
                   /\ installation'[reader'[r].inst].owner = reader'[r].ws
                   /\ ~reader'[r].disturbed
  <2> DEFINE i == repo[e.repo].inst
  <2>1. /\ e.pc = "resolved" /\ installation' = installation
        /\ reader'[r] = [e EXCEPT !.pc = "captured", !.gen = installation[i].gen]
        /\ repo[e.repo].ws = e.ws /\ installation[i].owner = repo[e.repo].ws
    BY <1>f, <1>3 DEF ActiveRepo, Idle, TypeOK
  <2>2. e \in Reader /\ e.repo \in Repos /\ e.ws # None
    BY <1>f, <1>t, <2>1, ReaderOf
  <2> HIDE DEF e, i
  <2>3. e.ws \in workspace
    <3>1. \/ installation[i].owner \in workspace \cup {None}
      BY <1>f, <2>1, <2>2 DEF RepoHome, Bindings, i
    <3> QED
      BY <2>1, <2>2, <3>1
  <2>4. ~e.disturbed /\ (i = e.inst \/ installation[e.inst].deleted)
    BY <1>e, <2>1, <2>3 DEF i
  <2>5. /\ reader'[r].pc = "captured" /\ reader'[r].inst = e.inst /\ reader'[r].ws = e.ws
        /\ reader'[r].gen = installation[i].gen /\ (reader'[r].disturbed <=> e.disturbed)
    BY <2>1, <2>2 DEF Reader
  <2> QED
    BY <2>1, <2>4, <2>5
<1>4. ASSUME WithActiveRepo(r) PROVE reader'[r].pc \in {"idle", "written"}
  BY <1>f, <1>4 DEF WithActiveRepo, Written, Idle, TypeOK
<1>5. ASSUME /\ e.pc = "captured"
             /\ reader'[r] = [e EXCEPT !.disturbed = TRUE]
      PROVE  /\ reader'[r].pc = "captured" /\ reader'[r].ws = e.ws
             /\ reader'[r].inst = e.inst /\ reader'[r].gen = e.gen
             /\ e.inst \in Installations
  <2>1. e \in Reader /\ e.inst \in Installations
    BY <1>f, <1>5, ReaderOf
  <2> HIDE DEF e
  <2> QED
    BY <1>5, <2>1 DEF Reader
<1>6. ASSUME /\ e.pc = "captured"
             /\ reader'[r] = [e EXCEPT !.disturbed = TRUE],
             NEW w \in Workspaces, DeleteWorkspace(w), installation[e.inst].owner = w
      PROVE  \/ e.ws \notin workspace' \/ installation'[e.inst].deleted
             \/ e.gen < installation'[e.inst].gen
  <2>1. e.inst \in Installations
    BY <1>5, <1>6
  <2>2. /\ workspace' = workspace \ {w}
        /\ installation'[e.inst] = [installation[e.inst] EXCEPT !.owner = None]
    BY <1>6, <2>1 DEF DeleteWorkspace
  <2> HIDE DEF e
  <2>3. /\ installation'[e.inst].gen = installation[e.inst].gen
        /\ installation'[e.inst].deleted <=> installation[e.inst].deleted
    BY <1>f, <2>1, <2>2, RowOf DEF Row
  <2> QED
    BY <1>e, <1>6, <2>2, <2>3
<1>7. ASSUME /\ e.pc = "captured"
             /\ reader'[r] = [e EXCEPT !.disturbed = TRUE],
             NEW t \in Workers, InstallationEventDeleted(t), e.inst = task[t].sync.inst
      PROVE  installation'[e.inst].deleted
  <2>1. e.inst \in Installations
    BY <1>5, <1>7
  <2>2. installation' = [installation EXCEPT ![e.inst] = Deleted(installation[e.inst])]
    BY <1>7 DEF InstallationEventDeleted
  <2> HIDE DEF e
  <2> QED
    BY <1>f, <2>1, <2>2, RowOf, RowUpdates DEF TypeOK
<1>8. ASSUME /\ e.pc = "captured"
             /\ reader'[r] = [e EXCEPT !.disturbed = TRUE],
             NEW t \in Workers, InstallationEventSuspension(t), e.inst = task[t].sync.inst
      PROVE  \/ e.ws \notin workspace' \/ installation'[e.inst].deleted
             \/ e.gen < installation'[e.inst].gen
  <2>1. e.inst \in Installations /\ e.gen \in Nat
    BY <1>5, <1>8, <1>t
  <2>2. installation' = [installation EXCEPT ![e.inst] = Suspended(installation[e.inst])] /\ workspace' = workspace
    BY <1>8 DEF InstallationEventSuspension
  <2> HIDE DEF e
  <2>3. installation'[e.inst].gen = installation[e.inst].gen + 1 /\ installation[e.inst].gen \in Nat
    BY <1>f, <2>1, <2>2, RowOf, RowUpdates DEF TypeOK
  <2>4. installation[e.inst].deleted => installation'[e.inst].deleted
    BY <1>g, <2>1 DEF RowStepped
  <2> QED
    BY <1>e, <1>8, <2>1, <2>2, <2>3, <2>4
<1>9. ASSUME /\ e.pc = "captured"
             /\ reader'[r] = [e EXCEPT !.disturbed = TRUE]
             /\ \/ \E w \in Workspaces : DeleteWorkspace(w) /\ installation[e.inst].owner = w
                \/ \E t \in Workers :
                     /\ InstallationEventDeleted(t) \/ InstallationEventSuspension(t)
                     /\ e.inst = task[t].sync.inst
      PROVE  /\ reader'[r].pc = "captured"
             /\ \/ reader'[r].ws \notin workspace' \/ installation'[reader'[r].inst].deleted
                \/ reader'[r].gen < installation'[reader'[r].inst].gen
  BY <1>5, <1>6, <1>7, <1>8, <1>9
<1> QED
  BY <1>r, <1>1, <1>2, <1>3, <1>4, <1>9 DEF ReaderStepped

\* A handler writes only what nothing disturbed.
LEMMA UndisturbedStep ==
  ASSUME IInv, Next PROVE EvidenceUndisturbed'
<1>f. TypeOK /\ Bindings /\ ReadersFenced /\ EvidenceUndisturbed
  BY DEF IInv
<1> SUFFICES ASSUME NEW r \in Readers, reader'[r].pc = "written" PROVE ~reader'[r].disturbed
  BY DEF EvidenceUndisturbed
<1>r. ReaderStepped(r)
  BY ReaderStep
<1>1. CASE reader'[r] = reader[r]
  BY <1>f, <1>1 DEF EvidenceUndisturbed
<1>2. ASSUME NEW x \in Repos, RepoByGitHubID(r, x) PROVE FALSE
  BY <1>f, <1>2 DEF RepoByGitHubID, TypeOK
<1>3. ASSUME ActiveRepo(r) PROVE FALSE
  <2>1. CASE reader'[r] = Idle
    BY <2>1 DEF Idle
  <2>2. CASE reader'[r] = [reader[r] EXCEPT !.pc = "captured",
                             !.gen = installation[repo[reader[r].repo].inst].gen]
    <3>1. reader[r] \in Reader
      BY <1>f, <1>3, ReaderOf DEF ActiveRepo
    <3> QED
      BY <2>2, <3>1 DEF Reader
  <2> QED
    BY <1>f, <1>3, <2>1, <2>2 DEF ActiveRepo, TypeOK
<1>4. CASE WithActiveRepo(r)
  <2>1. /\ reader[r].pc = "captured" /\ RepoFenced(reader[r])
        /\ reader'[r] = Written(reader[r].disturbed)
    BY <1>f, <1>4 DEF WithActiveRepo, Idle, TypeOK
  <2>2. /\ reader[r].ws \in Workspaces /\ reader[r].inst \in Installations /\ reader[r].gen \in Nat
    BY <1>f, <2>1, ReaderOf
  <2>3. /\ installation[reader[r].inst].owner = reader[r].ws
        /\ installation[reader[r].inst].gen = reader[r].gen
        /\ ~installation[reader[r].inst].deleted
    BY <2>1 DEF RepoFenced, Serving, Bound
  <2>4. reader[r].ws \in workspace
    BY <1>f, <2>2, <2>3, NoneAssumption DEF Bindings
  <2>5. ~reader[r].disturbed
    BY <1>f, <2>1, <2>2, <2>3, <2>4 DEF ReadersFenced
  <2> QED
    BY <2>1, <2>5 DEF Written
<1>5. CASE /\ reader[r].pc = "captured"
           /\ reader'[r] = [reader[r] EXCEPT !.disturbed = TRUE]
  <2>1. reader[r] \in Reader
    BY <1>f, <1>5, ReaderOf
  <2> QED
    BY <1>5, <2>1 DEF Reader
<1> QED
  BY <1>r, <1>1, <1>2, <1>3, <1>4, <1>5 DEF ReaderStepped

-----------------------------------------------------------------------------
(* Jobs and deliveries: what a step does to the rows, and to what waits.   *)

Lifted(t, row) == [row EXCEPT !.error = FALSE, !.suspended = row.suspended /\ task[t].suspended]

\* A request leaves its job in the queue; everything else that moves a row.
RowMoved(o) ==
  \/ installation'[o] = installation[o]
  \/ \E row \in Row :
       /\ installation'[o] = Resync(row) /\ SyncJob(o, Resync(row)) \in queue'
       /\ row.gen = installation[o].gen
       /\ \/ row.suspended <=> installation[o].suspended
          \/ \E t \in Workers : /\ ApplyInstallationState(t) /\ task[t].sync.inst = o
                                /\ ~task[t].suspended
  \/ installation'[o] = Deleted(installation[o])
  \/ installation'[o] = Suspended(installation[o])
  \/ installation'[o] = [installation[o] EXCEPT !.owner = None]
  \/ \E e : installation'[o] = [installation[o] EXCEPT !.error = installation[o].error \/ e]
  \/ \E t \in Workers :
       /\ task[t].sync.inst = o
       /\ \/ /\ ApplyInstallationRepos(t)
             /\ installation'[o] = [installation[o] EXCEPT !.synced = TRUE, !.error = FALSE]
          \/ /\ ApplyInstallationState(t)
             /\ installation'[o] = Lifted(t, installation[o])

\* Every action moves rows that way.
LEMMA RowMoveStep ==
  ASSUME IInv, Next, NEW o \in Installations PROVE RowMoved(o)
<1>f. TypeOK
  BY DEF IInv
<1>1. ASSUME NEW i \in Installations, GitHubSuspend(i) PROVE RowMoved(o)
  BY <1>1 DEF GitHubSuspend, GitHubChange, RowMoved
<1>2. ASSUME NEW i \in Installations, GitHubUnsuspend(i) PROVE RowMoved(o)
  BY <1>2 DEF GitHubUnsuspend, GitHubChange, RowMoved
<1>3. ASSUME NEW i \in Installations, GitHubDelete(i) PROVE RowMoved(o)
  BY <1>3 DEF GitHubDelete, GitHubChange, RowMoved
<1>4. ASSUME NEW i \in Installations, NEW repos \in SUBSET Repos, GitHubSetRepos(i, repos) PROVE RowMoved(o)
  BY <1>4 DEF GitHubSetRepos, GitHubChange, RowMoved
<1>5. ASSUME NEW i \in Installations, RequestInstallationSync(i) PROVE RowMoved(o)
  <2>1. installation[i] \in Row /\ EnqueueSync(i, installation[i])
    BY <1>f, <1>5, RowOf DEF RequestInstallationSync
  <2> QED
    BY <1>f, <2>1 DEF EnqueueSync, RowMoved, TypeOK
<1>6. ASSUME NEW i \in Installations, ScheduleInstallationSyncs(i) PROVE RowMoved(o)
  <2>1. installation[i] \in Row /\ EnqueueSync(i, installation[i])
    BY <1>f, <1>6, RowOf DEF ScheduleInstallationSyncs
  <2> QED
    BY <1>f, <2>1 DEF EnqueueSync, RowMoved, TypeOK
<1>7. ASSUME NEW w \in Workspaces, DeleteWorkspace(w) PROVE RowMoved(o)
  BY <1>f, <1>7 DEF DeleteWorkspace, RowMoved, TypeOK
<1>8. ASSUME NEW g \in Setups, NEW w \in Workspaces, CreateGitHubSetup(g, w) PROVE RowMoved(o)
  BY <1>8 DEF CreateGitHubSetup, RowMoved
<1>9. ASSUME NEW g \in Setups, NEW i \in Installations, StartGitHubInstallationAuthorization(g, i) PROVE RowMoved(o)
  BY <1>9 DEF StartGitHubInstallationAuthorization, RowMoved
<1>10. ASSUME NEW g \in Setups, ClaimGitHubAuthorization(g) PROVE RowMoved(o)
  BY <1>10 DEF ClaimGitHubAuthorization, RowMoved
<1>11. ASSUME NEW g \in Setups, BindInstallation(g) PROVE RowMoved(o)
  <2> DEFINE i == setup[g].inst
            row == [installation[i] EXCEPT !.owner = setup[g].ws, !.verified = TRUE]
  <2>1. setup[g] \in [phase: {"claimed"}, ws: Workspaces, inst: Installations]
    BY <1>f, <1>11 DEF BindInstallation, TypeOK, SetupState
  <2>2. i \in Installations /\ row \in Row
    BY ZenonT(40), <1>f, <2>1, RowOf DEF Row, Owners
  <2>3. row.gen = installation[i].gen /\ (row.suspended <=> installation[i].suspended)
    BY <1>f, <2>1, <2>2, RowOf DEF Row
  <2>4. EnqueueSync(i, row) \/ UNCHANGED installation
    BY <1>11 DEF BindInstallation
  <2> HIDE DEF i, row
  <2>5. CASE EnqueueSync(i, row) /\ o = i
    BY <1>f, <2>2, <2>3, <2>5 DEF EnqueueSync, RowMoved, TypeOK
  <2>6. CASE EnqueueSync(i, row) /\ o # i
    BY <1>f, <2>2, <2>6 DEF EnqueueSync, RowMoved, TypeOK
  <2> QED
    BY <2>4, <2>5, <2>6 DEF RowMoved
<1>12. ASSUME NEW t \in Workers, NEW j \in queue, ClaimJob(t, j) PROVE RowMoved(o)
  BY <1>12 DEF ClaimJob, RowMoved
<1>13. ASSUME NEW t \in Workers, Overrun(t) PROVE RowMoved(o)
  BY <1>13 DEF Overrun, RowMoved
<1>14. ASSUME NEW t \in Workers, InstallationEventMoved(t) PROVE RowMoved(o)
  BY <1>14 DEF InstallationEventMoved, RowMoved
<1>15. ASSUME NEW t \in Workers, InstallationEventNothing(t) PROVE RowMoved(o)
  BY <1>15 DEF InstallationEventNothing, RowMoved
<1>16. ASSUME NEW t \in Workers, InstallationEventDeleted(t) PROVE RowMoved(o)
  <2>1. installation' = [installation EXCEPT ![task[t].sync.inst] = Deleted(installation[task[t].sync.inst])]
    BY <1>16 DEF InstallationEventDeleted
  <2> QED
    BY <1>f, <2>1 DEF RowMoved, TypeOK
<1>17. ASSUME NEW t \in Workers, InstallationEventSuspension(t) PROVE RowMoved(o)
  <2>1. installation' = [installation EXCEPT ![task[t].sync.inst] = Suspended(installation[task[t].sync.inst])]
    BY <1>17 DEF InstallationEventSuspension
  <2> QED
    BY <1>f, <2>1 DEF RowMoved, TypeOK
<1>18. ASSUME NEW t \in Workers, InstallationEventRepositories(t) PROVE RowMoved(o)
  <2> DEFINE i == task[t].sync.inst
  <2>1. i \in Installations /\ installation[i] \in Row /\ EnqueueSync(i, installation[i])
    BY <1>f, <1>18, TaskOf, RowOf DEF InstallationEventRepositories
  <2> HIDE DEF i
  <2> QED
    BY <1>f, <2>1 DEF EnqueueSync, RowMoved, TypeOK
<1>19. ASSUME NEW t \in Workers, CheckCurrent(t) PROVE RowMoved(o)
  BY <1>19 DEF CheckCurrent, RowMoved
<1>20. ASSUME NEW t \in Workers, AskGitHub(t) PROVE RowMoved(o)
  BY <1>20 DEF AskGitHub, RowMoved
<1>21. ASSUME NEW t \in Workers, SyncFails(t) PROVE RowMoved(o)
  <2> DEFINE i == task[t].sync.inst
  <2>1. \/ \E e : installation' = [installation EXCEPT ![i].error = installation[i].error \/ e]
        \/ installation' = installation
    BY <1>21 DEF SyncFails, FailInstallationSync
  <2> HIDE DEF i
  <2>2. CASE installation' = installation
    BY <2>2 DEF RowMoved
  <2>3. ASSUME NEW e, installation' = [installation EXCEPT ![i].error = installation[i].error \/ e]
        PROVE  RowMoved(o)
    BY <1>f, <2>3 DEF RowMoved, TypeOK
  <2> QED
    BY <2>1, <2>2, <2>3
<1>22. ASSUME NEW t \in Workers, ApplyStale(t) PROVE RowMoved(o)
  BY <1>22 DEF ApplyStale, RowMoved
<1>23. ASSUME NEW t \in Workers, ApplyInstallationState(t) PROVE RowMoved(o)
  <2> DEFINE i == task[t].sync.inst
  <2>1. i \in Installations /\ installation[i] \in Row /\ Lifted(t, installation[i]) \in Row
    BY <1>f, <1>23, TaskOf, RowOf, RowLifted DEF ApplyInstallationState, Lifted
  <2>2. \/ ~task[t].suspended /\ EnqueueSync(i, Lifted(t, installation[i]))
        \/ installation' = [installation EXCEPT ![i] = Lifted(t, installation[i])]
    BY <1>23 DEF ApplyInstallationState, Lifted
  <2>3. Lifted(t, installation[i]).gen = installation[i].gen
    BY <2>1 DEF Lifted, Row
  <2> DEFINE row == Lifted(t, installation[i])
  <2>4. row \in Row /\ row.gen = installation[i].gen
    BY <2>1, <2>3
  <2>5. \/ ~task[t].suspended /\ EnqueueSync(i, row)
        \/ installation' = [installation EXCEPT ![i] = row]
    BY <2>2
  <2>6. task[t].sync.inst = i
    OBVIOUS
  <2>7. row = Lifted(t, installation[i])
    OBVIOUS
  <2> HIDE DEF i, row
  <2>8. CASE o # i
    BY <1>f, <2>1, <2>5, <2>8 DEF EnqueueSync, RowMoved, TypeOK
  <2>9. CASE o = i /\ ~task[t].suspended /\ EnqueueSync(i, row)
    <3>1. installation'[o] = Resync(row) /\ SyncJob(o, Resync(row)) \in queue'
      BY <1>f, <2>9 DEF EnqueueSync, TypeOK
    <3> QED
      BY <1>23, <2>4, <2>6, <2>9, <3>1 DEF RowMoved
  <2>10. CASE o = i /\ installation' = [installation EXCEPT ![i] = row]
    <3>1. installation'[o] = Lifted(t, installation[o])
      BY <1>f, <2>7, <2>10 DEF TypeOK
    <3> QED
      BY <1>23, <2>6, <2>10, <3>1 DEF RowMoved
  <2> QED
    BY <2>5, <2>8, <2>9, <2>10
<1>24. ASSUME NEW t \in Workers, ApplyInstallationRepos(t) PROVE RowMoved(o)
  <2> DEFINE i == task[t].sync.inst
  <2>1. installation' = [installation EXCEPT ![i].synced = TRUE, ![i].error = FALSE]
    BY <1>24 DEF ApplyInstallationRepos
  <2>2. task[t].sync.inst = i
    OBVIOUS
  <2> HIDE DEF i
  <2>3. CASE o # i
    BY <1>f, <2>1, <2>3 DEF RowMoved, TypeOK
  <2>4. CASE o = i
    <3>1. installation'[o] = [installation[o] EXCEPT !.synced = TRUE, !.error = FALSE]
      BY <1>f, <2>1, <2>4 DEF TypeOK
    <3> QED
      BY <1>24, <2>2, <2>4, <3>1 DEF RowMoved
  <2> QED
    BY <2>3, <2>4
<1>25. ASSUME NEW t \in Workers, BackfillEnds(t) PROVE RowMoved(o)
  BY <1>25 DEF BackfillEnds, RowMoved
<1>26. ASSUME NEW r \in Readers, NEW x \in Repos, RepoByGitHubID(r, x) PROVE RowMoved(o)
  BY <1>26 DEF RepoByGitHubID, RowMoved
<1>27. ASSUME NEW r \in Readers, ActiveRepo(r) PROVE RowMoved(o)
  BY <1>27 DEF ActiveRepo, RowMoved
<1>28. ASSUME NEW r \in Readers, WithActiveRepo(r) PROVE RowMoved(o)
  BY <1>28 DEF WithActiveRepo, RowMoved
<1>29. ASSUME NEW t \in Workers, InstallationEventFails(t) PROVE RowMoved(o)
  BY <1>29 DEF InstallationEventFails, RowMoved
<1> QED
  BY <1>1, <1>2, <1>3, <1>4, <1>5, <1>6, <1>7, <1>8, <1>9, <1>10, <1>11,
    <1>12, <1>13, <1>14, <1>15, <1>16, <1>17, <1>18, <1>19, <1>20, <1>21,
    <1>22, <1>23, <1>24, <1>25, <1>26, <1>27, <1>28, <1>29 DEF Next, AtGitHub,
    Connect, Work, HandleEvent, Synchronise, Handle

\* The consequences used below: a raised generation leaves a job or a row that
\* is not served; only an answer of GitHub lifts a suspension; outcomes change
\* by the synchronisation.
Outcome(o) ==
  /\ installation'[o].gen # installation[o].gen =>
       \/ ~Serving(o)'
       \/ /\ ~installation'[o].synced
          /\ \E j \in queue' : /\ j.kind = "repos" /\ j.inst = o
                               /\ j.ws = installation'[o].owner
                               /\ j.gen = installation'[o].gen
  /\ installation[o].suspended /\ ~installation'[o].suspended =>
       \E t \in Workers : /\ ApplyInstallationState(t) /\ task[t].sync.inst = o
                          /\ ~task[t].suspended
  /\ installation[o].error /\ ~installation'[o].error =>
       \/ installation'[o].gen # installation[o].gen \/ installation'[o].synced
       \/ \E t \in Workers : ApplyInstallationState(t) /\ task[t].sync.inst = o
  /\ ~installation[o].synced /\ installation'[o].synced =>
       \E t \in Workers : ApplyInstallationRepos(t) /\ task[t].sync.inst = o

\* Every action moves rows and their outcomes that way.
LEMMA RowOutcome ==
  ASSUME IInv, Next, NEW o \in Installations PROVE Outcome(o)
<1>f. TypeOK
  BY DEF IInv
<1>r. installation[o] \in Row /\ installation[o].gen \in Nat
  BY <1>f, RowOf
<1>m. RowMoved(o)
  BY RowMoveStep
<1>1. CASE installation'[o] = installation[o]
  BY <1>1 DEF Outcome
<1>2. ASSUME NEW row \in Row,
             installation'[o] = Resync(row), SyncJob(o, Resync(row)) \in queue',
             row.gen = installation[o].gen
      PROVE  /\ installation'[o].gen = installation[o].gen + 1 /\ ~installation'[o].synced
             /\ installation'[o].suspended <=> row.suspended
             /\ ~row.suspended =>
                  \E j \in queue' : /\ j.kind = "repos" /\ j.inst = o
                                    /\ j.ws = installation'[o].owner
                                    /\ j.gen = installation'[o].gen
  <2>1. /\ Resync(row) \in Row /\ Resync(row).gen = row.gen + 1 /\ ~Resync(row).synced
    BY ResyncRow
  <2>2. Resync(row).suspended <=> row.suspended
    BY DEF Resync, Row
  <2> DEFINE new == Resync(row)
  <2>3. new \in Row /\ installation'[o] = new /\ SyncJob(o, new) \in queue'
    BY <1>2, <2>1
  <2>4. new.suspended <=> row.suspended
    BY <2>2
  <2>5. new.gen = row.gen + 1 /\ ~new.synced
    BY <2>1
  <2> HIDE DEF new
  <2>6. /\ SyncJob(o, new).kind = IF new.suspended THEN "state" ELSE "repos"
        /\ SyncJob(o, new).inst = o /\ SyncJob(o, new).ws = new.owner
        /\ SyncJob(o, new).gen = new.gen
    BY <2>3, SyncJobOf
  <2> QED
    BY <1>2, <2>3, <2>4, <2>5, <2>6
<1>3. CASE installation'[o] = Deleted(installation[o])
  <2>1. Deleted(installation[o]).deleted /\ Deleted(installation[o]).gen = installation[o].gen + 1
    BY <1>r, RowUpdates
  <2>2. /\ Deleted(installation[o]).suspended <=> installation[o].suspended
        /\ Deleted(installation[o]).synced <=> installation[o].synced
    BY <1>r DEF Deleted, Row
  <2> QED
    BY <1>r, <1>3, <2>1, <2>2 DEF Serving, Bound, Outcome
<1>4. CASE installation'[o] = Suspended(installation[o])
  <2>1. Suspended(installation[o]).suspended /\ Suspended(installation[o]).gen = installation[o].gen + 1
    BY <1>r, RowUpdates
  <2>2. /\ Suspended(installation[o]).error <=> installation[o].error
        /\ Suspended(installation[o]).synced <=> installation[o].synced
    BY <1>r DEF Suspended, Row
  <2> QED
    BY <1>r, <1>4, <2>1, <2>2 DEF Serving, Bound, Outcome
<1>5. CASE installation'[o] = [installation[o] EXCEPT !.owner = None]
  BY <1>r, <1>5 DEF Row, Outcome
<1>6. ASSUME NEW e, installation'[o] = [installation[o] EXCEPT !.error = installation[o].error \/ e]
      PROVE  /\ installation'[o].gen = installation[o].gen
             /\ installation'[o].suspended <=> installation[o].suspended
             /\ installation'[o].synced <=> installation[o].synced
             /\ installation[o].error => installation'[o].error
  BY <1>r, <1>6 DEF Row
<1>7. ASSUME NEW t \in Workers, task[t].sync.inst = o, ApplyInstallationRepos(t),
             installation'[o] = [installation[o] EXCEPT !.synced = TRUE, !.error = FALSE]
      PROVE  /\ installation'[o].gen = installation[o].gen
             /\ installation'[o].suspended <=> installation[o].suspended
             /\ installation'[o].synced
  BY <1>r, <1>7 DEF Row
<1>8. ASSUME NEW t \in Workers, installation'[o] = Lifted(t, installation[o])
      PROVE  /\ installation'[o].gen = installation[o].gen
             /\ installation'[o].synced <=> installation[o].synced
             /\ installation[o].suspended /\ task[t].suspended => installation'[o].suspended
  BY <1>r, <1>8 DEF Row, Lifted
<1>9. ASSUME NEW row \in Row,
             installation'[o] = Resync(row), SyncJob(o, Resync(row)) \in queue',
             row.gen = installation[o].gen,
             \/ row.suspended <=> installation[o].suspended
             \/ \E t \in Workers : /\ ApplyInstallationState(t) /\ task[t].sync.inst = o
                                   /\ ~task[t].suspended
      PROVE  Outcome(o)
  <2>1. /\ installation'[o].gen = installation[o].gen + 1 /\ ~installation'[o].synced
        /\ installation'[o].suspended <=> row.suspended
        /\ ~row.suspended =>
             \E j \in queue' : /\ j.kind = "repos" /\ j.inst = o
                               /\ j.ws = installation'[o].owner
                               /\ j.gen = installation'[o].gen
    BY <1>2, <1>9
  <2> QED
    BY <1>r, <1>9, <2>1 DEF Serving, Outcome
<1>10. ASSUME NEW e, installation'[o] = [installation[o] EXCEPT !.error = installation[o].error \/ e]
       PROVE  Outcome(o)
  BY <1>6, <1>10 DEF Outcome
<1>11. ASSUME NEW t \in Workers, task[t].sync.inst = o, ApplyInstallationRepos(t),
              installation'[o] = [installation[o] EXCEPT !.synced = TRUE, !.error = FALSE]
       PROVE  Outcome(o)
  BY <1>7, <1>11 DEF Outcome
<1>12. ASSUME NEW t \in Workers, task[t].sync.inst = o, ApplyInstallationState(t),
              installation'[o] = Lifted(t, installation[o])
       PROVE  Outcome(o)
  BY <1>8, <1>12 DEF Outcome
<1> QED
  BY <1>m, <1>1, <1>3, <1>4, <1>5, <1>9, <1>10, <1>11, <1>12 DEF RowMoved

\* What waits stays in the queue until a worker takes it; dead letters stay.
QueueKept(j) ==
  /\ j \in queue => j \in queue' \/ \E t \in Workers : ClaimJob(t, j)
  /\ j \in dead => j \in dead'

\* Every action keeps the queue that way.
LEMMA QueueKeptStep ==
  ASSUME IInv, Next, NEW k PROVE QueueKept(k)
<1>f. TypeOK
  BY DEF IInv
<1>1. ASSUME NEW i \in Installations, GitHubSuspend(i) PROVE QueueKept(k)
  BY <1>1 DEF GitHubSuspend, GitHubChange, QueueKept
<1>2. ASSUME NEW i \in Installations, GitHubUnsuspend(i) PROVE QueueKept(k)
  BY <1>2 DEF GitHubUnsuspend, GitHubChange, QueueKept
<1>3. ASSUME NEW i \in Installations, GitHubDelete(i) PROVE QueueKept(k)
  BY <1>3 DEF GitHubDelete, GitHubChange, QueueKept
<1>4. ASSUME NEW i \in Installations, NEW repos \in SUBSET Repos, GitHubSetRepos(i, repos) PROVE QueueKept(k)
  BY <1>4 DEF GitHubSetRepos, GitHubChange, QueueKept
<1>5. ASSUME NEW i \in Installations, RequestInstallationSync(i) PROVE QueueKept(k)
  BY <1>5 DEF RequestInstallationSync, EnqueueSync, QueueKept
<1>6. ASSUME NEW i \in Installations, ScheduleInstallationSyncs(i) PROVE QueueKept(k)
  BY <1>6 DEF ScheduleInstallationSyncs, EnqueueSync, QueueKept
<1>7. ASSUME NEW w \in Workspaces, DeleteWorkspace(w) PROVE QueueKept(k)
  BY <1>7 DEF DeleteWorkspace, QueueKept
<1>8. ASSUME NEW g \in Setups, NEW w \in Workspaces, CreateGitHubSetup(g, w) PROVE QueueKept(k)
  BY <1>8 DEF CreateGitHubSetup, QueueKept
<1>9. ASSUME NEW g \in Setups, NEW i \in Installations, StartGitHubInstallationAuthorization(g, i) PROVE QueueKept(k)
  BY <1>9 DEF StartGitHubInstallationAuthorization, QueueKept
<1>10. ASSUME NEW g \in Setups, ClaimGitHubAuthorization(g) PROVE QueueKept(k)
  BY <1>10 DEF ClaimGitHubAuthorization, QueueKept
<1>11. ASSUME NEW g \in Setups, BindInstallation(g) PROVE QueueKept(k)
  BY <1>11 DEF BindInstallation, EnqueueSync, QueueKept
<1>12. ASSUME NEW t \in Workers, NEW j \in queue, ClaimJob(t, j) PROVE QueueKept(k)
  <2>1. CASE k = j
    BY <1>12, <2>1 DEF ClaimJob, QueueKept
  <2>2. CASE k # j
    BY <1>12, <2>2 DEF ClaimJob, QueueKept
  <2> QED
    BY <2>1, <2>2
<1>13. ASSUME NEW t \in Workers, Overrun(t) PROVE QueueKept(k)
  BY <1>13 DEF Overrun, Requeued, QueueKept
<1>14. ASSUME NEW t \in Workers, InstallationEventMoved(t) PROVE QueueKept(k)
  BY <1>14 DEF InstallationEventMoved, Requeued, QueueKept
<1>15. ASSUME NEW t \in Workers, InstallationEventNothing(t) PROVE QueueKept(k)
  BY <1>15 DEF InstallationEventNothing, QueueKept
<1>16. ASSUME NEW t \in Workers, InstallationEventDeleted(t) PROVE QueueKept(k)
  BY <1>16 DEF InstallationEventDeleted, QueueKept
<1>17. ASSUME NEW t \in Workers, InstallationEventSuspension(t) PROVE QueueKept(k)
  BY <1>17 DEF InstallationEventSuspension, QueueKept
<1>18. ASSUME NEW t \in Workers, InstallationEventRepositories(t) PROVE QueueKept(k)
  BY <1>18 DEF InstallationEventRepositories, EnqueueSync, QueueKept
<1>19. ASSUME NEW t \in Workers, CheckCurrent(t) PROVE QueueKept(k)
  BY <1>19 DEF CheckCurrent, QueueKept
<1>20. ASSUME NEW t \in Workers, AskGitHub(t) PROVE QueueKept(k)
  BY <1>20 DEF AskGitHub, QueueKept
<1>21. ASSUME NEW t \in Workers, SyncFails(t) PROVE QueueKept(k)
  BY <1>21 DEF SyncFails, Fail, Requeued, QueueKept
<1>22. ASSUME NEW t \in Workers, ApplyStale(t) PROVE QueueKept(k)
  BY <1>22 DEF ApplyStale, QueueKept
<1>23. ASSUME NEW t \in Workers, ApplyInstallationState(t) PROVE QueueKept(k)
  BY <1>23 DEF ApplyInstallationState, EnqueueSync, QueueKept
<1>24. ASSUME NEW t \in Workers, ApplyInstallationRepos(t) PROVE QueueKept(k)
  BY <1>24 DEF ApplyInstallationRepos, QueueKept
<1>25. ASSUME NEW t \in Workers, BackfillEnds(t) PROVE QueueKept(k)
  BY <1>25 DEF BackfillEnds, QueueKept
<1>26. ASSUME NEW r \in Readers, NEW x \in Repos, RepoByGitHubID(r, x) PROVE QueueKept(k)
  BY <1>26 DEF RepoByGitHubID, QueueKept
<1>27. ASSUME NEW r \in Readers, ActiveRepo(r) PROVE QueueKept(k)
  BY <1>27 DEF ActiveRepo, QueueKept
<1>28. ASSUME NEW r \in Readers, WithActiveRepo(r) PROVE QueueKept(k)
  BY <1>28 DEF WithActiveRepo, QueueKept
<1>29. ASSUME NEW t \in Workers, InstallationEventFails(t) PROVE QueueKept(k)
  BY <1>29 DEF InstallationEventFails, Fail, Requeued, QueueKept
<1> QED
  BY <1>1, <1>2, <1>3, <1>4, <1>5, <1>6, <1>7, <1>8, <1>9, <1>10, <1>11,
    <1>12, <1>13, <1>14, <1>15, <1>16, <1>17, <1>18, <1>19, <1>20, <1>21,
    <1>22, <1>23, <1>24, <1>25, <1>26, <1>27, <1>28, <1>29 DEF Next, AtGitHub,
    Connect, Work, HandleEvent, Synchronise, Handle

\* A worker lets go of its work by trying it again or giving it up, once its
\* lease is lost, or by one of these steps.
TaskSettled(u) ==
  task[u].pc # "idle" /\ task'[u] = Idle =>
    \/ task[u].work \in queue' \cup dead'
    \/ InstallationEventNothing(u) \/ InstallationEventDeleted(u) \/ InstallationEventRepositories(u)
    \/ (InstallationEventMoved(u) \/ InstallationEventFails(u) \/ SyncFails(u)) /\ ~task[u].live
    \/ CheckCurrent(u) \/ ApplyStale(u) \/ ApplyInstallationState(u)
    \/ BackfillEnds(u)

\* Every action settles work that way.
LEMMA TaskSettledStep ==
  ASSUME IInv, Next, NEW u \in Workers PROVE TaskSettled(u)
<1>f. TypeOK
  BY DEF IInv
<1>1. ASSUME NEW i \in Installations, GitHubSuspend(i) PROVE TaskSettled(u)
  BY <1>1 DEF GitHubSuspend, GitHubChange, TaskSettled, Idle
<1>2. ASSUME NEW i \in Installations, GitHubUnsuspend(i) PROVE TaskSettled(u)
  BY <1>2 DEF GitHubUnsuspend, GitHubChange, TaskSettled, Idle
<1>3. ASSUME NEW i \in Installations, GitHubDelete(i) PROVE TaskSettled(u)
  BY <1>3 DEF GitHubDelete, GitHubChange, TaskSettled, Idle
<1>4. ASSUME NEW i \in Installations, NEW repos \in SUBSET Repos, GitHubSetRepos(i, repos) PROVE TaskSettled(u)
  BY <1>4 DEF GitHubSetRepos, GitHubChange, TaskSettled, Idle
<1>5. ASSUME NEW i \in Installations, RequestInstallationSync(i) PROVE TaskSettled(u)
  BY <1>5 DEF RequestInstallationSync, TaskSettled, Idle
<1>6. ASSUME NEW i \in Installations, ScheduleInstallationSyncs(i) PROVE TaskSettled(u)
  BY <1>6 DEF ScheduleInstallationSyncs, TaskSettled, Idle
<1>7. ASSUME NEW w \in Workspaces, DeleteWorkspace(w) PROVE TaskSettled(u)
  BY <1>7 DEF DeleteWorkspace, TaskSettled, Idle
<1>8. ASSUME NEW g \in Setups, NEW w \in Workspaces, CreateGitHubSetup(g, w) PROVE TaskSettled(u)
  BY <1>8 DEF CreateGitHubSetup, TaskSettled, Idle
<1>9. ASSUME NEW g \in Setups, NEW i \in Installations, StartGitHubInstallationAuthorization(g, i) PROVE TaskSettled(u)
  BY <1>9 DEF StartGitHubInstallationAuthorization, TaskSettled, Idle
<1>10. ASSUME NEW g \in Setups, ClaimGitHubAuthorization(g) PROVE TaskSettled(u)
  BY <1>10 DEF ClaimGitHubAuthorization, TaskSettled, Idle
<1>11. ASSUME NEW g \in Setups, BindInstallation(g) PROVE TaskSettled(u)
  BY <1>11 DEF BindInstallation, TaskSettled, Idle
<1>12. ASSUME NEW t \in Workers, NEW j \in queue, ClaimJob(t, j) PROVE TaskSettled(u)
  <2>1. CASE t = u
    BY <1>12, <2>1 DEF ClaimJob, Busy, TaskSettled
  <2>2. CASE t # u
    BY <1>f, <1>12, <2>2 DEF ClaimJob, TaskSettled, Idle, TypeOK
  <2> QED
    BY <2>1, <2>2
<1>13. ASSUME NEW t \in Workers, Overrun(t) PROVE TaskSettled(u)
  <2>1. CASE t = u
    BY <1>13, <2>1 DEF Overrun, Requeued, TaskSettled
  <2>2. CASE t # u
    <3>1. task' = [task EXCEPT ![t].live = FALSE] \/ task' = [task EXCEPT ![t] = Idle]
      BY <1>13 DEF Overrun, Settle
    <3> QED
      BY <1>f, <2>2, <3>1 DEF TaskSettled, Idle, TypeOK
  <2> QED
    BY <2>1, <2>2
<1>14. ASSUME NEW t \in Workers, InstallationEventMoved(t) PROVE TaskSettled(u)
  <2>1. CASE t = u
    BY <1>14, <2>1 DEF InstallationEventMoved, Requeued, TaskSettled
  <2>2. CASE t # u
    BY <1>f, <1>14, <2>2 DEF InstallationEventMoved, Settle, TaskSettled, Idle, TypeOK
  <2> QED
    BY <2>1, <2>2
<1>15. ASSUME NEW t \in Workers, InstallationEventNothing(t) PROVE TaskSettled(u)
  <2>1. CASE t = u
    BY <1>15, <2>1 DEF TaskSettled
  <2>2. CASE t # u
    BY <1>f, <1>15, <2>2 DEF InstallationEventNothing, Settle, TaskSettled, Idle, TypeOK
  <2> QED
    BY <2>1, <2>2
<1>16. ASSUME NEW t \in Workers, InstallationEventDeleted(t) PROVE TaskSettled(u)
  <2>1. CASE t = u
    BY <1>16, <2>1 DEF TaskSettled
  <2>2. CASE t # u
    BY <1>f, <1>16, <2>2 DEF InstallationEventDeleted, Settle, TaskSettled, Idle, TypeOK
  <2> QED
    BY <2>1, <2>2
<1>17. ASSUME NEW t \in Workers, InstallationEventSuspension(t) PROVE TaskSettled(u)
  <2>1. CASE t = u
    <3>1. task[u] \in Task
      BY <1>f, <1>17, <2>1, TaskOf DEF InstallationEventSuspension
    <3>2. task'[u].pc = "check"
      BY <1>f, <1>17, <2>1, <3>1 DEF InstallationEventSuspension, TypeOK, Task
    <3> QED
      BY <3>2 DEF TaskSettled, Idle
  <2>2. CASE t # u
    BY <1>f, <1>17, <2>2 DEF InstallationEventSuspension, TaskSettled, Idle, TypeOK
  <2> QED
    BY <2>1, <2>2
<1>18. ASSUME NEW t \in Workers, InstallationEventRepositories(t) PROVE TaskSettled(u)
  <2>1. CASE t = u
    BY <1>18, <2>1 DEF TaskSettled
  <2>2. CASE t # u
    BY <1>f, <1>18, <2>2 DEF InstallationEventRepositories, Settle, TaskSettled, Idle, TypeOK
  <2> QED
    BY <2>1, <2>2
<1>19. ASSUME NEW t \in Workers, CheckCurrent(t) PROVE TaskSettled(u)
  <2>1. CASE t = u
    BY <1>19, <2>1 DEF TaskSettled
  <2>2. CASE t # u
    BY <1>f, <1>19, <2>2 DEF CheckCurrent, Settle, TaskSettled, Idle, TypeOK
  <2> QED
    BY <2>1, <2>2
<1>20. ASSUME NEW t \in Workers, AskGitHub(t) PROVE TaskSettled(u)
  <2>1. CASE t = u
    <3>1. task[u] \in Task
      BY <1>f, <1>20, <2>1, TaskOf DEF AskGitHub
    <3>2. task'[u].pc = "apply"
      BY <1>f, <1>20, <2>1, <3>1 DEF AskGitHub, TypeOK, Task
    <3> QED
      BY <3>2 DEF TaskSettled, Idle
  <2>2. CASE t # u
    BY <1>f, <1>20, <2>2 DEF AskGitHub, TaskSettled, Idle, TypeOK
  <2> QED
    BY <2>1, <2>2
<1>21. ASSUME NEW t \in Workers, SyncFails(t) PROVE TaskSettled(u)
  <2>1. CASE t = u
    BY <1>21, <2>1 DEF SyncFails, Fail, Requeued, TaskSettled
  <2>2. CASE t # u
    BY <1>f, <1>21, <2>2 DEF SyncFails, Settle, TaskSettled, Idle, TypeOK, Fail
  <2> QED
    BY <2>1, <2>2
<1>22. ASSUME NEW t \in Workers, ApplyStale(t) PROVE TaskSettled(u)
  <2>1. CASE t = u
    BY <1>22, <2>1 DEF TaskSettled
  <2>2. CASE t # u
    BY <1>f, <1>22, <2>2 DEF ApplyStale, Settle, TaskSettled, Idle, TypeOK
  <2> QED
    BY <2>1, <2>2
<1>23. ASSUME NEW t \in Workers, ApplyInstallationState(t) PROVE TaskSettled(u)
  <2>1. CASE t = u
    BY <1>23, <2>1 DEF TaskSettled
  <2>2. CASE t # u
    BY <1>f, <1>23, <2>2 DEF ApplyInstallationState, Settle, TaskSettled, Idle, TypeOK
  <2> QED
    BY <2>1, <2>2
<1>24. ASSUME NEW t \in Workers, ApplyInstallationRepos(t) PROVE TaskSettled(u)
  <2>1. CASE t = u
    <3>1. task[u] \in Task
      BY <1>f, <1>24, <2>1, TaskOf DEF ApplyInstallationRepos
    <3>2. task'[u].pc = "backfill"
      BY <1>f, <1>24, <2>1, <3>1 DEF ApplyInstallationRepos, TypeOK, Task
    <3> QED
      BY <3>2 DEF TaskSettled, Idle
  <2>2. CASE t # u
    BY <1>f, <1>24, <2>2 DEF ApplyInstallationRepos, TaskSettled, Idle, TypeOK
  <2> QED
    BY <2>1, <2>2
<1>25. ASSUME NEW t \in Workers, BackfillEnds(t) PROVE TaskSettled(u)
  <2>1. CASE t = u
    BY <1>25, <2>1 DEF TaskSettled
  <2>2. CASE t # u
    BY <1>f, <1>25, <2>2 DEF BackfillEnds, Settle, TaskSettled, Idle, TypeOK
  <2> QED
    BY <2>1, <2>2
<1>26. ASSUME NEW r \in Readers, NEW x \in Repos, RepoByGitHubID(r, x) PROVE TaskSettled(u)
  BY <1>26 DEF RepoByGitHubID, TaskSettled, Idle
<1>27. ASSUME NEW r \in Readers, ActiveRepo(r) PROVE TaskSettled(u)
  BY <1>27 DEF ActiveRepo, TaskSettled, Idle
<1>28. ASSUME NEW r \in Readers, WithActiveRepo(r) PROVE TaskSettled(u)
  BY <1>28 DEF WithActiveRepo, TaskSettled, Idle
<1>29. ASSUME NEW t \in Workers, InstallationEventFails(t) PROVE TaskSettled(u)
  <2>1. CASE t = u
    BY <1>29, <2>1 DEF InstallationEventFails, Fail, Requeued, TaskSettled
  <2>2. CASE t # u
    BY <1>f, <1>29, <2>2 DEF InstallationEventFails, Settle, TaskSettled, Idle, TypeOK, Fail
  <2> QED
    BY <2>1, <2>2
<1> QED
  BY <1>1, <1>2, <1>3, <1>4, <1>5, <1>6, <1>7, <1>8, <1>9, <1>10, <1>11,
    <1>12, <1>13, <1>14, <1>15, <1>16, <1>17, <1>18, <1>19, <1>20, <1>21,
    <1>22, <1>23, <1>24, <1>25, <1>26, <1>27, <1>28, <1>29 DEF Next, AtGitHub,
    Connect, Work, HandleEvent, Synchronise, Handle

\* A change at GitHub sends its delivery.
GitHubSent(i) ==
  /\ \/ github'[i].state = github[i].state \/ github'[i].state # "suspended"
     \/ Undelivered(i, {"suspend"})'
  /\ github'[i].repos = github[i].repos \/ Undelivered(i, {"repositories", "deleted"})'

\* Every action sends deliveries that way.
LEMMA GitHubStep ==
  ASSUME IInv, Next, NEW o \in Installations PROVE GitHubSent(o)
<1>f. TypeOK
  BY DEF IInv
<1>1. ASSUME NEW i \in Installations, GitHubSuspend(i) PROVE GitHubSent(o)
  <2>1. /\ github' = [github EXCEPT ![i] = [state |-> "suspended", repos |-> github[i].repos]]
        /\ [kind |-> "event", inst |-> i, action |-> "suspend"] \in queue'
    BY <1>1 DEF GitHubSuspend, GitHubChange
  <2>2. Undelivered(i, {"suspend"})'
    BY <2>1 DEF Undelivered
  <2>3. CASE o = i
    <3>1. github'[o] = [state |-> "suspended", repos |-> github[i].repos]
      BY <1>f, <2>1, <2>3 DEF TypeOK
    <3> QED
      BY <2>1, <2>2, <2>3, <3>1 DEF GitHubSent, Undelivered
  <2>4. CASE o # i
    BY <1>f, <2>1, <2>4 DEF GitHubSent, TypeOK
  <2> QED
    BY <2>3, <2>4
<1>2. ASSUME NEW i \in Installations, GitHubUnsuspend(i) PROVE GitHubSent(o)
  <2>1. /\ github' = [github EXCEPT ![i] = [state |-> "active", repos |-> github[i].repos]]
        /\ [kind |-> "event", inst |-> i, action |-> "unsuspend"] \in queue'
    BY <1>2 DEF GitHubUnsuspend, GitHubChange
  <2>2. Undelivered(i, {"unsuspend"})'
    BY <2>1 DEF Undelivered
  <2>3. CASE o = i
    <3>1. github'[o] = [state |-> "active", repos |-> github[i].repos]
      BY <1>f, <2>1, <2>3 DEF TypeOK
    <3> QED
      BY <2>1, <2>2, <2>3, <3>1 DEF GitHubSent, Undelivered
  <2>4. CASE o # i
    BY <1>f, <2>1, <2>4 DEF GitHubSent, TypeOK
  <2> QED
    BY <2>3, <2>4
<1>3. ASSUME NEW i \in Installations, GitHubDelete(i) PROVE GitHubSent(o)
  <2>1. /\ github' = [github EXCEPT ![i] = [state |-> "gone", repos |-> {}]]
        /\ [kind |-> "event", inst |-> i, action |-> "deleted"] \in queue'
    BY <1>3 DEF GitHubDelete, GitHubChange
  <2>2. Undelivered(i, {"deleted"})'
    BY <2>1 DEF Undelivered
  <2>3. CASE o = i
    <3>1. github'[o] = [state |-> "gone", repos |-> {}]
      BY <1>f, <2>1, <2>3 DEF TypeOK
    <3> QED
      BY <2>1, <2>2, <2>3, <3>1 DEF GitHubSent, Undelivered
  <2>4. CASE o # i
    BY <1>f, <2>1, <2>4 DEF GitHubSent, TypeOK
  <2> QED
    BY <2>3, <2>4
<1>4. ASSUME NEW i \in Installations, NEW repos \in SUBSET Repos, GitHubSetRepos(i, repos) PROVE GitHubSent(o)
  <2>1. /\ github' = [github EXCEPT ![i] = [state |-> github[i].state, repos |-> repos]]
        /\ [kind |-> "event", inst |-> i, action |-> "repositories"] \in queue'
    BY <1>4 DEF GitHubSetRepos, GitHubChange
  <2>2. Undelivered(i, {"repositories"})'
    BY <2>1 DEF Undelivered
  <2>3. CASE o = i
    <3>1. github'[o] = [state |-> github[i].state, repos |-> repos]
      BY <1>f, <2>1, <2>3 DEF TypeOK
    <3> QED
      BY <2>1, <2>2, <2>3, <3>1 DEF GitHubSent, Undelivered
  <2>4. CASE o # i
    BY <1>f, <2>1, <2>4 DEF GitHubSent, TypeOK
  <2> QED
    BY <2>3, <2>4
<1>5. ASSUME NEW i \in Installations, RequestInstallationSync(i) PROVE GitHubSent(o)
  BY <1>5 DEF RequestInstallationSync, GitHubSent
<1>6. ASSUME NEW i \in Installations, ScheduleInstallationSyncs(i) PROVE GitHubSent(o)
  BY <1>6 DEF ScheduleInstallationSyncs, GitHubSent
<1>7. ASSUME NEW w \in Workspaces, DeleteWorkspace(w) PROVE GitHubSent(o)
  BY <1>7 DEF DeleteWorkspace, GitHubSent
<1>8. ASSUME NEW g \in Setups, NEW w \in Workspaces, CreateGitHubSetup(g, w) PROVE GitHubSent(o)
  BY <1>8 DEF CreateGitHubSetup, GitHubSent
<1>9. ASSUME NEW g \in Setups, NEW i \in Installations, StartGitHubInstallationAuthorization(g, i) PROVE GitHubSent(o)
  BY <1>9 DEF StartGitHubInstallationAuthorization, GitHubSent
<1>10. ASSUME NEW g \in Setups, ClaimGitHubAuthorization(g) PROVE GitHubSent(o)
  BY <1>10 DEF ClaimGitHubAuthorization, GitHubSent
<1>11. ASSUME NEW g \in Setups, BindInstallation(g) PROVE GitHubSent(o)
  BY <1>11 DEF BindInstallation, GitHubSent
<1>12. ASSUME NEW t \in Workers, NEW j \in queue, ClaimJob(t, j) PROVE GitHubSent(o)
  BY <1>12 DEF ClaimJob, GitHubSent
<1>13. ASSUME NEW t \in Workers, Overrun(t) PROVE GitHubSent(o)
  BY <1>13 DEF Overrun, GitHubSent
<1>14. ASSUME NEW t \in Workers, InstallationEventMoved(t) PROVE GitHubSent(o)
  BY <1>14 DEF InstallationEventMoved, GitHubSent
<1>15. ASSUME NEW t \in Workers, InstallationEventNothing(t) PROVE GitHubSent(o)
  BY <1>15 DEF InstallationEventNothing, GitHubSent
<1>16. ASSUME NEW t \in Workers, InstallationEventDeleted(t) PROVE GitHubSent(o)
  BY <1>16 DEF InstallationEventDeleted, GitHubSent
<1>17. ASSUME NEW t \in Workers, InstallationEventSuspension(t) PROVE GitHubSent(o)
  BY <1>17 DEF InstallationEventSuspension, GitHubSent
<1>18. ASSUME NEW t \in Workers, InstallationEventRepositories(t) PROVE GitHubSent(o)
  BY <1>18 DEF InstallationEventRepositories, GitHubSent
<1>19. ASSUME NEW t \in Workers, CheckCurrent(t) PROVE GitHubSent(o)
  BY <1>19 DEF CheckCurrent, GitHubSent
<1>20. ASSUME NEW t \in Workers, AskGitHub(t) PROVE GitHubSent(o)
  BY <1>20 DEF AskGitHub, GitHubSent
<1>21. ASSUME NEW t \in Workers, SyncFails(t) PROVE GitHubSent(o)
  BY <1>21 DEF SyncFails, GitHubSent
<1>22. ASSUME NEW t \in Workers, ApplyStale(t) PROVE GitHubSent(o)
  BY <1>22 DEF ApplyStale, GitHubSent
<1>23. ASSUME NEW t \in Workers, ApplyInstallationState(t) PROVE GitHubSent(o)
  BY <1>23 DEF ApplyInstallationState, GitHubSent
<1>24. ASSUME NEW t \in Workers, ApplyInstallationRepos(t) PROVE GitHubSent(o)
  BY <1>24 DEF ApplyInstallationRepos, GitHubSent
<1>25. ASSUME NEW t \in Workers, BackfillEnds(t) PROVE GitHubSent(o)
  BY <1>25 DEF BackfillEnds, GitHubSent
<1>26. ASSUME NEW r \in Readers, NEW x \in Repos, RepoByGitHubID(r, x) PROVE GitHubSent(o)
  BY <1>26 DEF RepoByGitHubID, GitHubSent
<1>27. ASSUME NEW r \in Readers, ActiveRepo(r) PROVE GitHubSent(o)
  BY <1>27 DEF ActiveRepo, GitHubSent
<1>28. ASSUME NEW r \in Readers, WithActiveRepo(r) PROVE GitHubSent(o)
  BY <1>28 DEF WithActiveRepo, GitHubSent
<1>29. ASSUME NEW t \in Workers, InstallationEventFails(t) PROVE GitHubSent(o)
  BY <1>29 DEF InstallationEventFails, GitHubSent
<1> QED
  BY <1>1, <1>2, <1>3, <1>4, <1>5, <1>6, <1>7, <1>8, <1>9, <1>10, <1>11,
    <1>12, <1>13, <1>14, <1>15, <1>16, <1>17, <1>18, <1>19, <1>20, <1>21,
    <1>22, <1>23, <1>24, <1>25, <1>26, <1>27, <1>28, <1>29 DEF Next, AtGitHub,
    Connect, Work, HandleEvent, Synchronise, Handle

\* A delivery on its way stays there until a handler acts on it.
LEMMA UndeliveredStep ==
  ASSUME IInv, Next, NEW i, NEW actions, Undelivered(i, actions)
  PROVE  \/ Undelivered(i, actions)'
         \/ \E t \in Workers :
              /\ task[t].pc = "event" /\ task[t].sync.inst = i /\ task[t].work.action \in actions
              /\ \/ InstallationEventNothing(t) \/ InstallationEventDeleted(t)
                 \/ InstallationEventRepositories(t) \/ InstallationEventSuspension(t)
<1>f. TypeOK /\ TaskShape
  BY DEF IInv
<1>1. ASSUME NEW j \in queue, j.kind = "event", j.inst = i, j.action \in actions
      PROVE  Undelivered(i, actions)'
  <2>1. QueueKept(j)
    BY QueueKeptStep
  <2>2. ASSUME NEW t \in Workers, ClaimJob(t, j) PROVE Undelivered(i, actions)'
    <3>1. /\ task'[t].pc = "event" /\ task'[t].live /\ task'[t].work = j
      BY <1>f, <1>1, <2>2 DEF ClaimJob, TypeOK
    <3> QED
      BY <1>1, <3>1 DEF Undelivered
  <2> QED
    BY <1>1, <2>1, <2>2 DEF QueueKept, Undelivered
<1>3. ASSUME NEW j \in dead, j.kind = "event", j.inst = i, j.action \in actions
      PROVE  Undelivered(i, actions)'
  <2>1. j \in dead'
    BY QueueKeptStep DEF QueueKept
  <2> QED
    BY <1>3, <2>1 DEF Undelivered
<1>2. ASSUME NEW t \in Workers, task[t].pc = "event", task[t].live,
             task[t].work.inst = i, task[t].work.action \in actions
      PROVE  \/ Undelivered(i, actions)'
             \/ \E s \in Workers :
                  /\ task[s].pc = "event" /\ task[s].sync.inst = i /\ task[s].work.action \in actions
                  /\ \/ InstallationEventNothing(s) \/ InstallationEventDeleted(s)
                     \/ InstallationEventRepositories(s) \/ InstallationEventSuspension(s)
  <2>1. TaskStepped(t) /\ TaskSettled(t)
    BY TaskStep, TaskSettledStep
  <2>2. task[t].work.kind = "event" /\ task[t].sync.inst = i
    BY <1>f, <1>2 DEF TaskShape, Busy
  <2>3. CASE task[t].work \in queue' \cup dead'
    BY <1>2, <2>2, <2>3 DEF Undelivered
  <2>4. CASE task'[t] = task[t]
    BY <1>2, <2>4 DEF Undelivered
  <2>5. CASE Overrun(t)
    <3>1. task[t].work \in queue'
      BY <1>2, <2>5 DEF Overrun, Requeued
    <3> QED
      BY <2>3, <3>1
  <2>6. /\ \A j \in queue : ~ClaimJob(t, j)
        /\ ~CheckCurrent(t) /\ ~AskGitHub(t) /\ ~ApplyInstallationRepos(t) /\ ~SyncFails(t)
        /\ ~ApplyStale(t) /\ ~ApplyInstallationState(t) /\ ~BackfillEnds(t)
    BY <1>2 DEF ClaimJob, Busy, CheckCurrent, AskGitHub, ApplyInstallationRepos, SyncFails,
      ApplyStale, ApplyInstallationState, BackfillEnds
  <2> QED
    BY <1>2, <2>1, <2>2, <2>3, <2>4, <2>5, <2>6 DEF TaskStepped, TaskSettled
<1> QED
  BY <1>1, <1>2, <1>3 DEF Undelivered

\* While a row keeps its generation no handler acts on what matters to it.
LEMMA UndeliveredKept ==
  ASSUME IInv, Next, NEW i \in Installations, installation'[i].gen = installation[i].gen
  PROVE  /\ Undelivered(i, {"suspend"}) /\ ~installation[i].deleted => Undelivered(i, {"suspend"})'
         /\ Undelivered(i, {"repositories", "deleted"}) /\ Serving(i)
              => Undelivered(i, {"repositories", "deleted"})'
<1>f. TypeOK
  BY DEF IInv
<1>r. installation[i] \in Row /\ installation[i].gen \in Nat
  BY <1>f, RowOf
<1>1. ASSUME NEW t \in Workers, task[t].sync.inst = i
      PROVE  ~InstallationEventDeleted(t) /\ ~InstallationEventRepositories(t) /\ ~InstallationEventSuspension(t)
  <2>1. ASSUME InstallationEventDeleted(t) PROVE FALSE
    <3>1. installation'[i] = Deleted(installation[i])
      BY <1>f, <1>1, <2>1 DEF InstallationEventDeleted, TypeOK
    <3>2. Deleted(installation[i]).gen = installation[i].gen + 1
      BY <1>r, RowUpdates
    <3> QED
      BY <1>r, <3>1, <3>2
  <2>2. ASSUME InstallationEventRepositories(t) PROVE FALSE
    <3>1. installation'[i] = Resync(installation[i])
      BY <1>f, <1>1, <2>2 DEF InstallationEventRepositories, EnqueueSync, TypeOK
    <3> QED
      BY <1>r, <3>1, ResyncRow
  <2>3. ASSUME InstallationEventSuspension(t) PROVE FALSE
    <3>1. installation'[i] = Suspended(installation[i])
      BY <1>f, <1>1, <2>3 DEF InstallationEventSuspension, TypeOK
    <3>2. Suspended(installation[i]).gen = installation[i].gen + 1
      BY <1>r, RowUpdates
    <3> QED
      BY <1>r, <3>1, <3>2
  <2> QED
    BY <2>1, <2>2, <2>3
<1>2. ASSUME NEW t \in Workers, task[t].sync.inst = i, InstallationEventNothing(t)
      PROVE  \/ installation[i].deleted
             \/ task[t].work.action = "repositories" /\ ~Serving(i)
  BY <1>2 DEF InstallationEventNothing, Serving, Bound
<1>3. Serving(i) => ~installation[i].deleted
  BY DEF Serving, Bound
<1> QED
  BY <1>1, <1>2, <1>3, UndeliveredStep

-----------------------------------------------------------------------------
(* Workers: what they run stays what they took, at a generation not ahead. *)

\* How a worker that is busy after the step got there.
TaskGoesOn(u) ==
  \/ /\ task[u].pc # "idle" /\ task'[u].work = task[u].work /\ task'[u].sync = task[u].sync
     /\ task[u].live => task'[u].live \/ task[u].work \in queue'
     /\ \/ /\ task'[u].pc = task[u].pc /\ task'[u].listing = task[u].listing
           /\ task'[u].suspended <=> task[u].suspended
        \/ CheckCurrent(u) /\ task[u].pc = "check" /\ task'[u].pc = "ask"
        \/ /\ AskGitHub(u) /\ task[u].pc = "ask" /\ task'[u].pc = "apply"
           /\ task[u].sync.kind = "repos" => task'[u].listing = github[task[u].sync.inst].repos
           /\ task'[u].suspended <=> github[task[u].sync.inst].state = "suspended"
        \/ ApplyInstallationRepos(u) /\ task[u].pc = "apply" /\ task'[u].pc = "backfill"
  \/ /\ InstallationEventSuspension(u)
     /\ task[u].pc = "event" /\ task'[u].pc = "check" /\ task'[u].work = task[u].work
     /\ task'[u].sync = [task[u].sync EXCEPT !.gen = installation[task[u].sync.inst].gen + 1]
  \/ \E j \in queue :
       /\ task[u].pc = "idle" /\ task'[u].work = j
       /\ IF j.kind = "event"
            THEN /\ task'[u].pc = "event"
                 /\ task'[u].sync = [kind |-> "state", inst |-> j.inst,
                                     ws |-> installation[j.inst].owner, gen |-> 0]
            ELSE task'[u].pc = "check" /\ task'[u].sync = j

\* A busy worker got there in one of these ways.
LEMMA TaskNext ==
  ASSUME IInv, Next, NEW u \in Workers, task'[u].pc # "idle"
  PROVE  TaskGoesOn(u)
<1>f. TypeOK
  BY DEF IInv
<1>1. TaskStepped(u)
  BY TaskStep
<1>2. CASE task'[u] = task[u]
  BY <1>2 DEF TaskGoesOn
<1>3. CASE task'[u] = Idle
  BY <1>3 DEF Idle
<1>4. ASSUME NEW j \in queue, ClaimJob(u, j) PROVE TaskGoesOn(u)
  <2>1. task'[u] = [pc |-> IF j.kind = "event" THEN "event" ELSE "check", work |-> j,
        sync |-> IF j.kind = "event"
                   THEN [kind |-> "state", inst |-> j.inst,
                         ws |-> installation[j.inst].owner, gen |-> 0]
                   ELSE j,
        suspended |-> TRUE, listing |-> {}, live |-> TRUE]
    BY <1>f, <1>4 DEF ClaimJob, TypeOK
  <2>2. task[u].pc = "idle"
    BY <1>4 DEF ClaimJob, Busy
  <2> QED
    BY <2>1, <2>2 DEF TaskGoesOn
<1>5. CASE Overrun(u) /\ task' = [task EXCEPT ![u].live = FALSE]
  <2>1. task[u].pc # "idle"
    BY <1>5 DEF Overrun, Busy
  <2>2. task[u] \in Task
    BY <1>f, <2>1, TaskOf
  <2>3. task'[u] = [task[u] EXCEPT !.live = FALSE]
    BY <1>f, <1>5 DEF TypeOK
  <2>4. /\ task'[u].work = task[u].work /\ task'[u].sync = task[u].sync
        /\ task'[u].pc = task[u].pc /\ task'[u].listing = task[u].listing
        /\ task'[u].suspended <=> task[u].suspended
    BY <2>2, <2>3 DEF Task
  <2>5. task[u].work \in queue'
    BY <1>5 DEF Overrun, Requeued
  <2> QED
    BY <2>1, <2>4, <2>5 DEF TaskGoesOn
<1>6. CASE InstallationEventSuspension(u)
  <2>1. task[u].pc = "event" /\ task[u] \in Task
    BY <1>f, <1>6, TaskOf DEF InstallationEventSuspension
  <2>2. task'[u] = [task[u] EXCEPT !.pc = "check",
                      !.sync = [task[u].sync EXCEPT !.gen = installation[task[u].sync.inst].gen + 1]]
    BY <1>f, <1>6 DEF InstallationEventSuspension, TypeOK
  <2>3. /\ task'[u].pc = "check" /\ task'[u].work = task[u].work
        /\ task'[u].sync = [task[u].sync EXCEPT !.gen = installation[task[u].sync.inst].gen + 1]
    BY <2>1, <2>2 DEF Task
  <2> QED
    BY <1>6, <2>1, <2>3 DEF TaskGoesOn
<1>7. CASE CheckCurrent(u)
  <2>1. task[u].pc = "check" /\ task[u] \in Task
    BY <1>f, <1>7, TaskOf DEF CheckCurrent
  <2>2. task'[u] = [task[u] EXCEPT !.pc = "ask"]
    <3>1. task' = [task EXCEPT ![u].pc = "ask"] \/ task' = [task EXCEPT ![u] = Idle]
      BY <1>7 DEF CheckCurrent, Settle
    <3>2. task' = [task EXCEPT ![u] = Idle] => task'[u].pc = "idle"
      BY <1>f DEF TypeOK, Idle
    <3> QED
      BY <1>f, <3>1, <3>2 DEF TypeOK
  <2>3. /\ task'[u].pc = "ask" /\ task'[u].work = task[u].work /\ task'[u].sync = task[u].sync
        /\ task'[u].live <=> task[u].live
    BY <2>1, <2>2 DEF Task
  <2> QED
    BY <1>7, <2>1, <2>3 DEF TaskGoesOn
<1>8. CASE AskGitHub(u)
  <2>1. task[u].pc = "ask" /\ task[u] \in Task
    BY <1>f, <1>8, TaskOf DEF AskGitHub
  <2>2. task'[u] = [task[u] EXCEPT !.pc = "apply",
           !.listing = IF task[u].sync.kind = "repos" THEN github[task[u].sync.inst].repos ELSE {},
           !.suspended = github[task[u].sync.inst].state = "suspended"]
    BY <1>f, <1>8 DEF AskGitHub, TypeOK
  <2>3. /\ task'[u].pc = "apply" /\ task'[u].work = task[u].work /\ task'[u].sync = task[u].sync
        /\ task[u].sync.kind = "repos" => task'[u].listing = github[task[u].sync.inst].repos
        /\ task'[u].suspended <=> github[task[u].sync.inst].state = "suspended"
        /\ task'[u].live <=> task[u].live
    BY <2>1, <2>2 DEF Task
  <2> QED
    BY <1>8, <2>1, <2>3 DEF TaskGoesOn
<1>9. CASE ApplyInstallationRepos(u)
  <2>1. task[u].pc = "apply" /\ task[u] \in Task
    BY <1>f, <1>9, TaskOf DEF ApplyInstallationRepos
  <2>2. task'[u] = [task[u] EXCEPT !.pc = "backfill", !.listing = {}]
    BY <1>f, <1>9 DEF ApplyInstallationRepos, TypeOK
  <2>3. /\ task'[u].pc = "backfill" /\ task'[u].work = task[u].work /\ task'[u].sync = task[u].sync
        /\ task'[u].live <=> task[u].live
    BY <2>1, <2>2 DEF Task
  <2> QED
    BY <1>9, <2>1, <2>3 DEF TaskGoesOn
<1> QED
  BY <1>1, <1>2, <1>3, <1>4, <1>5, <1>6, <1>7, <1>8, <1>9 DEF TaskStepped

\* The fields of the work in the queue and of a task after the step.
LEMMA QueuedOf ==
  ASSUME TypeOK, NEW j \in queue
  PROVE  /\ j.inst \in Installations
         /\ j.kind # "event" => j \in InstallationSync /\ j.gen \in Nat
  BY DEF TypeOK, Delivery, InstallationSync

\* A worker keeps what it took.
LEMMA TaskShapeStep ==
  ASSUME IInv, Next PROVE TaskShape'
<1>f. TypeOK /\ TaskShape
  BY DEF IInv
<1> SUFFICES ASSUME NEW u \in Workers, task'[u].pc # "idle"
             PROVE  /\ task'[u].pc = "event" => task'[u].work.kind = "event"
                    /\ IF task'[u].work.kind = "event"
                         THEN task'[u].sync.kind = "state" /\ task'[u].sync.inst = task'[u].work.inst
                         ELSE task'[u].sync = task'[u].work
                    /\ task'[u].pc = "backfill" => task'[u].sync.kind = "repos"
  BY DEF TaskShape, Busy
<1>1. TaskGoesOn(u)
  BY TaskNext
<1>2. task[u].pc # "idle" =>
        /\ task[u].pc = "event" => task[u].work.kind = "event"
        /\ IF task[u].work.kind = "event"
             THEN task[u].sync.kind = "state" /\ task[u].sync.inst = task[u].work.inst
             ELSE task[u].sync = task[u].work
        /\ task[u].pc = "backfill" => task[u].sync.kind = "repos"
  BY <1>f DEF TaskShape, Busy
<1>3. ApplyInstallationRepos(u) => task[u].sync.kind = "repos"
  BY DEF ApplyInstallationRepos
<1>4. ASSUME InstallationEventSuspension(u)
      PROVE  LET s == [task[u].sync EXCEPT !.gen = installation[task[u].sync.inst].gen + 1]
             IN  s.kind = task[u].sync.kind /\ s.inst = task[u].sync.inst
  <2>1. task[u].sync \in InstallationSync
    BY <1>f, <1>4, TaskOf DEF InstallationEventSuspension
  <2> QED
    BY <2>1 DEF InstallationSync
<1> DEFINE Shaped == /\ task'[u].pc = "event" => task'[u].work.kind = "event"
                     /\ IF task'[u].work.kind = "event"
                          THEN task'[u].sync.kind = "state" /\ task'[u].sync.inst = task'[u].work.inst
                          ELSE task'[u].sync = task'[u].work
                     /\ task'[u].pc = "backfill" => task'[u].sync.kind = "repos"
<1>5. ASSUME task[u].pc # "idle", task'[u].work = task[u].work, task'[u].sync = task[u].sync,
             \/ task'[u].pc = task[u].pc \/ task'[u].pc = "ask" \/ task'[u].pc = "apply"
             \/ ApplyInstallationRepos(u) /\ task'[u].pc = "backfill"
      PROVE  Shaped
  BY <1>2, <1>3, <1>5
<1>6. ASSUME InstallationEventSuspension(u),
             task[u].pc = "event", task'[u].pc = "check", task'[u].work = task[u].work,
             task'[u].sync = [task[u].sync EXCEPT !.gen = installation[task[u].sync.inst].gen + 1]
      PROVE  Shaped
  BY <1>2, <1>4, <1>6
<1>7. ASSUME NEW j \in queue, task'[u].work = j,
             IF j.kind = "event"
               THEN /\ task'[u].pc = "event"
                    /\ task'[u].sync = [kind |-> "state", inst |-> j.inst,
                                        ws |-> installation[j.inst].owner, gen |-> 0]
               ELSE task'[u].pc = "check" /\ task'[u].sync = j
      PROVE  Shaped
  BY <1>7
<1> HIDE DEF Shaped
<1>8. Shaped
  BY <1>1, <1>5, <1>6, <1>7 DEF TaskGoesOn
<1> QED
  BY <1>8 DEF Shaped

\* The generation of a row never falls, and what is new carries the current one.
LEMMA GenerationsStep ==
  ASSUME IInv, Next PROVE Generations'
<1>f. TypeOK /\ TaskShape /\ Generations /\ TypeOK'
  BY TypeStep DEF IInv
<1>g. ASSUME NEW i \in Installations
      PROVE  /\ installation[i].gen \in Nat /\ installation'[i].gen \in Nat
             /\ installation[i].gen <= installation'[i].gen
  <2>1. RowStepped(i) /\ installation[i].gen \in Nat
    BY <1>f, RowStep, RowOf
  <2>2. installation'[i].gen \in Nat
    BY <1>f DEF TypeOK, Row
  <2> QED
    BY <2>1, <2>2 DEF RowStepped
<1>1. ASSUME NEW j \in queue', j.kind # "event"
      PROVE  j.gen <= installation'[j.inst].gen
  <2>1. j \in InstallationSync /\ j.inst \in Installations /\ j.gen \in Nat
    BY <1>f, <1>1 DEF TypeOK, Delivery, InstallationSync
  <2>2. CASE j \in queue
    <3>1. j.gen <= installation[j.inst].gen
      BY <1>f, <1>1, <2>2 DEF Generations
    <3> QED
      BY <1>g, <2>1, <3>1
  <2>3. ASSUME NEW t \in Workers, Busy(t), j = task[t].work
        PROVE  j.gen <= installation'[j.inst].gen
    <3>1. j = task[t].sync
      BY <1>f, <1>1, <2>3 DEF TaskShape
    <3>2. j.gen <= installation[j.inst].gen
      BY <1>f, <2>3, <3>1 DEF Generations
    <3> QED
      BY <1>g, <2>1, <3>2
  <2>4. CASE j.gen = installation'[j.inst].gen
    BY <1>g, <2>1, <2>4
  <2> QED
    BY <1>1, <2>2, <2>3, <2>4, QueueStep DEF QueueStepped
<1>2. ASSUME NEW u \in Workers, task'[u].pc # "idle"
      PROVE  task'[u].sync.gen <= installation'[task'[u].sync.inst].gen
  <2>1. TaskGoesOn(u)
    BY <1>2, TaskNext
  <2>2. ASSUME task[u].pc # "idle", task'[u].sync = task[u].sync
        PROVE  task'[u].sync.gen <= installation'[task'[u].sync.inst].gen
    <3>1. task[u].sync.gen <= installation[task[u].sync.inst].gen
      BY <1>f, <2>2 DEF Generations, Busy
    <3>2. task[u].sync.inst \in Installations /\ task[u].sync.gen \in Nat
      BY <1>f, <2>2, TaskOf
    <3> QED
      BY <1>g, <2>2, <3>1, <3>2
  <2>3. ASSUME InstallationEventSuspension(u),
               task'[u].sync = [task[u].sync EXCEPT !.gen = installation[task[u].sync.inst].gen + 1]
        PROVE  task'[u].sync.gen <= installation'[task'[u].sync.inst].gen
    <3> DEFINE i == task[u].sync.inst
    <3>1. i \in Installations /\ task[u].sync \in InstallationSync
      BY <1>f, <2>3, TaskOf DEF InstallationEventSuspension
    <3>2. task'[u].sync.inst = i /\ task'[u].sync.gen = installation[i].gen + 1
      BY <2>3, <3>1 DEF InstallationSync
    <3>3. installation'[i] = Suspended(installation[i])
      BY <1>f, <2>3, <3>1 DEF InstallationEventSuspension, TypeOK
    <3>4. Suspended(installation[i]).gen = installation[i].gen + 1
      BY <1>f, <3>1, RowOf, RowUpdates
    <3> HIDE DEF i
    <3> QED
      BY <1>g, <3>1, <3>2, <3>3, <3>4
  <2>4. ASSUME NEW j \in queue, j.kind = "event",
               task'[u].sync = [kind |-> "state", inst |-> j.inst,
                                ws |-> installation[j.inst].owner, gen |-> 0]
        PROVE  task'[u].sync.gen <= installation'[task'[u].sync.inst].gen
    <3>1. j.inst \in Installations
      BY <1>f, QueuedOf
    <3>2. task'[u].sync.inst = j.inst /\ task'[u].sync.gen = 0
      BY <2>4
    <3> QED
      BY <1>g, <3>1, <3>2
  <2>5. ASSUME NEW j \in queue, j.kind # "event", task'[u].sync = j
        PROVE  task'[u].sync.gen <= installation'[task'[u].sync.inst].gen
    <3>1. j.inst \in Installations /\ j.gen \in Nat
      BY <1>f, <2>5, QueuedOf
    <3>2. j.gen <= installation[j.inst].gen
      BY <1>f, <2>5 DEF Generations
    <3> QED
      BY <1>g, <2>5, <3>1, <3>2
  <2> QED
    BY <2>1, <2>2, <2>3, <2>4, <2>5 DEF TaskGoesOn
<1> QED
  BY <1>1, <1>2 DEF Generations, Busy

\* A job or task of the current generation had it before, or is new.
LEMMA SameGeneration ==
  ASSUME IInv, Next, NEW i \in Installations, NEW g \in Nat,
         g <= installation[i].gen, g = installation'[i].gen
  PROVE  g = installation[i].gen /\ installation'[i].gen = installation[i].gen
<1>1. RowStepped(i) /\ installation[i].gen \in Nat
  BY RowStep, RowOf DEF IInv
<1>2. installation[i].gen <= installation'[i].gen
  BY <1>1 DEF RowStepped
<1> QED
  BY <1>1, <1>2

\* A suspension is lifted at a new generation, unless nobody owns the row.
LEMMA LiftRaises ==
  ASSUME IInv, Next, NEW i \in Installations, installation'[i].owner # None,
         installation[i].suspended, ~installation'[i].suspended
  PROVE  installation'[i].gen # installation[i].gen
<1>f. TypeOK /\ Bindings
  BY DEF IInv
<1>1. Outcome(i) /\ RowStepped(i) /\ installation[i] \in Row
  BY <1>f, RowOutcome, RowStep, RowOf
<1>2. PICK t \in Workers : ApplyInstallationState(t) /\ task[t].sync.inst = i /\ ~task[t].suspended
  BY <1>1 DEF Outcome
<1> DEFINE row == [installation[i] EXCEPT !.error = FALSE,
                     !.suspended = installation[i].suspended /\ task[t].suspended]
<1>3. row \in Row /\ row.owner = installation[i].owner /\ row.gen = installation[i].gen
  BY <1>1, RowLifted DEF Row
<1>4. row.verified <=> installation[i].verified
  BY <1>1 DEF Row
<1>5. IF ~task[t].suspended /\ row.owner # None /\ row.verified
        THEN EnqueueSync(i, row)
        ELSE installation' = [installation EXCEPT ![i] = row]
  BY <1>2 DEF ApplyInstallationState
<1> HIDE DEF row
<1>6. CASE row.owner = None
  BY <1>f, <1>3, <1>5, <1>6 DEF TypeOK
<1>7. CASE row.owner # None
  <2>1. row.verified
    BY <1>f, <1>3, <1>4, <1>7 DEF Bindings
  <2>2. installation'[i] = Resync(row)
    BY <1>f, <1>2, <1>5, <1>7, <2>1 DEF EnqueueSync, TypeOK
  <2>3. Resync(row).gen = row.gen + 1
    BY <1>3, ResyncRow
  <2>4. installation[i].gen \in Nat
    BY <1>f, RowOf
  <2> QED
    BY <1>3, <2>2, <2>3, <2>4
<1> QED
  BY <1>6, <1>7

-----------------------------------------------------------------------------
(* The invariants of the properties.                                       *)

\* A suspension is lifted only together with the generation.
LEMMA StateAskedStep ==
  ASSUME IInv, Next PROVE StateAsked'
<1>f. TypeOK /\ TaskShape /\ Generations /\ StateAsked /\ TypeOK'
  BY TypeStep DEF IInv
\* A job of the state that was there, and is still of the current generation.
<1>1. ASSUME NEW i \in Installations, NEW g \in Nat, g <= installation[i].gen,
             g = installation'[i].gen, installation'[i].owner # None,
             g = installation[i].gen /\ installation[i].owner # None => installation[i].suspended
      PROVE  installation'[i].suspended
  <2>1. g = installation[i].gen /\ installation'[i].gen = installation[i].gen
    BY <1>1, SameGeneration
  <2>2. installation[i].owner # None
    BY <1>1, <2>1, RowStep DEF RowStepped
  <2> QED
    BY <1>1, <2>1, <2>2, LiftRaises
<1>2. ASSUME NEW j \in queue', j.kind = "state", j.gen = installation'[j.inst].gen,
             installation'[j.inst].owner # None
      PROVE  installation'[j.inst].suspended
  <2>1. j.inst \in Installations /\ j.gen \in Nat
    BY <1>f, <1>2 DEF TypeOK, Delivery, InstallationSync
  <2>2. CASE j \in queue
    <3>1. /\ j.gen <= installation[j.inst].gen
          /\ j.gen = installation[j.inst].gen /\ installation[j.inst].owner # None
               => installation[j.inst].suspended
      BY <1>f, <1>2, <2>2 DEF Generations, StateAsked
    <3> QED
      BY <1>1, <1>2, <2>1, <3>1
  <2>3. ASSUME NEW t \in Workers, Busy(t), j = task[t].work
        PROVE  installation'[j.inst].suspended
    <3>1. j = task[t].sync /\ task[t].pc # "event"
      BY <1>f, <1>2, <2>3 DEF TaskShape
    <3>2. /\ j.gen <= installation[j.inst].gen
          /\ j.gen = installation[j.inst].gen /\ installation[j.inst].owner # None
               => installation[j.inst].suspended
      BY <1>f, <1>2, <2>3, <3>1 DEF Generations, StateAsked
    <3> QED
      BY <1>1, <1>2, <2>1, <3>2
  <2> QED
    BY <1>2, <2>2, <2>3, QueueStep DEF QueueStepped
<1>3. ASSUME NEW u \in Workers, task'[u].pc # "idle", task'[u].pc # "event",
             task'[u].sync.kind = "state",
             task'[u].sync.gen = installation'[task'[u].sync.inst].gen,
             installation'[task'[u].sync.inst].owner # None
      PROVE  installation'[task'[u].sync.inst].suspended
  <2>1. TaskGoesOn(u)
    BY <1>3, TaskNext
  <2>2. ASSUME task[u].pc \notin {"idle", "event"}, task'[u].sync = task[u].sync
        PROVE  installation'[task'[u].sync.inst].suspended
    <3>1. task[u].sync.inst \in Installations /\ task[u].sync.gen \in Nat
      BY <1>f, <2>2, TaskOf
    <3>2. /\ task[u].sync.gen <= installation[task[u].sync.inst].gen
          /\ task[u].sync.gen = installation[task[u].sync.inst].gen
             /\ installation[task[u].sync.inst].owner # None
               => installation[task[u].sync.inst].suspended
      BY <1>f, <1>3, <2>2 DEF Generations, StateAsked, Busy
    <3> QED
      BY <1>1, <1>3, <2>2, <3>1, <3>2
  <2>3. ASSUME InstallationEventSuspension(u),
               task'[u].sync = [task[u].sync EXCEPT !.gen = installation[task[u].sync.inst].gen + 1]
        PROVE  installation'[task'[u].sync.inst].suspended
    <3> DEFINE i == task[u].sync.inst
    <3>1. i \in Installations /\ task[u].sync \in InstallationSync
      BY <1>f, <2>3, TaskOf DEF InstallationEventSuspension
    <3>2. task'[u].sync.inst = i
      BY <2>3, <3>1 DEF InstallationSync
    <3>3. installation'[i] = Suspended(installation[i])
      BY <1>f, <2>3, <3>1 DEF InstallationEventSuspension, TypeOK
    <3>4. Suspended(installation[i]).suspended
      BY <1>f, <3>1, RowOf, RowUpdates
    <3> HIDE DEF i
    <3> QED
      BY <3>2, <3>3, <3>4
  <2>4. ASSUME NEW j \in queue, j.kind # "event", task'[u].sync = j
        PROVE  installation'[task'[u].sync.inst].suspended
    <3>1. j.inst \in Installations /\ j.gen \in Nat
      BY <1>f, <2>4, QueuedOf
    <3>2. /\ j.gen <= installation[j.inst].gen
          /\ j.gen = installation[j.inst].gen /\ installation[j.inst].owner # None
               => installation[j.inst].suspended
      BY <1>f, <1>3, <2>4 DEF Generations, StateAsked
    <3> QED
      BY <1>1, <1>3, <2>4, <3>1, <3>2
  <2>5. ApplyInstallationRepos(u) => task[u].pc = "apply"
    BY DEF ApplyInstallationRepos
  <2> QED
    BY <1>3, <2>1, <2>2, <2>3, <2>4, <2>5 DEF TaskGoesOn
<1> QED
  BY <1>2, <1>3 DEF StateAsked, Busy

\* The backfill follows the listing that synchronised the row.
LEMMA BackfilledStep ==
  ASSUME IInv, Next PROVE Backfilled'
<1>f. TypeOK /\ Generations /\ Backfilled
  BY DEF IInv
<1> SUFFICES ASSUME NEW u \in Workers, task'[u].pc = "backfill",
                    task'[u].sync.gen = installation'[task'[u].sync.inst].gen
             PROVE  installation'[task'[u].sync.inst].synced
  BY DEF Backfilled
<1> DEFINE s == task[u].sync
<1>1. TaskGoesOn(u)
  BY TaskNext
<1>2. CASE task[u].pc = "backfill" /\ task'[u].sync = s
  <2>1. s.inst \in Installations /\ s.gen \in Nat /\ s.gen <= installation[s.inst].gen
    BY <1>f, <1>2, TaskOf DEF Generations, Busy
  <2>2. s.gen = installation'[s.inst].gen
    BY <1>2
  <2>3. s.gen = installation[s.inst].gen => installation[s.inst].synced
    BY <1>f, <1>2 DEF Backfilled
  <2> HIDE DEF s
  <2>4. s.gen = installation[s.inst].gen /\ installation'[s.inst].gen = installation[s.inst].gen
    BY <2>1, <2>2, SameGeneration
  <2> QED
    BY <1>2, <2>1, <2>3, <2>4, RowStep DEF RowStepped
<1>3. CASE ApplyInstallationRepos(u) /\ task'[u].sync = s
  <2>1. s.inst \in Installations
    BY <1>f, <1>3, TaskOf DEF ApplyInstallationRepos
  <2>2. installation' = [installation EXCEPT ![s.inst].synced = TRUE, ![s.inst].error = FALSE]
    BY <1>3 DEF ApplyInstallationRepos
  <2> HIDE DEF s
  <2>3. installation'[s.inst] = [installation[s.inst] EXCEPT !.synced = TRUE, !.error = FALSE]
    BY <1>f, <2>1, <2>2 DEF TypeOK
  <2>4. installation[s.inst] \in Row
    BY <1>f, <2>1, RowOf
  <2> QED
    BY <1>3, <2>3, <2>4 DEF Row
<1> QED
  BY <1>1, <1>2, <1>3 DEF TaskGoesOn

\* The job of the current generation runs under its lease until it is done, is
\* tried again or is a dead letter; everything that makes another one necessary
\* adds it.
LEMMA SyncNeverForgottenStep ==
  ASSUME IInv, Next PROVE SyncNeverForgotten'
<1>f. TypeOK /\ TaskShape /\ StateAsked /\ Backfilled /\ SyncNeverForgotten /\ TypeOK'
  BY TypeStep DEF IInv
<1> SUFFICES ASSUME NEW i \in Installations, Syncing(i)'
             PROVE  HasJob(i)'
  BY DEF SyncNeverForgotten
<1>o. Outcome(i) /\ RowStepped(i)
  BY RowOutcome, RowStep
<1>s. /\ Serving(i)' /\ ~installation'[i].synced /\ ~installation'[i].error
      /\ installation'[i].owner # None
  BY DEF Syncing, Serving, Bound
<1>1. CASE installation'[i].gen # installation[i].gen
  BY <1>o, <1>s, <1>1 DEF Outcome, HasJob
<1>2. CASE installation'[i].gen = installation[i].gen
  <2>1. /\ Serving(i) /\ ~installation[i].synced
        /\ installation'[i].owner = installation[i].owner
    BY <1>o, <1>s, <1>2 DEF RowStepped
  <2>2. ~installation[i].error
    <3>1. ASSUME NEW t \in Workers, ApplyInstallationState(t), task[t].sync.inst = i PROVE FALSE
      <4>1. /\ task[t].pc = "apply" /\ task[t].sync.kind = "state"
            /\ task[t].sync.gen = installation[i].gen
        BY <3>1 DEF ApplyInstallationState, StateApplicable, StateCurrent
      <4>2. installation[i].suspended
        BY <1>f, <1>s, <2>1, <3>1, <4>1 DEF StateAsked, Busy
      <4> QED
        BY <2>1, <4>2 DEF Serving
    <3> QED
      BY <1>o, <1>s, <1>2, <3>1 DEF Outcome
  <2> DEFINE wanted(j) == /\ j.kind = "repos" /\ j.inst = i
                          /\ j.ws = installation[i].owner /\ j.gen = installation[i].gen
  <2>3. \/ \E j \in queue \cup dead : wanted(j)
        \/ \E t \in Workers : task[t].pc # "idle" /\ task[t].live /\ wanted(task[t].work)
    BY <1>f, <2>1, <2>2 DEF SyncNeverForgotten, Syncing, HasJob, Busy
  <2>4. ASSUME NEW j \in queue \cup dead, wanted(j)
        PROVE  \/ \E k \in queue' \cup dead' : wanted(k)
               \/ \E t \in Workers : /\ task'[t].pc # "idle" /\ task'[t].live
                                     /\ wanted(task'[t].work)
    <3> HIDE DEF wanted
    <3>1. QueueKept(j)
      BY QueueKeptStep
    <3>2. ASSUME NEW t \in Workers, ClaimJob(t, j)
          PROVE  task'[t].pc # "idle" /\ task'[t].live /\ task'[t].work = j
      BY <1>f, <3>2 DEF ClaimJob, TypeOK
    <3> QED
      BY <2>4, <3>1, <3>2 DEF QueueKept
  <2>5. ASSUME NEW t \in Workers, task[t].pc # "idle", task[t].live, wanted(task[t].work)
        PROVE  \/ \E k \in queue' \cup dead' : wanted(k)
               \/ \E u \in Workers : /\ task'[u].pc # "idle" /\ task'[u].live
                                     /\ wanted(task'[u].work)
    <3>1. /\ task[t].sync = task[t].work /\ task[t].pc # "event"
          /\ task[t].sync.kind = "repos" /\ task[t].sync.inst = i
          /\ task[t].sync.ws = installation[i].owner /\ task[t].sync.gen = installation[i].gen
      BY <1>f, <2>5 DEF TaskShape, Busy
    <3>2. Current(task[t].sync)
      BY <1>s, <2>1, <3>1 DEF Current, SyncCurrent, StateCurrent, Serving, Bound
    <3>3. CASE task'[t].pc # "idle"
      <4>1. /\ task'[t].work = task[t].work
            /\ task'[t].live \/ task[t].work \in queue'
        <5>1. TaskGoesOn(t)
          BY <3>3, TaskNext
        <5> QED
          BY <2>5, <3>1, <5>1 DEF TaskGoesOn
      <4> HIDE DEF wanted
      <4> QED
        BY <2>5, <3>3, <4>1
    <3>4. CASE task'[t].pc = "idle"
      <4>1. task'[t] = Idle
        BY <1>f, <3>4 DEF TypeOK, Task
      <4>2. ASSUME CheckCurrent(t) PROVE FALSE
        <5>1. task' = [task EXCEPT ![t].pc = "ask"]
          BY <3>2, <4>2 DEF CheckCurrent
        <5>2. task[t] \in Task
          BY <1>f, <2>5, TaskOf
        <5>3. task'[t] = [task[t] EXCEPT !.pc = "ask"]
          BY <1>f, <5>1 DEF TypeOK
        <5> QED
          BY <3>4, <5>2, <5>3 DEF Task
      <4>3. ~ApplyStale(t) /\ ~ApplyInstallationState(t)
        BY <3>1, <3>2 DEF ApplyStale, ApplyInstallationState
      <4>4. ~BackfillEnds(t)
        BY <1>f, <2>1, <3>1 DEF BackfillEnds, Backfilled
      <4>5. /\ ~InstallationEventNothing(t) /\ ~InstallationEventDeleted(t)
            /\ ~InstallationEventRepositories(t)
        BY <3>1 DEF InstallationEventNothing, InstallationEventDeleted,
          InstallationEventRepositories
      <4>6. task[t].work \in queue' \cup dead'
        BY <2>5, <4>1, <4>2, <4>3, <4>4, <4>5, TaskSettledStep DEF TaskSettled
      <4> HIDE DEF wanted
      <4> QED
        BY <2>5, <4>6
    <3> QED
      BY <3>3, <3>4
  <2>6. \/ \E k \in queue' \cup dead' : wanted(k)
        \/ \E u \in Workers : task'[u].pc # "idle" /\ task'[u].live /\ wanted(task'[u].work)
    <3> HIDE DEF wanted
    <3> QED
      BY <2>3, <2>4, <2>5
  <2> QED
    BY <1>2, <2>1, <2>6 DEF HasJob, Busy
<1> QED
  BY <1>1, <1>2

\* Only a fresh answer lifts a suspension, and no handler of a delivery that
\* says "suspend" leaves the row unsuspended.
LEMMA MirroredStep ==
  ASSUME IInv, Next PROVE Mirrored'
<1>f. TypeOK /\ Mirrored /\ Fresh
  BY DEF IInv
<1> SUFFICES ASSUME NEW i \in Installations, github'[i].state = "suspended",
                    ~installation'[i].deleted, ~installation'[i].suspended
             PROVE  Undelivered(i, {"suspend"})'
  BY DEF Mirrored
<1>1. GitHubSent(i) /\ RowStepped(i) /\ Outcome(i)
  BY GitHubStep, RowStep, RowOutcome
<1>2. ~installation[i].deleted
  BY <1>1 DEF RowStepped
<1>3. CASE github[i].state = "suspended"
  <2>1. Undelivered(i, {"suspend"})
    <3>1. CASE ~installation[i].suspended
      BY <1>f, <1>2, <1>3, <3>1 DEF Mirrored
    <3>2. ASSUME NEW t \in Workers, ApplyInstallationState(t), task[t].sync.inst = i, ~task[t].suspended
          PROVE  Undelivered(i, {"suspend"})
      <4>1. /\ task[t].pc = "apply" /\ task[t].sync.kind = "state"
            /\ task[t].sync.gen = installation[i].gen
        BY <3>2 DEF ApplyInstallationState, StateApplicable, StateCurrent
      <4> QED
        BY <1>f, <1>2, <1>3, <3>2, <4>1 DEF Fresh, FreshTask
    <3> QED
      BY <1>1, <3>1, <3>2 DEF Outcome
  <2>2. ASSUME NEW t \in Workers, task[t].sync.inst = i, task[t].work.action \in {"suspend"}
        PROVE  /\ ~InstallationEventNothing(t) /\ ~InstallationEventDeleted(t)
               /\ ~InstallationEventRepositories(t) /\ ~InstallationEventSuspension(t)
    <3>1. /\ ~InstallationEventNothing(t) /\ ~InstallationEventDeleted(t)
          /\ ~InstallationEventRepositories(t)
      BY <1>2, <2>2 DEF InstallationEventNothing, InstallationEventDeleted, InstallationEventRepositories
    <3>2. ASSUME InstallationEventSuspension(t) PROVE FALSE
      <4>1. installation'[i] = Suspended(installation[i])
        BY <1>f, <2>2, <3>2 DEF InstallationEventSuspension, TypeOK
      <4>2. Suspended(installation[i]).suspended
        BY <1>f, RowOf, RowUpdates
      <4> QED
        BY <4>1, <4>2
    <3> QED
      BY <3>1, <3>2
  <2> QED
    BY <2>1, <2>2, UndeliveredStep
<1>4. CASE github[i].state # "suspended"
  BY <1>1, <1>4 DEF GitHubSent
<1> QED
  BY <1>3, <1>4

\* A change after the answer was read is on its way, or has raised the
\* generation.
LEMMA FreshStep ==
  ASSUME IInv, Next PROVE Fresh'
<1>f. TypeOK /\ Generations /\ Fresh
  BY DEF IInv
<1> SUFFICES ASSUME NEW u \in Workers, task'[u].pc = "apply",
                    task'[u].sync.gen = installation'[task'[u].sync.inst].gen
             PROVE  FreshTask(u)'
  BY DEF Fresh, FreshTask
<1>1. TaskGoesOn(u)
  BY TaskNext
<1>2. task[u].pc # "idle" /\ task'[u].sync = task[u].sync
  BY <1>1 DEF TaskGoesOn
<1>3. PICK i \in Installations : i = task[u].sync.inst
  BY <1>f, <1>2, TaskOf
<1>4. /\ task[u].sync.gen \in Nat
      /\ task[u].sync.gen <= installation[i].gen /\ task[u].sync.gen = installation'[i].gen
  BY <1>f, <1>2, <1>3, TaskOf DEF Generations, Busy
<1>5. task[u].sync.gen = installation[i].gen /\ installation'[i].gen = installation[i].gen
  BY <1>3, <1>4, SameGeneration
<1>6. /\ RowStepped(i) /\ GitHubSent(i)
      /\ Undelivered(i, {"suspend"}) /\ ~installation[i].deleted => Undelivered(i, {"suspend"})'
      /\ Undelivered(i, {"repositories", "deleted"}) /\ Serving(i)
              => Undelivered(i, {"repositories", "deleted"})'
  BY <1>3, <1>5, RowStep, GitHubStep, UndeliveredKept
<1>7. CASE /\ task[u].pc = "apply" /\ task'[u].listing = task[u].listing
           /\ task'[u].suspended <=> task[u].suspended
  <2>1. /\ task[u].sync.kind = "state" /\ ~task[u].suspended /\ ~installation[i].deleted
               => github[i].state # "suspended" \/ Undelivered(i, {"suspend"})
        /\ task[u].sync.kind = "repos" /\ Serving(i)
               => \/ task[u].listing = github[i].repos
                  \/ Undelivered(i, {"repositories", "deleted"})
    BY <1>f, <1>3, <1>5, <1>7 DEF Fresh, FreshTask
  <2>2. /\ installation[i].deleted => installation'[i].deleted
        /\ Serving(i)' => Serving(i)
    BY <1>5, <1>6 DEF RowStepped
  <2>3. task[u].sync.kind = "state" /\ ~task[u].suspended /\ ~installation'[i].deleted
          => github'[i].state # "suspended" \/ Undelivered(i, {"suspend"})'
    BY <1>6, <2>1, <2>2 DEF GitHubSent
  <2>4. task[u].sync.kind = "repos" /\ Serving(i)'
          => \/ task[u].listing = github'[i].repos \/ Undelivered(i, {"repositories", "deleted"})'
    BY <1>6, <2>1, <2>2 DEF GitHubSent
  <2>5. task'[u].sync.inst = i
    BY <1>2, <1>3
  <2> QED
    BY <1>2, <1>7, <2>3, <2>4, <2>5 DEF FreshTask, Undelivered, Serving, Bound
<1>8. CASE /\ AskGitHub(u)
           /\ task[u].sync.kind = "repos" => task'[u].listing = github[i].repos
           /\ task'[u].suspended <=> github[i].state = "suspended"
  <2>1. github' = github
    BY <1>8 DEF AskGitHub
  <2>2. task'[u].sync.inst = i
    BY <1>2, <1>3
  <2> QED
    BY <1>2, <1>8, <2>1, <2>2 DEF FreshTask
<1> QED
  BY <1>1, <1>2, <1>3, <1>7, <1>8 DEF TaskGoesOn

\* A listing of the current generation settles exactly this installation's
\* repositories, and nothing else moves them while it is served.
LEMMA ListedStep ==
  ASSUME IInv, Next PROVE ListingSettled'
<1>f. TypeOK /\ Bindings /\ RepoHome /\ Fresh /\ ListingSettled
  BY DEF IInv
<1> SUFFICES ASSUME NEW i \in Installations, Serving(i)', installation'[i].synced
             PROVE  Connected(i)' = github'[i].repos \/ Undelivered(i, {"repositories", "deleted"})'
  BY DEF ListingSettled
<1>1. RowStepped(i) /\ Outcome(i) /\ GitHubSent(i)
  BY RowStep, RowOutcome, GitHubStep
<1>2. installation'[i].gen = installation[i].gen
  BY <1>1 DEF Outcome
<1>3. /\ Serving(i) /\ installation'[i].owner # None /\ installation'[i].owner = installation[i].owner
      /\ ~installation[i].deleted /\ ~installation'[i].deleted
  BY <1>1, <1>2 DEF RowStepped, Serving, Bound
<1>4. Undelivered(i, {"repositories", "deleted"}) => Undelivered(i, {"repositories", "deleted"})'
  BY <1>2, <1>3, UndeliveredKept
<1>5. ASSUME NEW x \in Repos, repo[x].active, repo[x].inst = i
      PROVE  repo[x].ws = installation[i].owner
  BY <1>f, <1>3, <1>5 DEF RepoHome
<1>6. ASSUME NEW t \in Workers, ApplyInstallationRepos(t), task[t].sync.inst = i
      PROVE  Connected(i)' = github'[i].repos \/ Undelivered(i, {"repositories", "deleted"})'
  <2> DEFINE s == task[t].sync
             listing == task[t].listing
  <2>1. /\ task[t].pc = "apply" /\ s.kind = "repos" /\ s.ws = installation[i].owner
        /\ s.gen = installation[i].gen /\ github' = github
    BY <1>6 DEF ApplyInstallationRepos, ReposApplicable, SyncCurrent, StateCurrent
  <2>2. repo' = [x \in Repos |->
           IF x \in listing THEN [ws |-> s.ws, inst |-> s.inst, active |-> TRUE]
           ELSE [repo[x] EXCEPT !.active = repo[x].active /\ ~(repo[x].ws = s.ws /\ repo[x].inst = s.inst)]]
    BY <1>6 DEF ApplyInstallationRepos
  <2>3. listing \subseteq Repos
    BY <1>f, <2>1, TaskOf
  <2>4. listing = github[i].repos \/ Undelivered(i, {"repositories", "deleted"})
    BY <1>f, <1>3, <1>6, <2>1 DEF Fresh, FreshTask
  <2>5. s.inst = i
    BY <1>6
  <2> HIDE DEF s, listing
  <2>6. ASSUME NEW x \in Repos PROVE repo'[x].inst = i /\ repo'[x].active <=> x \in listing
    <3>1. CASE x \in listing
      BY <2>2, <2>5, <3>1
    <3>2. CASE x \notin listing
      <4>1. /\ repo'[x].inst = repo[x].inst
            /\ repo'[x].active <=> repo[x].active /\ ~(repo[x].ws = s.ws /\ repo[x].inst = s.inst)
        BY <1>f, <2>2, <3>2 DEF TypeOK
      <4> QED
        BY <1>5, <2>1, <2>5, <3>2, <4>1
    <3> QED
      BY <3>1, <3>2
  <2>7. Connected(i)' = listing
    BY <2>3, <2>6 DEF Connected
  <2> QED
    BY <1>4, <2>1, <2>4, <2>7
<1>7. ASSUME installation[i].synced, Connected(i)' = Connected(i)
      PROVE  Connected(i)' = github'[i].repos \/ Undelivered(i, {"repositories", "deleted"})'
  BY <1>f, <1>1, <1>3, <1>4, <1>7 DEF ListingSettled, GitHubSent
<1>8. CASE installation[i].synced
  <2>1. CASE repo' = repo
    <3>1. Connected(i)' = Connected(i)
      BY <2>1 DEF Connected
    <3> QED
      BY <1>7, <1>8, <3>1
  <2>2. ASSUME NEW w \in Workspaces, DeleteWorkspace(w)
        PROVE  Connected(i)' = Connected(i)
    <3>1. repo' = [x \in Repos |->
             IF repo[x].ws = w THEN [ws |-> None, inst |-> None, active |-> FALSE] ELSE repo[x]]
      BY <2>2 DEF DeleteWorkspace
    <3>2. installation[i].owner # w
      <4>1. installation[i].owner = w => installation'[i] = [installation[i] EXCEPT !.owner = None]
        BY <2>2 DEF DeleteWorkspace
      <4>2. installation[i] \in Row
        BY <1>f, RowOf
      <4> QED
        BY <1>3, <4>1, <4>2 DEF Row
    <3>3. ASSUME NEW x \in Repos
          PROVE  repo'[x].inst = i /\ repo'[x].active <=> repo[x].inst = i /\ repo[x].active
      <4>1. CASE repo[x].ws = w
        BY <1>5, <3>1, <3>2, <4>1
      <4>2. CASE repo[x].ws # w
        BY <3>1, <4>2
      <4> QED
        BY <4>1, <4>2
    <3> QED
      BY <3>3 DEF Connected
  <2>3. ASSUME NEW t \in Workers, InstallationEventDeleted(t)
        PROVE  Connected(i)' = Connected(i)
    <3> DEFINE o == task[t].sync.inst
    <3>1. /\ repo' = [x \in Repos |-> IF repo[x].inst = o THEN [repo[x] EXCEPT !.active = FALSE]
                                      ELSE repo[x]]
          /\ installation' = [installation EXCEPT ![o] = Deleted(installation[o])]
      BY <2>3 DEF InstallationEventDeleted
    <3> HIDE DEF o
    <3>2. o # i
      <4>1. Deleted(installation[i]).deleted
        BY <1>f, RowOf, RowUpdates
      <4> QED
        BY <1>f, <1>3, <3>1, <4>1 DEF TypeOK
    <3>3. ASSUME NEW x \in Repos
          PROVE  repo'[x].inst = i /\ repo'[x].active <=> repo[x].inst = i /\ repo[x].active
      BY <1>f, <3>1, <3>2 DEF TypeOK
    <3> QED
      BY <3>3 DEF Connected
  <2>4. ASSUME NEW t \in Workers, ApplyInstallationRepos(t), task[t].sync.inst # i
        PROVE  Connected(i)' = Connected(i)
    <3> DEFINE s == task[t].sync
               listing == task[t].listing
    <3>1. /\ s.inst \in Installations /\ s.ws # None /\ installation[s.inst].owner = s.ws
          /\ ~RepositoryConflict(s, listing)
      BY <1>f, <2>4, TaskOf DEF ApplyInstallationRepos, ReposApplicable, SyncCurrent, StateCurrent
    <3>2. repo' = [x \in Repos |->
             IF x \in listing THEN [ws |-> s.ws, inst |-> s.inst, active |-> TRUE]
             ELSE [repo[x] EXCEPT !.active = repo[x].active /\ ~(repo[x].ws = s.ws /\ repo[x].inst = s.inst)]]
      BY <2>4 DEF ApplyInstallationRepos
    <3>3. s.inst # i
      BY <2>4
    <3> HIDE DEF s, listing
    <3>4. ASSUME NEW x \in Repos
          PROVE  repo'[x].inst = i /\ repo'[x].active <=> repo[x].inst = i /\ repo[x].active
      <4>1. CASE x \in listing
        <5>1. repo'[x].inst = s.inst
          BY <3>2, <4>1
        <5>2. ASSUME repo[x].inst = i, repo[x].active PROVE FALSE
          <6>1. repo[x].ws = installation[i].owner
            BY <1>5, <5>2
          <6>2. repo[x].ws \in {None, s.ws}
            BY <3>1, <4>1 DEF RepositoryConflict
          <6> QED
            BY <1>f, <1>3, <3>1, <3>3, <6>1, <6>2 DEF Bindings
        <5> QED
          BY <3>3, <5>1, <5>2
      <4>2. CASE x \notin listing
        BY <1>f, <3>2, <3>3, <4>2 DEF TypeOK
      <4> QED
        BY <4>1, <4>2
    <3> QED
      BY <3>4 DEF Connected
  <2> QED
    BY <1>6, <1>7, <1>8, <2>1, <2>2, <2>3, <2>4, RepoStep DEF ReposStepped
<1>9. CASE ~installation[i].synced
  BY <1>1, <1>6, <1>9 DEF Outcome
<1> QED
  BY <1>8, <1>9

-----------------------------------------------------------------------------
(* The theorems.                                                           *)

\* Some installations were synchronised before.
LEMMA InitIInv ==
  ASSUME Init PROVE IInv
<1>1. PICK owner \in [Installations -> Owners], listed \in [Installations -> SUBSET Repos] :
    /\ \A i, o \in Installations : i # o =>
         /\ owner[i] = owner[o] => owner[i] = None
         /\ listed[i] \cap listed[o] = {}
    /\ github = [i \in Installations |-> [state |-> "active", repos |-> listed[i]]]
    /\ workspace = Workspaces
    /\ installation = [i \in Installations |->
         IF owner[i] = None THEN NewRow
         ELSE [NewRow EXCEPT !.owner = owner[i], !.verified = TRUE, !.gen = 1, !.synced = TRUE]]
    /\ repo = [x \in Repos |->
         IF \E i \in Installations : owner[i] # None /\ x \in listed[i]
           THEN LET i == CHOOSE i \in Installations : x \in listed[i]
                IN  [ws |-> owner[i], inst |-> i, active |-> TRUE]
           ELSE [ws |-> None, inst |-> None, active |-> FALSE]]
    /\ setup = [g \in Setups |-> [phase |-> "none"]]
    /\ queue = {} /\ dead = {}
    /\ task = [t \in Workers |-> Idle]
    /\ reader = [r \in Readers |-> Idle]
    /\ moves = 0
  BY DEF Init
<1>2. ASSUME NEW i \in Installations
      PROVE  /\ installation[i] \in Row /\ installation[i].owner = owner[i]
             /\ owner[i] # None => installation[i].verified /\ installation[i].synced
             /\ ~installation[i].deleted /\ ~installation[i].suspended
             /\ github[i].state = "active" /\ github[i].repos = listed[i]
  BY <1>1 DEF Row, NewRow, Owners
<1>3. ASSUME NEW x \in Repos, NEW i \in Installations, owner[i] # None, x \in listed[i]
      PROVE  repo[x] = [ws |-> owner[i], inst |-> i, active |-> TRUE]
  <2>1. (CHOOSE o \in Installations : x \in listed[o]) = i
    BY <1>1, <1>3
  <2> QED
    BY <1>1, <1>3, <2>1
<1>4. ASSUME NEW x \in Repos, \A i \in Installations : owner[i] # None => x \notin listed[i]
      PROVE  repo[x] = [ws |-> None, inst |-> None, active |-> FALSE]
  BY <1>1, <1>4
<1>5. TypeOK
  <2>1. installation \in [Installations -> Row]
    BY <1>1, <1>2
  <2>2. \A x \in Repos : repo[x] \in [ws: Owners, inst: Installations \cup {None}, active: BOOLEAN]
    BY <1>1, <1>3, <1>4 DEF Owners
  <2>3. repo \in [Repos -> [ws: Owners, inst: Installations \cup {None}, active: BOOLEAN]]
    BY <1>1, <2>2
  <2>4. github \in [Installations -> [state: {"active", "suspended", "gone"}, repos: SUBSET Repos]]
    BY <1>1
  <2>5. /\ setup \in [Setups -> SetupState] /\ queue \subseteq Delivery \cup InstallationSync
        /\ dead \subseteq Delivery \cup InstallationSync
        /\ task \in [Workers -> Task \cup {Idle}] /\ moves \in Nat
        /\ workspace \subseteq Workspaces
    BY <1>1 DEF SetupState
  <2>6. reader \in [Readers -> Reader \cup {Idle} \cup {Written(d) : d \in BOOLEAN}]
    BY <1>1
  <2> QED
    BY <2>1, <2>3, <2>4, <2>5, <2>6 DEF TypeOK
<1>6. Bindings
  <2>1. \A i \in Installations : installation[i].owner = owner[i] /\ owner[i] \in Owners
    BY <1>1, <1>2
  <2>2. \A i \in Installations : owner[i] # None => installation[i].verified
    BY <1>2
  <2>3. \A i, o \in Installations : i # o /\ owner[i] = owner[o] => owner[i] = None
    BY <1>1
  <2>4. workspace = Workspaces
    BY <1>1
  <2> QED
    BY <2>1, <2>2, <2>3, <2>4 DEF Bindings, Owners
<1>7. RepoHome
  <2> SUFFICES ASSUME NEW x \in Repos
               PROVE  IF repo[x].ws = None THEN ~repo[x].active /\ repo[x].inst = None
                      ELSE /\ repo[x].inst \in Installations
                           /\ \/ installation[repo[x].inst].owner = repo[x].ws
                              \/ installation[repo[x].inst].deleted /\ repo[x].ws \in workspace
    BY DEF RepoHome
  <2>1. CASE \A i \in Installations : owner[i] # None => x \notin listed[i]
    BY <1>4, <2>1
  <2>2. ASSUME NEW i \in Installations, owner[i] # None, x \in listed[i]
        PROVE  repo[x].ws = owner[i] /\ repo[x].inst = i
    <3>1. repo[x] = [ws |-> owner[i], inst |-> i, active |-> TRUE]
      BY <1>3, <2>2
    <3> QED
      BY <3>1
  <2> QED
    BY <1>2, <2>1, <2>2
<1>8. \A t \in Workers : task[t].pc = "idle"
  BY <1>1 DEF Idle
<1>9. \A r \in Readers : reader[r].pc = "idle"
  BY <1>1 DEF Idle
<1>10. TaskShape /\ Generations /\ StateAsked /\ Backfilled /\ Fresh
  BY <1>1, <1>8 DEF TaskShape, Generations, StateAsked, Backfilled, Fresh, FreshTask, Busy
<1>11. SyncNeverForgotten
  BY <1>2 DEF SyncNeverForgotten, Syncing, Serving, Bound
<1>12. Mirrored
  BY <1>2 DEF Mirrored
<1>13. ListingSettled
  <2>1. ASSUME NEW i \in Installations, owner[i] # None
        PROVE  Connected(i) = github[i].repos
    <3>1. ASSUME NEW x \in Repos PROVE repo[x].inst = i /\ repo[x].active <=> x \in listed[i]
      <4>1. CASE \A o \in Installations : owner[o] # None => x \notin listed[o]
        BY <1>4, <2>1, <4>1
      <4>2. ASSUME NEW o \in Installations, owner[o] # None, x \in listed[o]
            PROVE  repo[x].inst = i /\ repo[x].active <=> x \in listed[i]
        <5>0. repo[x] = [ws |-> owner[o], inst |-> o, active |-> TRUE]
          BY <1>3, <4>2
        <5>1. repo[x].inst = o /\ repo[x].active
          BY <5>0
        <5> QED
          BY <1>1, <4>2, <5>1
      <4> QED
        BY <4>1, <4>2
    <3>2. listed[i] \subseteq Repos
      BY <1>1
    <3> QED
      BY <1>2, <3>1, <3>2 DEF Connected
  <2> QED
    BY <1>2, <2>1 DEF ListingSettled, Serving, Bound
<1>14. ReadersFenced /\ EvidenceUndisturbed
  BY <1>9 DEF ReadersFenced, EvidenceUndisturbed
<1> QED
  BY <1>5, <1>6, <1>7, <1>10, <1>11, <1>12, <1>13, <1>14 DEF IInv

\* The invariant is inductive.
LEMMA StepIInv ==
  ASSUME IInv, [Next]_vars PROVE IInv'
<1>1. CASE Next
  BY <1>1, TypeStep, BindingsStep, RepoHomeStep, TaskShapeStep, GenerationsStep,
    StateAskedStep, BackfilledStep, SyncNeverForgottenStep, MirroredStep, FreshStep,
    ListedStep, ReadersFencedStep, UndisturbedStep DEF IInv
<1>2. CASE UNCHANGED vars
  BY SMTT(30), <1>2 DEF IInv, TypeOK, Bindings, RepoHome, TaskShape, Generations, StateAsked,
    Backfilled, SyncNeverForgotten, Syncing, HasJob, Serving, Bound, Mirrored, Undelivered,
    Fresh, FreshTask, ListingSettled, Connected, ReadersFenced, EvidenceUndisturbed, Busy, vars
<1> QED
  BY <1>1, <1>2

\* The inductive invariant holds in every reachable state.
THEOREM Invariance == Spec => []IInv
  BY InitIInv, StepIInv, PTL DEF Spec

\* Types.
THEOREM TypeCorrect == Spec => []TypeOK
<1>1. IInv => TypeOK
  BY DEF IInv
<1> QED
  BY <1>1, Invariance, PTL

\* An installation that is shown as syncing has a job of its generation: it
\* waits, runs under a lease or is a dead letter (FailJob).
THEOREM SyncNeverForgottenHolds == Spec => []SyncNeverForgotten
<1>1. IInv => SyncNeverForgotten
  BY DEF IInv
<1> QED
  BY <1>1, Invariance, PTL

\* A suspension at GitHub is in the row, or its delivery is on its way or dead.
THEOREM SuspensionMirroredHolds == Spec => []SuspensionMirrored
<1>1. IInv => SuspensionMirrored
  BY DEF IInv, Mirrored, SuspensionMirrored, Undelivered, Serving, Bound
<1> QED
  BY <1>1, Invariance, PTL

\* Once synchronised, the connected repositories are GitHub's, or the change
\* is on its way or dead.
THEOREM ListingSettledHolds == Spec => []ListingSettled
<1>1. IInv => ListingSettled
  BY DEF IInv
<1> QED
  BY <1>1, Invariance, PTL

\* No handler writes over a suspension, deletion or unbinding since it captured
\* its generation.
THEOREM EvidenceUndisturbedHolds == Spec => []EvidenceUndisturbed
<1>1. IInv => EvidenceUndisturbed
  BY DEF IInv
<1> QED
  BY <1>1, Invariance, PTL

=============================================================================
