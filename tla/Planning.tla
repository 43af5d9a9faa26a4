------------------------------ MODULE Planning ------------------------------
(***************************************************************************)
(* Sprints, milestones and issues of one organisation: the operations of   *)
(* sprint.go, milestone.go, issue.go and snapshot.go in internal/store     *)
(* that write them.  PromoteCommentToIssue (comment.go) writes an issue    *)
(* too, one that CreateIssue may write: 'todo', in the entry's project,    *)
(* with neither milestone nor parent.  Each runs in one transaction that   *)
(* first locks the workspace row (LockWorkspaceWriterTx), so operations    *)
(* are serial and each is one action; a transaction that would be rolled   *)
(* back is an action that is not enabled.                                  *)
(*                                                                         *)
(* The tables are functions whose domain is the set of rows that exist.    *)
(* Rows are never deleted (only the whole organisation is).  Titles,       *)
(* descriptions, owners, assignees, labels, list positions and the         *)
(* activity feed are left out, and with the feed the per-person totals of  *)
(* a snapshot.                                                             *)
(***************************************************************************)
EXTENDS Naturals, FiniteSets, Functions

CONSTANTS
  Projects, Sprints, Milestones, Issues,  \* row ids; each set bounds its table
  Names,         \* milestone names
  Dates,         \* values of sprint.starts_on
  Unfinished,    \* issue statuses other than 'done' and 'cancelled'
  Finished,      \* 'done', 'cancelled'
  None,          \* SQL NULL
  Parents,             \* bound: the parents a request may name, or None
  MilestoneStatuses    \* bound: the milestone statuses in use

ASSUME StatusAssumption == Unfinished \cap Finished = {}
ASSUME DatesAssumption == Dates \subseteq Nat
ASSUME NoneAssumption == None \notin Projects \cup Sprints \cup Milestones \cup Issues
ASSUME FiniteAssumption == IsFiniteSet(Milestones) /\ IsFiniteSet(Issues)
ASSUME InputsAssumption ==
  /\ Parents \subseteq Issues \cup {None}
  /\ "planned" \in MilestoneStatuses

VARIABLES
  sprint,      \* sprint[s]: project, state, starts
  milestone,   \* milestone[m]: sprint, name, status
  issue,       \* issue[i]: project, milestone, status, parent
  snapshot     \* snapshot[s]: the frozen report of a closed sprint

vars == <<sprint, milestone, issue, snapshot>>

Statuses == Unfinished \cup Finished
SprintStates == {"upcoming", "active", "completed"}

SprintRow == [project : Projects, state : SprintStates, starts : Dates]
MilestoneRow == [sprint : Sprints, name : Names, status : MilestoneStatuses]
IssueRow == [project : Projects \cup {None}, milestone : Milestones \cup {None},
             status : Statuses, parent : Issues \cup {None}]
SnapshotRow == [planned : Nat, completed : Nat, issues : [Statuses -> Nat]]

\* INSERT, or UPDATE of one row by primary key.
Put(table, id, row) == [x \in DOMAIN table \cup {id} |-> IF x = id THEN row ELSE table[x]]

Init ==
  /\ sprint = <<>> /\ milestone = <<>> /\ issue = <<>> /\ snapshot = <<>>

MilestoneProject(m) == sprint[milestone[m].sprint].project

\* The issues scheduled in sprint s, through their milestone.
IssuesOf(s) == {i \in DOMAIN issue :
                  issue[i].milestone # None /\ milestone[issue[i].milestone].sprint = s}

UnfinishedOf(s) == {i \in IssuesOf(s) : issue[i].status \in Unfinished}

(***************************************************************************)
(* Sprints.  A new one is upcoming; its project never changes.             *)
(***************************************************************************)

CreateSprint(s, p, date) ==
  /\ s \notin DOMAIN sprint
  /\ sprint' = Put(sprint, s, [project |-> p, state |-> "upcoming", starts |-> date])
  /\ UNCHANGED <<milestone, issue, snapshot>>

UpdateSprint(s, date) ==
  /\ s \in DOMAIN sprint
  /\ sprint' = [sprint EXCEPT ![s].starts = date]
  /\ UNCHANGED <<milestone, issue, snapshot>>

-----------------------------------------------------------------------------
(* Closing a sprint: freeze the report, then carry unfinished work.        *)

MilestonesOf(s) == {m \in DOMAIN milestone : milestone[m].sprint = s}

Report(s) ==
  [planned |-> Cardinality({m \in MilestonesOf(s) : milestone[m].status # "cancelled"}),
   completed |-> Cardinality({m \in MilestonesOf(s) : milestone[m].status = "completed"}),
   issues |-> [st \in Statuses |-> Cardinality({i \in IssuesOf(s) : issue[i].status = st})]]

\* Mutant: the conflict clause overwrites the first close's numbers.
CaptureSnapshot_Overwrite(s) == snapshot' = Put(snapshot, s, Report(s))

\* INSERT ... ON CONFLICT (sprint_id) DO NOTHING.
CaptureSnapshot(s) ==
  snapshot' = IF s \in DOMAIN snapshot THEN snapshot ELSE Put(snapshot, s, Report(s))

\* Mutant: any project's upcoming sprint will do.
NextSprints_AnyProject(s) ==
  LET upcoming == {n \in DOMAIN sprint \ {s} : sprint[n].state = "upcoming"}
  IN  IF upcoming = {} THEN {None} ELSE upcoming

\* The sprints CloseSprint may choose: the project's earliest upcoming one,
\* or None.  Nothing breaks a tie between two that start on the same day.
NextSprints(s) ==
  LET upcoming == {n \in DOMAIN sprint \ {s} :
                     sprint[n].state = "upcoming" /\ sprint[n].project = sprint[s].project}
      earliest == {n \in upcoming : \A o \in upcoming : sprint[n].starts <= sprint[o].starts}
  IN  IF upcoming = {} THEN {None} ELSE earliest

\* The milestones to carry, and the names the next sprint has no milestone for.
Carried(s) == {issue[i].milestone : i \in UnfinishedOf(s)}
MissingNames(s, next) ==
  {milestone[m].name : m \in Carried(s)} \ {milestone[m].name : m \in MilestonesOf(next)}

\* Milestones are matched by name in the next sprint (LIMIT 1 picks one of
\* several) and created as planned where missing; the unfinished issues, and
\* only their milestone_id, follow.
RollForward(s, next) ==
  \E fresh \in Injection(MissingNames(s, next), Milestones \ DOMAIN milestone) :
    /\ milestone' = [m \in DOMAIN milestone \cup Range(fresh) |->
         IF m \in DOMAIN milestone THEN milestone[m]
         ELSE [sprint |-> next, name |-> CHOOSE n \in DOMAIN fresh : fresh[n] = m,
               status |-> "planned"]]
    /\ \E target \in [Carried(s) -> DOMAIN milestone'] :
         /\ \A m \in Carried(s) : /\ milestone'[target[m]].sprint = next
                                  /\ milestone'[target[m]].name = milestone[m].name
         /\ issue' = [i \in DOMAIN issue |->
              IF i \in UnfinishedOf(s)
                THEN [issue[i] EXCEPT !.milestone = target[@]] ELSE issue[i]]

\* closeSprintTx without its UPDATE sprint, which the callers include.
CloseSprintTx(s, next) ==
  /\ CaptureSnapshot(s)
  /\ IF next = None THEN UNCHANGED <<milestone, issue>> ELSE RollForward(s, next)

\* Whatever state the sprint was in; a second close carries again but keeps
\* the first report.
CloseSprint(s) ==
  /\ s \in DOMAIN sprint
  /\ sprint' = [sprint EXCEPT ![s].state = "completed"]
  /\ \E next \in NextSprints(s) : CloseSprintTx(s, next)

\* Mutant: activation leaves the project's current sprint active.
ActivateSprint_KeepPrevious(s) ==
  /\ s \in DOMAIN sprint
  /\ sprint' = [sprint EXCEPT ![s].state = "active"]
  /\ UNCHANGED <<milestone, issue, snapshot>>

\* Mutant: every other active sprint is completed, not only the project's.
ActivateSprint_AllProjects(s) ==
  /\ s \in DOMAIN sprint
  /\ sprint' = [o \in DOMAIN sprint |->
       IF o = s THEN [sprint[o] EXCEPT !.state = "active"]
       ELSE [sprint[o] EXCEPT !.state = IF @ = "active" THEN "completed" ELSE @]]
  /\ UNCHANGED <<milestone, issue, snapshot>>

\* Completes the project's active sprint into s, then activates s, which may
\* itself be upcoming, active or completed.
ActivateSprint(s) ==
  /\ s \in DOMAIN sprint
  /\ LET previous == {o \in DOMAIN sprint \ {s} :
                        sprint[o].state = "active" /\ sprint[o].project = sprint[s].project}
     IN  \/ /\ previous = {}
            /\ sprint' = [sprint EXCEPT ![s].state = "active"]
            /\ UNCHANGED <<milestone, issue, snapshot>>
         \/ \E o \in previous :
              /\ sprint' = [sprint EXCEPT ![o].state = "completed", ![s].state = "active"]
              /\ CloseSprintTx(o, s)

-----------------------------------------------------------------------------
(* Milestones.  A milestone never leaves its sprint.                       *)

\* Mutant: the sprint is not looked up.
CreateMilestone_AnySprint(m, s, name) ==
  /\ m \notin DOMAIN milestone
  /\ milestone' = Put(milestone, m, [sprint |-> s, name |-> name, status |-> "planned"])
  /\ UNCHANGED <<sprint, issue, snapshot>>

CreateMilestone(m, s, name) ==
  /\ m \notin DOMAIN milestone /\ s \in DOMAIN sprint
  /\ milestone' = Put(milestone, m, [sprint |-> s, name |-> name, status |-> "planned"])
  /\ UNCHANGED <<sprint, issue, snapshot>>

UpdateMilestone(m, name, status) ==
  /\ m \in DOMAIN milestone
  /\ milestone' = [milestone EXCEPT ![m].name = name, ![m].status = status]
  /\ UNCHANGED <<sprint, issue, snapshot>>

-----------------------------------------------------------------------------
(* Issues. *)

\* Mutant: the trigger only refuses an issue as its own parent.
DepthGuard_NotItself(i, parent) == parent # None => parent # i

\* The issue_depth_guard trigger.
DepthGuard(i, parent) ==
  parent # None =>
    /\ parent # i
    /\ issue[parent].parent = None
    /\ \A j \in DOMAIN issue : issue[j].parent # i

\* checkIssueReferences, for one organisation: what is named exists.
ReferencesExist(m, parent) ==
  /\ m \in DOMAIN milestone \cup {None}
  /\ parent \in DOMAIN issue \cup {None}

\* Mutant: a project chosen on its own keeps another project's milestone.
Reconcile_KeepMilestone(m, p, chosen) ==
  IF m # None /\ chosen THEN [milestone |-> m, project |-> MilestoneProject(m)]
  ELSE [milestone |-> m, project |-> p]

\* reconcileMilestoneProject: the milestone and project to store.
Reconcile(m, p, chosen) ==
  IF m = None \/ p = MilestoneProject(m) THEN [milestone |-> m, project |-> p]
  ELSE IF chosen THEN [milestone |-> m, project |-> MilestoneProject(m)]
  ELSE [milestone |-> None, project |-> p]

StoreIssue(i, m, p, chosen, status, parent) ==
  LET placed == Reconcile(m, p, chosen)
  IN  issue' = Put(issue, i, [project |-> placed.project, milestone |-> placed.milestone,
                              status |-> status, parent |-> parent])

CreateIssue(i, m, p, status, parent) ==
  /\ i \notin DOMAIN issue
  /\ ReferencesExist(m, parent) /\ DepthGuard(i, parent)
  /\ StoreIssue(i, m, p, TRUE, status, parent)
  /\ UNCHANGED <<sprint, milestone, snapshot>>

\* A patch, given by the values it leads to; a field that is not patched
\* has its old value.  The milestone is chosen only if the patch changes it.
UpdateIssue(i, m, p, status, parent) ==
  /\ i \in DOMAIN issue
  /\ ReferencesExist(m, parent) /\ DepthGuard(i, parent)
  /\ StoreIssue(i, m, p, m # issue[i].milestone, status, parent)
  /\ UNCHANGED <<sprint, milestone, snapshot>>

\* The routes: what a caller may ask for, and the store operation it becomes.
HandleCreateSprint == \E s \in Sprints, p \in Projects, date \in Dates : CreateSprint(s, p, date)
HandleUpdateSprint == \E s \in Sprints, date \in Dates : UpdateSprint(s, date)
MutateSprint == \E s \in Sprints : ActivateSprint(s) \/ CloseSprint(s)
HandleCreateMilestone ==
  \E m \in Milestones, s \in Sprints, name \in Names : CreateMilestone(m, s, name)
HandleUpdateMilestone ==
  \E m \in Milestones, name \in Names, status \in MilestoneStatuses :
    UpdateMilestone(m, name, status)
HandleCreateIssue ==
  \E i \in Issues, m \in Milestones \cup {None}, p \in Projects \cup {None},
     status \in Statuses, parent \in Parents : CreateIssue(i, m, p, status, parent)
HandleUpdateIssue ==
  \E i \in Issues, m \in Milestones \cup {None}, p \in Projects \cup {None},
     status \in Statuses, parent \in Parents : UpdateIssue(i, m, p, status, parent)

Next == HandleCreateSprint \/ HandleUpdateSprint \/ MutateSprint \/ HandleCreateMilestone
        \/ HandleUpdateMilestone \/ HandleCreateIssue \/ HandleUpdateIssue

Spec == Init /\ [][Next]_vars

-----------------------------------------------------------------------------

\* The rows have their columns, and foreign keys point at rows.
TypeOK ==
  /\ DOMAIN sprint \subseteq Sprints /\ sprint \in [DOMAIN sprint -> SprintRow]
  /\ DOMAIN milestone \subseteq Milestones /\ milestone \in [DOMAIN milestone -> MilestoneRow]
  /\ DOMAIN issue \subseteq Issues /\ issue \in [DOMAIN issue -> IssueRow]
  /\ DOMAIN snapshot \subseteq DOMAIN sprint /\ snapshot \in [DOMAIN snapshot -> SnapshotRow]
  /\ \A m \in DOMAIN milestone : milestone[m].sprint \in DOMAIN sprint
  /\ \A i \in DOMAIN issue : ReferencesExist(issue[i].milestone, issue[i].parent)

\* README: "each project has at most one active sprint at a time".  The code
\* keeps this without ever tripping sprint_single_active_idx.
OneActiveSprint ==
  \A s, t \in DOMAIN sprint :
    sprint[s].state = "active" /\ sprint[t].state = "active"
      /\ sprint[s].project = sprint[t].project => s = t

\* README: "an issue's project and milestone always agree", through issue
\* patches, roll-forward and activation alike.
ProjectAgrees ==
  \A i \in DOMAIN issue :
    issue[i].milestone # None => issue[i].project = MilestoneProject(issue[i].milestone)

\* Sub-issues are one level deep, whichever end of the relation is edited.
OneLevelDeep ==
  \A i \in DOMAIN issue :
    issue[i].parent # None => issue[i].parent # i /\ issue[issue[i].parent].parent = None

\* captureSnapshot: "closing a sprint twice must not overwrite the first
\* close's numbers"; no edit, re-activation or second close changes a report.
SnapshotFrozen ==
  [][\A s \in DOMAIN snapshot : s \in DOMAIN snapshot' /\ snapshot'[s] = snapshot[s]]_vars

\* The sprints of the project of s that its unfinished work may move to in
\* this step: the one being activated or, failing that, the earliest upcoming.
Activating(n) == sprint[n].state # "active" /\ sprint'[n].state = "active"
Destinations(s) ==
  LET others == {n \in DOMAIN sprint \ {s} : sprint[n].project = sprint[s].project}
      activating == {n \in others : Activating(n)}
      upcoming == {n \in others : sprint[n].state = "upcoming"}
  IN  IF activating # {} THEN activating
      ELSE {n \in upcoming : \A o \in upcoming : sprint[n].starts <= sprint[o].starts}

\* rollIncompleteIssuesForward: when a sprint completes, all its unfinished
\* issues move to the project's next sprint, under milestones of the same
\* name, unless there is no next sprint; finished issues stay, and nothing
\* but the milestone_id of the moved issues changes.
CarryUnfinished ==
  [][\A s \in DOMAIN sprint : sprint[s].state # "completed" /\ sprint'[s].state = "completed" =>
       /\ DOMAIN issue' = DOMAIN issue
       /\ \A i \in DOMAIN issue :
            /\ issue'[i] = [issue[i] EXCEPT !.milestone = issue'[i].milestone]
            /\ i \notin UnfinishedOf(s) => issue'[i] = issue[i]
       /\ IF Destinations(s) = {} THEN issue' = issue
          ELSE \E n \in Destinations(s) : \A i \in UnfinishedOf(s) :
                 /\ milestone'[issue'[i].milestone].sprint = n
                 /\ milestone'[issue'[i].milestone].name = milestone[issue[i].milestone].name
    ]_vars

\* README: activating "completes that project's current one and leaves every
\* other project alone".  A step that changes the state of a project's
\* sprint touches neither the sprints nor the issues of another project.
ProjectsApart ==
  [][\A s, t \in DOMAIN sprint :
       sprint[s].project # sprint[t].project /\ sprint'[s].state # sprint[s].state =>
         /\ sprint'[t] = sprint[t]
         /\ \A i \in IssuesOf(t) : issue'[i] = issue[i]
         /\ MilestonesOf(t) = {m \in DOMAIN milestone' : milestone'[m].sprint = t}]_vars

=============================================================================
