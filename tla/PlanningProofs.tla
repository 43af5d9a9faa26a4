--------------------------- MODULE PlanningProofs ---------------------------
(***************************************************************************)
(* What holds of Planning for tables of any size: foreign keys and types,  *)
(* one active sprint per project, the agreement of an issue's project and  *)
(* milestone, one level of nesting, and frozen reports.                    *)
(***************************************************************************)
EXTENDS Planning, FiniteSetTheorems, TLAPS

\* OneActiveSprint, ProjectAgrees and OneLevelDeep are each inductive once
\* every foreign key is known to point at a row.
IInv == TypeOK /\ OneActiveSprint /\ ProjectAgrees /\ OneLevelDeep

-----------------------------------------------------------------------------
(* Lemmas about the operators. *)

\* A report counts rows of finite tables.
LEMMA ReportType ==
  ASSUME TypeOK, NEW s
  PROVE  Report(s) \in SnapshotRow
<1>1. ASSUME NEW S \in SUBSET DOMAIN milestone PROVE Cardinality(S) \in Nat
  BY <1>1, FS_Subset, FS_CardinalityType, FiniteAssumption DEF TypeOK
<1>2. ASSUME NEW S \in SUBSET DOMAIN issue PROVE Cardinality(S) \in Nat
  BY <1>2, FS_Subset, FS_CardinalityType, FiniteAssumption DEF TypeOK
<1>3. Cardinality({m \in MilestonesOf(s) : milestone[m].status # "cancelled"}) \in Nat
  BY <1>1 DEF MilestonesOf
<1>4. Cardinality({m \in MilestonesOf(s) : milestone[m].status = "completed"}) \in Nat
  BY <1>1 DEF MilestonesOf
<1>5. \A st \in Statuses : Cardinality({i \in IssuesOf(s) : issue[i].status = st}) \in Nat
  BY <1>2 DEF IssuesOf
<1> QED BY <1>3, <1>4, <1>5 DEF Report, SnapshotRow

\* The milestones to carry exist, and lie in the closing sprint.
LEMMA CarriedExist ==
  ASSUME TypeOK, NEW s
  PROVE  \A m \in Carried(s) : m \in DOMAIN milestone /\ milestone[m].sprint = s
BY DEF TypeOK, ReferencesExist, Carried, UnfinishedOf, IssuesOf

\* What carrying the work of s into next does to the two tables.
LEMMA RollForwardEffect ==
  ASSUME TypeOK, NEW s \in DOMAIN sprint, NEW next \in DOMAIN sprint, RollForward(s, next)
  PROVE  /\ DOMAIN milestone \subseteq DOMAIN milestone' /\ DOMAIN milestone' \subseteq Milestones
         /\ milestone' \in [DOMAIN milestone' -> MilestoneRow]
         /\ \A m \in DOMAIN milestone : milestone'[m] = milestone[m]
         /\ \A m \in DOMAIN milestone' \ DOMAIN milestone : milestone'[m].sprint = next
         /\ issue' \in [DOMAIN issue -> IssueRow]
         /\ \A i \in DOMAIN issue : issue'[i].project = issue[i].project
                                      /\ issue'[i].parent = issue[i].parent
         /\ \A i \in DOMAIN issue \ UnfinishedOf(s) : issue'[i] = issue[i]
         /\ \A i \in UnfinishedOf(s) :
              issue'[i] = [issue[i] EXCEPT !.milestone = issue'[i].milestone]
         /\ \A i \in UnfinishedOf(s) :
              /\ issue'[i].milestone \in DOMAIN milestone'
              /\ milestone'[issue'[i].milestone].sprint = next
              /\ milestone'[issue'[i].milestone].name = milestone[issue[i].milestone].name
<1>1. PICK fresh \in Injection(MissingNames(s, next), Milestones \ DOMAIN milestone) :
        /\ milestone' = [m \in DOMAIN milestone \cup Range(fresh) |->
             IF m \in DOMAIN milestone THEN milestone[m]
             ELSE [sprint |-> next, name |-> CHOOSE n \in DOMAIN fresh : fresh[n] = m,
                   status |-> "planned"]]
        /\ \E target \in [Carried(s) -> DOMAIN milestone'] :
             /\ \A m \in Carried(s) : /\ milestone'[target[m]].sprint = next
                                      /\ milestone'[target[m]].name = milestone[m].name
             /\ issue' = [i \in DOMAIN issue |->
                  IF i \in UnfinishedOf(s)
                    THEN [issue[i] EXCEPT !.milestone = target[@]] ELSE issue[i]]
  BY DEF RollForward
<1>2. PICK target \in [Carried(s) -> DOMAIN milestone'] :
             /\ \A m \in Carried(s) : /\ milestone'[target[m]].sprint = next
                                      /\ milestone'[target[m]].name = milestone[m].name
             /\ issue' = [i \in DOMAIN issue |->
                  IF i \in UnfinishedOf(s)
                    THEN [issue[i] EXCEPT !.milestone = target[@]] ELSE issue[i]]
  BY <1>1
<1>3. fresh \in [MissingNames(s, next) -> Milestones \ DOMAIN milestone]
  BY <1>1 DEF Injection
<1>4. MissingNames(s, next) \subseteq Names
  BY CarriedExist DEF MissingNames, TypeOK, MilestoneRow
<1>5. \A m \in Range(fresh) : (CHOOSE n \in DOMAIN fresh : fresh[n] = m) \in Names
  BY <1>3, <1>4 DEF Range
<1>6. Range(fresh) \subseteq Milestones
  BY <1>3 DEF Range
<1>7. /\ DOMAIN milestone \subseteq DOMAIN milestone' /\ DOMAIN milestone' \subseteq Milestones
      /\ \A m \in DOMAIN milestone : milestone'[m] = milestone[m]
      /\ \A m \in DOMAIN milestone' \ DOMAIN milestone : milestone'[m].sprint = next
  BY <1>1, <1>6 DEF TypeOK
<1>8. milestone' \in [DOMAIN milestone' -> MilestoneRow]
  BY <1>1, <1>5, InputsAssumption DEF TypeOK, MilestoneRow
<1>9. ASSUME NEW i \in UnfinishedOf(s)
      PROVE  /\ i \in DOMAIN issue /\ issue[i] \in IssueRow
             /\ issue[i].milestone \in Carried(s)
             /\ target[issue[i].milestone] \in DOMAIN milestone'
             /\ issue'[i] = [issue[i] EXCEPT !.milestone = target[issue[i].milestone]]
             /\ issue'[i].milestone = target[issue[i].milestone]
             /\ issue'[i] \in IssueRow
             /\ issue'[i].project = issue[i].project /\ issue'[i].parent = issue[i].parent
  <2>1. i \in DOMAIN issue /\ issue[i] \in IssueRow /\ issue[i].milestone \in Carried(s)
    BY DEF UnfinishedOf, IssuesOf, Carried, TypeOK
  <2>2. target[issue[i].milestone] \in DOMAIN milestone'
    BY <1>2, <2>1
  <2>3. issue'[i] = [issue[i] EXCEPT !.milestone = target[issue[i].milestone]]
    BY <1>2, <2>1
  <2> QED BY <1>7, <2>1, <2>2, <2>3 DEF IssueRow
<1>10. \A i \in DOMAIN issue \ UnfinishedOf(s) : issue'[i] = issue[i]
  BY <1>2
<1>11. issue' \in [DOMAIN issue -> IssueRow]
  BY <1>2, <1>9, <1>10 DEF TypeOK
<1>12. ASSUME NEW i \in UnfinishedOf(s)
       PROVE  /\ issue'[i] = [issue[i] EXCEPT !.milestone = issue'[i].milestone]
              /\ issue'[i].milestone \in DOMAIN milestone'
              /\ milestone'[issue'[i].milestone].sprint = next
              /\ milestone'[issue'[i].milestone].name = milestone[issue[i].milestone].name
  BY <1>2, <1>9
<1>13. \A i \in DOMAIN issue : /\ issue'[i].project = issue[i].project
                               /\ issue'[i].parent = issue[i].parent
  BY <1>9, <1>10
<1> QED BY <1>7, <1>8, <1>10, <1>11, <1>12, <1>13

\* A sprint is only ever carried into another sprint of its project.
LEMMA NextSprintsExist ==
  ASSUME NEW s \in DOMAIN sprint, NEW next \in NextSprints(s), next # None
  PROVE  next \in DOMAIN sprint \ {s} /\ sprint[next].project = sprint[s].project
BY DEF NextSprints

\* Closing keeps the tables typed, the issues in their project and the
\* sub-issues where they are, provided the caller keeps the sprints' projects.
LEMMA CloseSprintTxKeeps ==
  ASSUME TypeOK, ProjectAgrees, OneLevelDeep, NEW s \in DOMAIN sprint, NEW next,
         next # None => next \in DOMAIN sprint /\ sprint[next].project = sprint[s].project,
         CloseSprintTx(s, next),
         sprint' \in [DOMAIN sprint -> SprintRow],
         \A x \in DOMAIN sprint : sprint'[x].project = sprint[x].project
  PROVE  TypeOK' /\ ProjectAgrees' /\ OneLevelDeep'
<1>1. DOMAIN snapshot' \subseteq DOMAIN sprint /\ snapshot' \in [DOMAIN snapshot' -> SnapshotRow]
  BY ReportType DEF CloseSprintTx, CaptureSnapshot, Put, TypeOK
<1>2. CASE next = None
  <2>1. UNCHANGED <<milestone, issue>>
    BY <1>2 DEF CloseSprintTx
  <2>2. TypeOK'
    BY <1>1, <2>1 DEF TypeOK, ReferencesExist
  <2>3. ProjectAgrees'
    BY <2>1 DEF TypeOK, ReferencesExist, ProjectAgrees, MilestoneProject
  <2> QED BY <2>1, <2>2, <2>3 DEF OneLevelDeep
<1>3. CASE next # None
  <2>1. RollForward(s, next)
    BY <1>3 DEF CloseSprintTx
  <2>2. /\ DOMAIN milestone \subseteq DOMAIN milestone' /\ DOMAIN milestone' \subseteq Milestones
        /\ milestone' \in [DOMAIN milestone' -> MilestoneRow]
        /\ \A m \in DOMAIN milestone : milestone'[m] = milestone[m]
        /\ \A m \in DOMAIN milestone' \ DOMAIN milestone : milestone'[m].sprint = next
    BY <1>3, <2>1, RollForwardEffect
  <2>3. /\ issue' \in [DOMAIN issue -> IssueRow]
        /\ \A i \in DOMAIN issue : issue'[i].project = issue[i].project
                                 /\ issue'[i].parent = issue[i].parent
        /\ \A i \in DOMAIN issue \ UnfinishedOf(s) : issue'[i] = issue[i]
        /\ \A i \in UnfinishedOf(s) : /\ issue'[i].milestone \in DOMAIN milestone'
                                     /\ milestone'[issue'[i].milestone].sprint = next
    <3>1. next \in DOMAIN sprint
      BY <1>3
    <3>2. \A i \in DOMAIN issue \ UnfinishedOf(s) : issue'[i] = issue[i]
      BY <2>1, <3>1, RollForwardEffect
    <3>3. \A i \in UnfinishedOf(s) : /\ issue'[i].milestone \in DOMAIN milestone'
                                     /\ milestone'[issue'[i].milestone].sprint = next
      BY <2>1, <3>1, RollForwardEffect
    <3>4. issue' \in [DOMAIN issue -> IssueRow]
      BY <2>1, <3>1, RollForwardEffect
    <3>5. \A i \in DOMAIN issue : issue'[i].project = issue[i].project
                                 /\ issue'[i].parent = issue[i].parent
      BY <2>1, <3>1, RollForwardEffect
    <3> QED BY <3>2, <3>3, <3>4, <3>5
  <2>4. TypeOK'
    <3>1. \A m \in DOMAIN milestone' : milestone'[m].sprint \in DOMAIN sprint'
      BY <1>3, <2>2 DEF TypeOK
    <3>2. ASSUME NEW i \in DOMAIN issue'
          PROVE  /\ issue'[i].milestone \in DOMAIN milestone' \cup {None}
                 /\ issue'[i].parent \in DOMAIN issue' \cup {None}
      BY <2>2, <2>3 DEF TypeOK, ReferencesExist
    <3>3. /\ DOMAIN sprint' \subseteq Sprints /\ DOMAIN sprint' = DOMAIN sprint
          /\ DOMAIN issue' \subseteq Issues /\ DOMAIN issue' = DOMAIN issue
      BY <2>3 DEF TypeOK
    <3> QED BY <1>1, <2>2, <2>3, <3>1, <3>2, <3>3 DEF TypeOK, ReferencesExist
  <2>5. ASSUME NEW i \in DOMAIN issue', issue'[i].milestone # None
        PROVE  issue'[i].project = sprint'[milestone'[issue'[i].milestone].sprint].project
    <3>1. i \in DOMAIN issue /\ issue'[i].project = issue[i].project
      BY <2>3
    <3>2. CASE i \in UnfinishedOf(s)
      <4>1. issue[i].project = sprint[s].project
        BY <3>2 DEF UnfinishedOf, IssuesOf, ProjectAgrees, MilestoneProject
      <4> QED BY <1>3, <2>3, <3>1, <3>2, <4>1
    <3>3. CASE i \notin UnfinishedOf(s)
      <4>1. issue'[i] = issue[i] /\ issue[i].milestone \in DOMAIN milestone
        BY <2>3, <2>5, <3>1, <3>3 DEF TypeOK, ReferencesExist
      <4>2. milestone'[issue[i].milestone] = milestone[issue[i].milestone]
        BY <2>2, <4>1
      <4>3. issue[i].project = sprint[milestone[issue[i].milestone].sprint].project
        BY <2>5, <3>1, <4>1 DEF ProjectAgrees, MilestoneProject
      <4> QED BY <3>1, <4>1, <4>2, <4>3 DEF TypeOK
    <3> QED BY <3>2, <3>3
  <2>6. OneLevelDeep'
    BY <2>3 DEF OneLevelDeep, TypeOK, ReferencesExist
  <2> QED BY <2>4, <2>5, <2>6 DEF ProjectAgrees, MilestoneProject
<1> QED BY <1>2, <1>3

\* Where an issue is stored, its project is its milestone's.
LEMMA ReconcileAgrees ==
  ASSUME NEW m \in DOMAIN milestone \cup {None}, NEW p, NEW chosen \in BOOLEAN
  PROVE  /\ Reconcile(m, p, chosen).milestone \in {m, None}
         /\ Reconcile(m, p, chosen).milestone # None =>
              Reconcile(m, p, chosen).project
                = MilestoneProject(Reconcile(m, p, chosen).milestone)
BY DEF Reconcile

-----------------------------------------------------------------------------
(* One lemma per action. *)

\* The empty tables.
LEMMA InitIInv == Init => IInv
BY DEF Init, IInv, TypeOK, OneActiveSprint, ProjectAgrees, OneLevelDeep

\* A new sprint is upcoming and has no milestones yet.
LEMMA CreateSprintIInv ==
  ASSUME IInv, NEW s \in Sprints, NEW p \in Projects, NEW date \in Dates,
         CreateSprint(s, p, date)
  PROVE  IInv'
<1>1. TypeOK'
  BY DEF IInv, CreateSprint, Put, TypeOK, SprintRow, SprintStates, ReferencesExist
<1>2. OneActiveSprint'
  BY DEF IInv, CreateSprint, Put, OneActiveSprint
<1>3. ProjectAgrees'
  BY DEF IInv, CreateSprint, Put, TypeOK, ReferencesExist, ProjectAgrees, MilestoneProject
<1>4. OneLevelDeep'
  BY DEF IInv, CreateSprint, OneLevelDeep
<1> QED BY <1>1, <1>2, <1>3, <1>4 DEF IInv

\* Dates matter to nothing but the choice of the next sprint.
LEMMA UpdateSprintIInv ==
  ASSUME IInv, NEW s \in Sprints, NEW date \in Dates, UpdateSprint(s, date)
  PROVE  IInv'
<1>1. TypeOK'
  BY DEF IInv, UpdateSprint, TypeOK, SprintRow, SprintStates, ReferencesExist
<1>2. OneActiveSprint'
  BY DEF IInv, UpdateSprint, TypeOK, SprintRow, OneActiveSprint
<1>3. ProjectAgrees'
  BY DEF IInv, UpdateSprint, TypeOK, SprintRow, ReferencesExist, ProjectAgrees, MilestoneProject
<1>4. OneLevelDeep'
  BY DEF IInv, UpdateSprint, OneLevelDeep
<1> QED BY <1>1, <1>2, <1>3, <1>4 DEF IInv

\* Closing only removes an active sprint, and carries within the project.
LEMMA CloseSprintIInv ==
  ASSUME IInv, NEW s \in Sprints, CloseSprint(s)
  PROVE  IInv'
<1>1. s \in DOMAIN sprint /\ sprint' = [sprint EXCEPT ![s].state = "completed"]
  BY DEF CloseSprint
<1>2. /\ sprint' \in [DOMAIN sprint -> SprintRow]
      /\ \A x \in DOMAIN sprint : sprint'[x].project = sprint[x].project
  BY <1>1 DEF IInv, TypeOK, SprintRow, SprintStates
<1>3. PICK next \in NextSprints(s) : CloseSprintTx(s, next)
  BY DEF CloseSprint
<1>4. TypeOK' /\ ProjectAgrees' /\ OneLevelDeep'
  BY <1>1, <1>2, <1>3, NextSprintsExist, CloseSprintTxKeeps DEF IInv
<1>5. OneActiveSprint'
  BY <1>1 DEF IInv, OneActiveSprint, TypeOK, SprintRow
<1> QED BY <1>4, <1>5 DEF IInv

\* The sprint that was active in the project is completed in the same step.
LEMMA ActivateSprintIInv ==
  ASSUME IInv, NEW s \in Sprints, ActivateSprint(s)
  PROVE  IInv'
<1> DEFINE previous == {o \in DOMAIN sprint \ {s} :
                          sprint[o].state = "active" /\ sprint[o].project = sprint[s].project}
<1>1. s \in DOMAIN sprint
  BY DEF ActivateSprint
<1>2. CASE /\ previous = {}
           /\ sprint' = [sprint EXCEPT ![s].state = "active"]
           /\ UNCHANGED <<milestone, issue, snapshot>>
  <2>1. TypeOK'
    BY <1>1, <1>2 DEF IInv, TypeOK, SprintRow, SprintStates, ReferencesExist
  <2>2. OneActiveSprint'
    BY <1>1, <1>2 DEF IInv, OneActiveSprint, TypeOK, SprintRow
  <2>3. ProjectAgrees'
    BY <1>1, <1>2 DEF IInv, TypeOK, SprintRow, ReferencesExist, ProjectAgrees, MilestoneProject
  <2>4. OneLevelDeep'
    BY <1>2 DEF IInv, OneLevelDeep
  <2> QED BY <2>1, <2>2, <2>3, <2>4 DEF IInv
<1>3. ASSUME NEW o \in previous,
             sprint' = [sprint EXCEPT ![o].state = "completed", ![s].state = "active"],
             CloseSprintTx(o, s)
      PROVE  IInv'
  <2>1. /\ sprint' \in [DOMAIN sprint -> SprintRow]
        /\ \A x \in DOMAIN sprint : sprint'[x].project = sprint[x].project
    BY <1>1, <1>3 DEF IInv, TypeOK, SprintRow, SprintStates
  <2>2. TypeOK' /\ ProjectAgrees' /\ OneLevelDeep'
    BY <1>1, <1>3, <2>1, CloseSprintTxKeeps DEF IInv
  <2>3. OneActiveSprint'
    BY <1>1, <1>3 DEF IInv, OneActiveSprint, TypeOK, SprintRow
  <2> QED BY <2>2, <2>3 DEF IInv
<1> QED BY <1>2, <1>3 DEF ActivateSprint

\* A new milestone holds no issues.
LEMMA CreateMilestoneIInv ==
  ASSUME IInv, NEW m \in Milestones, NEW s \in Sprints, NEW name \in Names,
         CreateMilestone(m, s, name)
  PROVE  IInv'
<1>1. TypeOK'
  BY InputsAssumption DEF IInv, CreateMilestone, Put, TypeOK, MilestoneRow, ReferencesExist
<1>2. ProjectAgrees'
  BY DEF IInv, CreateMilestone, Put, TypeOK, ReferencesExist, ProjectAgrees, MilestoneProject
<1> QED BY <1>1, <1>2 DEF IInv, CreateMilestone, OneActiveSprint, OneLevelDeep

\* A milestone stays in its sprint.
LEMMA UpdateMilestoneIInv ==
  ASSUME IInv, NEW m \in Milestones, NEW name \in Names, NEW status \in MilestoneStatuses,
         UpdateMilestone(m, name, status)
  PROVE  IInv'
<1>1. TypeOK'
  BY DEF IInv, UpdateMilestone, TypeOK, MilestoneRow, ReferencesExist
<1>2. ProjectAgrees'
  BY DEF IInv, UpdateMilestone, TypeOK, MilestoneRow, ReferencesExist, ProjectAgrees, MilestoneProject
<1> QED BY <1>1, <1>2 DEF IInv, UpdateMilestone, OneActiveSprint, OneLevelDeep

\* Creating or patching an issue stores a row that Reconcile placed and the
\* trigger admitted.
LEMMA StoreIssueIInv ==
  ASSUME IInv, NEW i \in Issues, NEW m, NEW p \in Projects \cup {None},
         NEW chosen \in BOOLEAN, NEW status \in Statuses, NEW parent,
         ReferencesExist(m, parent), DepthGuard(i, parent),
         StoreIssue(i, m, p, chosen, status, parent),
         UNCHANGED <<sprint, milestone, snapshot>>
  PROVE  IInv'
<1> DEFINE placed == Reconcile(m, p, chosen)
           row == [project |-> placed.project, milestone |-> placed.milestone,
                   status |-> status, parent |-> parent]
<1>1. /\ issue' = Put(issue, i, row)
      /\ DOMAIN issue' = DOMAIN issue \cup {i} /\ issue'[i] = row
      /\ \A j \in DOMAIN issue \ {i} : issue'[j] = issue[j]
  <2>1. issue' = Put(issue, i, row)
    BY DEF StoreIssue
  <2> HIDE DEF row
  <2> QED BY <2>1 DEF Put
<1>2. /\ placed.milestone \in DOMAIN milestone \cup {None}
      /\ placed.project \in Projects \cup {None}
      /\ placed.milestone # None => placed.project = MilestoneProject(placed.milestone)
  BY DEF ReferencesExist, Reconcile, MilestoneProject, IInv, TypeOK, SprintRow
<1>3. row \in IssueRow
  BY <1>2 DEF IInv, TypeOK, IssueRow, ReferencesExist
<1>4. TypeOK'
  BY <1>1, <1>2, <1>3 DEF IInv, TypeOK, ReferencesExist, Put
<1>5. ProjectAgrees'
  BY <1>1, <1>2 DEF IInv, ProjectAgrees, MilestoneProject
<1>6. OneLevelDeep'
  BY <1>1 DEF IInv, TypeOK, OneLevelDeep, DepthGuard, ReferencesExist
<1> QED BY <1>4, <1>5, <1>6 DEF IInv, OneActiveSprint

-----------------------------------------------------------------------------
(* The theorems. *)

\* Every operation keeps the invariant.
LEMMA NextIInv == IInv /\ [Next]_vars => IInv'
<1> SUFFICES ASSUME IInv, [Next]_vars PROVE IInv'
  OBVIOUS
<1>1. ASSUME NEW s \in Sprints, NEW p \in Projects, NEW date \in Dates,
             CreateSprint(s, p, date)
      PROVE  IInv'
  BY <1>1, CreateSprintIInv
<1>2. ASSUME NEW s \in Sprints, NEW date \in Dates, UpdateSprint(s, date)
      PROVE  IInv'
  BY <1>2, UpdateSprintIInv
<1>3. ASSUME NEW s \in Sprints, ActivateSprint(s) \/ CloseSprint(s)
      PROVE  IInv'
  BY <1>3, ActivateSprintIInv, CloseSprintIInv
<1>4. ASSUME NEW m \in Milestones, NEW name \in Names,
             \/ \E s \in Sprints : CreateMilestone(m, s, name)
             \/ \E status \in MilestoneStatuses : UpdateMilestone(m, name, status)
      PROVE  IInv'
  BY <1>4, CreateMilestoneIInv, UpdateMilestoneIInv
<1>5. ASSUME NEW i \in Issues, NEW m \in Milestones \cup {None},
             NEW p \in Projects \cup {None}, NEW status \in Statuses, NEW parent \in Parents,
             CreateIssue(i, m, p, status, parent) \/ UpdateIssue(i, m, p, status, parent)
      PROVE  IInv'
  <2>1. CASE CreateIssue(i, m, p, status, parent)
    BY <2>1, StoreIssueIInv DEF CreateIssue
  <2>2. CASE UpdateIssue(i, m, p, status, parent)
    <3>1. (m # issue[i].milestone) \in BOOLEAN
      OBVIOUS
    <3> QED BY <2>2, <3>1, StoreIssueIInv DEF UpdateIssue
  <2> QED BY <1>5, <2>1, <2>2
<1>6. CASE UNCHANGED vars
  BY <1>6 DEF vars, IInv, TypeOK, OneActiveSprint, ProjectAgrees, OneLevelDeep,
       MilestoneProject, ReferencesExist
<1> QED BY <1>1, <1>2, <1>3, <1>4, <1>5, <1>6 DEF
       Next, HandleCreateSprint, HandleUpdateSprint, MutateSprint, HandleCreateMilestone,
       HandleUpdateMilestone, HandleCreateIssue, HandleUpdateIssue

\* The invariant holds in every reachable state.
THEOREM Invariance == Spec => []IInv
BY InitIInv, NextIInv, PTL DEF Spec

\* Types and foreign keys, for tables of any size.
THEOREM TypeCorrect == Spec => []TypeOK
<1>1. IInv => TypeOK
  BY DEF IInv
<1> QED BY <1>1, Invariance, PTL

\* At most one active sprint per project, without the unique index.
THEOREM SingleActive == Spec => []OneActiveSprint
<1>1. IInv => OneActiveSprint
  BY DEF IInv
<1> QED BY <1>1, Invariance, PTL

\* An issue's project and milestone always agree.
THEOREM Agreement == Spec => []ProjectAgrees
<1>1. IInv => ProjectAgrees
  BY DEF IInv
<1> QED BY <1>1, Invariance, PTL

\* Sub-issues never nest below one level.
THEOREM Nesting == Spec => []OneLevelDeep
<1>1. IInv => OneLevelDeep
  BY DEF IInv
<1> QED BY <1>1, Invariance, PTL

\* No operation changes a report once it is stored.
LEMMA StepKeepsSnapshots ==
  ASSUME [Next]_vars, NEW s \in DOMAIN snapshot
  PROVE  s \in DOMAIN snapshot' /\ snapshot'[s] = snapshot[s]
<1>1. ASSUME NEW o \in Sprints, ActivateSprint(o) \/ CloseSprint(o)
      PROVE  s \in DOMAIN snapshot' /\ snapshot'[s] = snapshot[s]
  BY ZenonT(40), <1>1 DEF ActivateSprint, CloseSprint, CloseSprintTx, CaptureSnapshot, Put
<1>2. CASE UNCHANGED snapshot
  BY <1>2
<1> QED BY <1>1, <1>2 DEF
       Next, HandleCreateSprint, HandleUpdateSprint, MutateSprint, HandleCreateMilestone,
       HandleUpdateMilestone, HandleCreateIssue, HandleUpdateIssue, vars, CreateSprint, UpdateSprint, CreateMilestone,
         UpdateMilestone, CreateIssue, UpdateIssue

\* A report, once frozen, is frozen for good.
THEOREM FrozenReports == Spec => SnapshotFrozen
<1>1. [Next]_vars => [\A s \in DOMAIN snapshot :
                        s \in DOMAIN snapshot' /\ snapshot'[s] = snapshot[s]]_vars
  BY StepKeepsSnapshots
<1> QED BY <1>1, PTL DEF Spec, SnapshotFrozen

-----------------------------------------------------------------------------
(* Where unfinished work goes when a sprint completes. *)

\* What the closing transaction does to the issues, with and without a next
\* sprint.
LEMMA CloseSprintTxCarries ==
  ASSUME TypeOK, NEW s \in DOMAIN sprint, NEW next,
         next # None => next \in DOMAIN sprint, CloseSprintTx(s, next)
  PROVE  /\ DOMAIN issue' = DOMAIN issue
         /\ \A i \in DOMAIN issue :
              issue'[i] = [issue[i] EXCEPT !.milestone = issue'[i].milestone]
         /\ \A i \in DOMAIN issue \ UnfinishedOf(s) : issue'[i] = issue[i]
         /\ next = None => issue' = issue
         /\ next # None => \A i \in UnfinishedOf(s) :
              /\ milestone'[issue'[i].milestone].sprint = next
              /\ milestone'[issue'[i].milestone].name = milestone[issue[i].milestone].name
<1>1. \A i \in DOMAIN issue : issue[i] = [issue[i] EXCEPT !.milestone = issue[i].milestone]
  BY DEF TypeOK, IssueRow
<1>2. CASE next = None
  BY <1>1, <1>2 DEF CloseSprintTx
<1>3. CASE next # None
  <2>1. RollForward(s, next) /\ next \in DOMAIN sprint
    BY <1>3 DEF CloseSprintTx
  <2>2. issue' \in [DOMAIN issue -> IssueRow]
    BY <2>1, RollForwardEffect
  <2>3. \A i \in DOMAIN issue \ UnfinishedOf(s) : issue'[i] = issue[i]
    BY <2>1, RollForwardEffect
  <2>4. \A i \in UnfinishedOf(s) : issue'[i] = [issue[i] EXCEPT !.milestone = issue'[i].milestone]
    BY <2>1, RollForwardEffect
  <2>5. \A i \in UnfinishedOf(s) :
          /\ milestone'[issue'[i].milestone].sprint = next
          /\ milestone'[issue'[i].milestone].name = milestone[issue[i].milestone].name
    BY <2>1, RollForwardEffect
  <2>6. \A i \in DOMAIN issue : issue'[i] = [issue[i] EXCEPT !.milestone = issue'[i].milestone]
    <3> SUFFICES ASSUME NEW i \in DOMAIN issue
                 PROVE  issue'[i] = [issue[i] EXCEPT !.milestone = issue'[i].milestone]
      OBVIOUS
    <3>1. CASE i \in UnfinishedOf(s)
      BY <2>4, <3>1
    <3>2. CASE i \notin UnfinishedOf(s)
      BY <1>1, <2>3, <3>2
    <3> QED BY <3>1, <3>2
  <2> QED BY <1>3, <2>2, <2>3, <2>5, <2>6
<1> QED BY <1>2, <1>3

\* CarryUnfinished of one sprint, without its quantifier.
CarriedFrom(s) ==
  /\ DOMAIN issue' = DOMAIN issue
  /\ \A i \in DOMAIN issue :
       /\ issue'[i] = [issue[i] EXCEPT !.milestone = issue'[i].milestone]
       /\ i \notin UnfinishedOf(s) => issue'[i] = issue[i]
  /\ IF Destinations(s) = {} THEN issue' = issue
     ELSE \E n \in Destinations(s) : \A i \in UnfinishedOf(s) :
            /\ milestone'[issue'[i].milestone].sprint = n
            /\ milestone'[issue'[i].milestone].name = milestone[issue[i].milestone].name

\* Closing carries to the project's earliest upcoming sprint, or nowhere.
LEMMA CloseSprintCarries ==
  ASSUME IInv, NEW c \in Sprints, CloseSprint(c), NEW s \in DOMAIN sprint,
         sprint[s].state # "completed", sprint'[s].state = "completed"
  PROVE  CarriedFrom(s)
<1>1. s = c /\ sprint' = [sprint EXCEPT ![s].state = "completed"]
  BY DEF CloseSprint, IInv, TypeOK, SprintRow
<1>2. PICK next \in NextSprints(s) : CloseSprintTx(s, next)
  BY <1>1 DEF CloseSprint
<1>3. next # None => next \in DOMAIN sprint
  BY <1>2, NextSprintsExist
<1>4. \A n \in DOMAIN sprint \ {s} : ~Activating(n)
  BY <1>1 DEF Activating, IInv, TypeOK
<1>5. IF next = None THEN Destinations(s) = {} ELSE next \in Destinations(s)
  BY <1>2, <1>4, NoneAssumption DEF NextSprints, Destinations, IInv, TypeOK
<1> QED BY <1>2, <1>3, <1>5, CloseSprintTxCarries DEF CarriedFrom, IInv

\* Activating carries from the project's active sprint to the activated one.
LEMMA ActivateSprintCarries ==
  ASSUME IInv, NEW a \in Sprints, ActivateSprint(a), NEW s \in DOMAIN sprint,
         sprint[s].state # "completed", sprint'[s].state = "completed"
  PROVE  CarriedFrom(s)
<1>1. /\ a \in DOMAIN sprint \ {s}
      /\ sprint[s].state = "active" /\ sprint[s].project = sprint[a].project
      /\ sprint' = [sprint EXCEPT ![s].state = "completed", ![a].state = "active"]
      /\ CloseSprintTx(s, a)
  BY DEF ActivateSprint, IInv, TypeOK, SprintRow
<1>2. a # None
  BY NoneAssumption
<1>3. sprint[a].state # "active" /\ sprint'[a].state = "active"
  BY <1>1 DEF IInv, OneActiveSprint, TypeOK, SprintRow
<1>4. a \in Destinations(s)
  BY <1>1, <1>3 DEF Destinations, Activating
<1> QED BY <1>1, <1>2, <1>4, CloseSprintTxCarries DEF CarriedFrom, IInv

\* Unfinished work always follows its project to the next sprint, whole.
THEOREM CarryForward == Spec => CarryUnfinished
<1>1. IInv /\ [Next]_vars =>
        [\A s \in DOMAIN sprint : sprint[s].state # "completed" /\ sprint'[s].state = "completed"
           => CarriedFrom(s)]_vars
  <2> SUFFICES ASSUME IInv, Next, NEW s \in DOMAIN sprint,
                      sprint[s].state # "completed", sprint'[s].state = "completed"
               PROVE  CarriedFrom(s)
    OBVIOUS
  <2>1. CASE \E c \in Sprints : ActivateSprint(c) \/ CloseSprint(c)
    BY <2>1, ActivateSprintCarries, CloseSprintCarries
  <2>2. CASE \E x \in Sprints, date \in Dates :
               UpdateSprint(x, date) \/ \E p \in Projects : CreateSprint(x, p, date)
    BY <2>2 DEF UpdateSprint, CreateSprint, Put, IInv, TypeOK, SprintRow
  <2>3. CASE UNCHANGED sprint
    BY <2>3
  <2> QED BY <2>1, <2>2, <2>3 DEF
       Next, HandleCreateSprint, HandleUpdateSprint, MutateSprint, HandleCreateMilestone,
       HandleUpdateMilestone, HandleCreateIssue, HandleUpdateIssue, CreateMilestone, UpdateMilestone, CreateIssue, UpdateIssue
<1> QED BY <1>1, Invariance, PTL DEF Spec, CarryUnfinished, CarriedFrom

-----------------------------------------------------------------------------
(* Projects do not disturb each other. *)

\* A closing leaves the issues and milestones of every sprint alone but those
\* of the sprint that closes and of the one that its work goes to.
LEMMA CloseSprintTxApart ==
  ASSUME TypeOK, NEW s \in DOMAIN sprint, NEW next,
         next # None => next \in DOMAIN sprint, CloseSprintTx(s, next),
         NEW t \in DOMAIN sprint, t # s, t # next
  PROVE  /\ \A i \in IssuesOf(t) : issue'[i] = issue[i]
         /\ MilestonesOf(t) = {m \in DOMAIN milestone' : milestone'[m].sprint = t}
<1>1. CASE next = None
  BY <1>1 DEF CloseSprintTx, MilestonesOf
<1>2. CASE next # None
  <2>1. RollForward(s, next) /\ next \in DOMAIN sprint
    BY <1>2 DEF CloseSprintTx
  <2>2. /\ DOMAIN milestone \subseteq DOMAIN milestone'
        /\ \A m \in DOMAIN milestone : milestone'[m] = milestone[m]
        /\ \A m \in DOMAIN milestone' \ DOMAIN milestone : milestone'[m].sprint = next
    BY <2>1, RollForwardEffect
  <2>3. \A i \in DOMAIN issue \ UnfinishedOf(s) : issue'[i] = issue[i]
    BY <2>1, RollForwardEffect
  <2>4. \A i \in IssuesOf(t) : i \in DOMAIN issue /\ i \notin UnfinishedOf(s)
    BY DEF IssuesOf, UnfinishedOf
  <2> QED
    BY <2>2, <2>3, <2>4 DEF MilestonesOf
<1> QED
  BY <1>1, <1>2

\* ProjectsApart of two sprints, without its quantifier.
LeftAlone(t) ==
  /\ sprint'[t] = sprint[t]
  /\ \A i \in IssuesOf(t) : issue'[i] = issue[i]
  /\ MilestonesOf(t) = {m \in DOMAIN milestone' : milestone'[m].sprint = t}

LEMMA CloseSprintApart ==
  ASSUME IInv, NEW c \in Sprints, CloseSprint(c), NEW s \in DOMAIN sprint, NEW t \in DOMAIN sprint,
         sprint[s].project # sprint[t].project, sprint'[s].state # sprint[s].state
  PROVE  LeftAlone(t)
<1>1. s = c /\ sprint' = [sprint EXCEPT ![s].state = "completed"]
  BY DEF CloseSprint, IInv, TypeOK
<1>2. PICK next \in NextSprints(s) : CloseSprintTx(s, next)
  BY <1>1 DEF CloseSprint
<1>3. next # None => next \in DOMAIN sprint /\ sprint[next].project = sprint[s].project
  BY <1>2, NextSprintsExist
<1>4. t # s /\ t # next /\ sprint'[t] = sprint[t]
  <2>1. t # s
    OBVIOUS
  <2>2. t # next
    BY <1>3, NoneAssumption DEF IInv, TypeOK
  <2> QED
    BY <1>1, <2>1, <2>2
<1> QED
  BY <1>2, <1>3, <1>4, CloseSprintTxApart DEF LeftAlone, IInv

LEMMA ActivateSprintApart ==
  ASSUME IInv, NEW a \in Sprints, ActivateSprint(a), NEW s \in DOMAIN sprint,
         NEW t \in DOMAIN sprint,
         sprint[s].project # sprint[t].project, sprint'[s].state # sprint[s].state
  PROVE  LeftAlone(t)
<1>1. CASE sprint' = [sprint EXCEPT ![a].state = "active"] /\ UNCHANGED <<milestone, issue, snapshot>>
  <2>1. s = a
    BY <1>1 DEF IInv, TypeOK
  <2> QED
    BY <1>1, <2>1 DEF LeftAlone, MilestonesOf, IInv, TypeOK
<1>2. ASSUME NEW o \in DOMAIN sprint \ {a}, sprint[o].project = sprint[a].project,
             sprint' = [sprint EXCEPT ![o].state = "completed", ![a].state = "active"],
             CloseSprintTx(o, a), a \in DOMAIN sprint
      PROVE  LeftAlone(t)
  <2>1. s = a \/ s = o
    BY <1>2 DEF IInv, TypeOK
  <2>2. t # a /\ t # o
    BY <1>2, <2>1
  <2>3. sprint'[t] = sprint[t]
    BY <1>2, <2>2 DEF IInv, TypeOK
  <2> QED
    BY <1>2, <2>2, <2>3, CloseSprintTxApart DEF LeftAlone, IInv
<1> QED
  BY <1>1, <1>2 DEF ActivateSprint

\* Closing or activating a sprint touches neither the sprints nor the issues
\* nor the milestones of another project.
THEOREM ProjectsStayApart == Spec => ProjectsApart
<1>1. IInv /\ [Next]_vars =>
        [\A s, t \in DOMAIN sprint :
           sprint[s].project # sprint[t].project /\ sprint'[s].state # sprint[s].state
             => LeftAlone(t)]_vars
  <2> SUFFICES ASSUME IInv, Next, NEW s \in DOMAIN sprint, NEW t \in DOMAIN sprint,
                      sprint[s].project # sprint[t].project, sprint'[s].state # sprint[s].state
               PROVE  LeftAlone(t)
    OBVIOUS
  <2>1. CASE \E c \in Sprints : ActivateSprint(c) \/ CloseSprint(c)
    BY <2>1, ActivateSprintApart, CloseSprintApart
  <2>2. CASE \E x \in Sprints, date \in Dates :
               UpdateSprint(x, date) \/ \E p \in Projects : CreateSprint(x, p, date)
    BY <2>2 DEF UpdateSprint, CreateSprint, Put, IInv, TypeOK, SprintRow
  <2>3. CASE UNCHANGED sprint
    BY <2>3
  <2> QED BY <2>1, <2>2, <2>3 DEF
       Next, HandleCreateSprint, HandleUpdateSprint, MutateSprint, HandleCreateMilestone,
       HandleUpdateMilestone, HandleCreateIssue, HandleUpdateIssue, CreateMilestone,
       UpdateMilestone, CreateIssue, UpdateIssue
<1> QED BY <1>1, Invariance, PTL DEF Spec, ProjectsApart, LeftAlone

=============================================================================
