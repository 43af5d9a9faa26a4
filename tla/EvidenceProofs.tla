--------------------------- MODULE EvidenceProofs ---------------------------
(***************************************************************************)
(* What holds of Evidence for any numbers of pull requests, notes,         *)
(* commits, issues, loops and people, and however long the clock runs: no  *)
(* pull request is missed, the newest version wins, and no step of a       *)
(* worker takes the place of what a person decided.                        *)
(***************************************************************************)
EXTENDS Evidence, TLAPS

\* Nothing that was changed or synchronised is ahead of the clock.
Past ==
  /\ \A w \in Work : github[w] # None => github[w].work = w /\ github[w].at <= clock
  /\ repo.synced # None => repo.synced <= clock

\* A change that a reconciliation which began at this time may have read.
SettledBy(w, time) == github[w].at < Second(time)

\* A reconciliation still lists, or holds in its listing, whatever Velvet is
\* behind on and GitHub had before it began, as long as it may write at all.
Window(t) ==
  /\ task[t].pc = "list" => task[t].started # None
  /\ task[t].pc \in {"list", "write"} =>
       /\ task[t].gen <= repo.gen
       /\ task[t].started # None => task[t].started <= clock
  /\ task[t].pc = "list" =>
       \A w \in Work : Behind(w) /\ SettledBy(w, task[t].started)
                         => github[w].at >= task[t].since
  /\ task[t].pc = "write" /\ task[t].started # None /\ Fenced(t) =>
       \A w \in Work : Behind(w) /\ SettledBy(w, task[t].started)
                         => github[w] \in task[t].todo

Windows == \A t \in Loops : Window(t)

IInv == TypeOK /\ Past /\ Windows /\ NothingMissed


-----------------------------------------------------------------------------
(* Lemmas about the operators. *)

\* A timestamp is the whole second, so it is less than one second old.
LEMMA SecondBounds ==
  ASSUME NEW time \in Nat
  PROVE  Second(time) \in Nat /\ Second(time) <= time /\ time <= Second(time) + 1
BY DEF Second

\* Where a loop is says what it holds.
LEMMA TaskKinds ==
  ASSUME TypeOK, NEW t \in Loops
  PROVE  /\ task[t].pc \in {"list", "write"} => task[t] \in Sync
         /\ task[t].pc = "push" => task[t] \in Push
         /\ task[t].pc \in {"subject", "asked"} =>
              /\ task[t].work \in Work /\ task[t].fingerprint \in Titles
         /\ task[t].pc = "asked" => task[t].candidates \subseteq Issues
         /\ task[t].pc # "idle" => task[t] # Idle
<1>1. task[t] \in {Idle} \cup Sync \cup Push \cup Question
  BY DEF TypeOK
<1>2. CASE task[t] \in Sync
  BY <1>2 DEF Sync, Idle
<1>3. CASE task[t] \in Push
  BY <1>3 DEF Push, Idle
<1>4. CASE task[t] \in Question
  BY <1>4 DEF Question, Idle
<1>5. CASE task[t] = Idle
  BY <1>5 DEF Idle
<1> QED
  BY <1>1, <1>2, <1>3, <1>4, <1>5

\* A row is None or a row.
LEMMA RowKinds ==
  ASSUME TypeOK, NEW w \in Work
  PROVE  /\ work[w] # None => work[w] \in Row /\ work[w].at \in Nat /\ work[w].title \in Titles
         /\ github[w] # None => github[w] \in Version
         /\ suggestion[w] # None => suggestion[w] \in Suggestion
BY DEF TypeOK, Row

\* What is written of a version is a row at least as new as the version and
\* as the row it replaces.
LEMMA UpsertType ==
  ASSUME TypeOK, NEW v \in Version
  PROVE  /\ Upsert(v) \in Row
         /\ Upsert(v).at >= v.at
         /\ work[v.work] # None => Upsert(v).at >= work[v.work].at
<1>1. v.work \in Work /\ v.title \in Titles /\ v.at \in Nat
  BY DEF Version
<1>2. work[v.work] # None => work[v.work] \in Row /\ work[v.work].at \in Nat
  BY <1>1, RowKinds
<1>3. CASE work[v.work] = None \/ v.at >= work[v.work].at
  BY <1>1, <1>2, <1>3 DEF Upsert, Row
<1>4. CASE ~(work[v.work] = None \/ v.at >= work[v.work].at)
  BY <1>1, <1>2, <1>4 DEF Upsert, Row
<1> QED
  BY <1>3, <1>4

-----------------------------------------------------------------------------
(* Types. *)

LEMMA TypeInit == Init => TypeOK
<1> SUFFICES ASSUME Init PROVE TypeOK
  OBVIOUS
<1>1. suggestion \in [Work -> Suggestion \cup {None}] /\ page \in [People -> [work: Work, issue: Issues] \cup {None}]
  BY DEF Init
<1>2. task \in [Loops -> {Idle} \cup Sync \cup Push \cup Question]
  BY DEF Init
<1>3. repo \in [gen: Nat, active: BOOLEAN, synced: Nat \cup {None}]
  BY DEF Init
<1>4. filed \in [Work -> [Issues -> Sources]] /\ issue \in [Issues -> {"none", "open", "closed"}]
  BY DEF Init, Sources
<1>5. commit \in [Work -> CommitRow]
  BY DEF Init, CommitRow
<1> QED
  BY <1>1, <1>2, <1>3, <1>4, <1>5 DEF Init, TypeOK

LEMMA SinceType == ASSUME TypeOK PROVE Since \in Int
BY DEF Since, TypeOK

LEMMA BeginTypes ==
  ASSUME TypeOK, NEW t \in Loops, NEW locals \in Sync \cup Push \cup Question, Begin(t, locals)
  PROVE  TypeOK'
BY DEF Begin, TypeOK

LEMMA HandlerTypes ==
  ASSUME TypeOK, NEW t \in Loops
  PROVE  /\ \A v \in sent : HandlePullRequest(t, v) => TypeOK'
         /\ \A w \in Work : HandleReview(t, w) \/ HandlePush(t, w) => TypeOK'
         /\ ReconcileRepo(t) => TypeOK'
         /\ \A w \in Work : StaleSuggestionSubjects(t, w) => TypeOK'
<1>0. repo.gen \in Nat
  BY DEF TypeOK
<1>1. ASSUME NEW v \in sent, HandlePullRequest(t, v) PROVE TypeOK'
  <2>1. v \in Version
    BY DEF TypeOK
  <2>2. [pc |-> "write", gen |-> repo.gen, started |-> None, since |-> 0, todo |-> {v}] \in Sync
    BY <1>0, <2>1 DEF Sync
  <2> QED
    BY <1>1, <2>2, BeginTypes DEF HandlePullRequest
<1>2. ASSUME NEW w \in Work, HandleReview(t, w) PROVE TypeOK'
  <2>1. github[w] \in Version
    BY <1>2, RowKinds DEF HandleReview
  <2>2. [pc |-> "write", gen |-> repo.gen, started |-> None, since |-> 0,
         todo |-> {github[w]}] \in Sync
    BY <1>0, <2>1 DEF Sync
  <2> QED
    BY <1>2, <2>2, BeginTypes DEF HandleReview
<1>3. ASSUME NEW w \in Work, HandlePush(t, w) PROVE TypeOK'
  <2>1. Branch[w] \in Issues \cup {None}
    BY BranchAssumption
  <2>2. [pc |-> "push", gen |-> repo.gen, work |-> w,
         issue |-> IF Branch[w] # None /\ issue[Branch[w]] # "none"
                     THEN Branch[w] ELSE None] \in Push
    BY <1>0, <2>1 DEF Push
  <2> QED
    BY <1>3, <2>2, BeginTypes DEF HandlePush
<1>4. ASSUME ReconcileRepo(t) PROVE TypeOK'
  <2>1. [pc |-> "list", gen |-> repo.gen, started |-> clock, since |-> Since, todo |-> {}] \in Sync
    BY <1>0, SinceType DEF Sync, TypeOK
  <2> QED
    BY <1>4, <2>1, BeginTypes DEF ReconcileRepo
<1>5. ASSUME NEW w \in Work, StaleSuggestionSubjects(t, w) PROVE TypeOK'
  <2>1. work[w].title \in Titles
    BY <1>5, RowKinds DEF StaleSuggestionSubjects, Unfiled
  <2>2. [pc |-> "subject", work |-> w, fingerprint |-> work[w].title] \in Question
    BY <2>1 DEF Question
  <2> QED
    BY <1>5, <2>2, BeginTypes DEF StaleSuggestionSubjects
<1> QED
  BY <1>1, <1>2, <1>3, <1>4, <1>5

LEMMA SyncTypes ==
  ASSUME TypeOK, NEW t \in Loops
  PROVE  /\ ListPullRequests(t) => TypeOK'
         /\ \A v \in task[t].todo : SyncPullRequest(t, v) => TypeOK'
         /\ SyncCommit(t) \/ FinishReconcile(t) \/ Abandon(t) => TypeOK'
<1>1. ASSUME ListPullRequests(t) PROVE TypeOK'
  <2>1. PICK skipped \in SUBSET {w \in Work : github[w] # None
                                             /\ github[w].at >= Second(task[t].started)} :
          task' = [task EXCEPT ![t] = [task[t] EXCEPT !.pc = "write", !.todo =
            {github[w] : w \in {x \in Work \ skipped :
                                  github[x] # None /\ github[x].at >= task[t].since}}]]
    BY <1>1 DEF ListPullRequests
  <2> DEFINE listing == {github[w] : w \in {x \in Work \ skipped :
                           github[x] # None /\ github[x].at >= task[t].since}}
  <2>2. listing \subseteq Version
    BY RowKinds
  <2>3. task[t] \in Sync
    BY <1>1, TaskKinds DEF ListPullRequests
  <2>4. [task[t] EXCEPT !.pc = "write", !.todo = listing] \in Sync
    BY <2>2, <2>3 DEF Sync
  <2>5. task' \in [Loops -> {Idle} \cup Sync \cup Push \cup Question]
    BY <2>1, <2>4 DEF TypeOK
  <2> QED
    BY <1>1, <2>5 DEF ListPullRequests, TypeOK
<1>2. ASSUME NEW v \in task[t].todo, SyncPullRequest(t, v) PROVE TypeOK'
  <2>1. task[t] \in Sync
    BY <1>2, TaskKinds DEF SyncPullRequest
  <2>2. v \in Version /\ v.work \in Work
    BY <2>1 DEF Sync, Version
  <2>3. work' \in [Work -> Row \cup {None}]
    BY <1>2, <2>2, UpsertType DEF SyncPullRequest, TypeOK
  <2>4. Linked(v.work, Upsert(v).title) \in [Issues -> Sources]
    BY <2>2 DEF Linked, TypeOK, Sources
  <2>5. filed' \in [Work -> [Issues -> Sources]]
    BY <1>2, <2>2, <2>4 DEF SyncPullRequest, TypeOK
  <2>6. [task[t] EXCEPT !.todo = task[t].todo \ {v}] \in Sync
    BY <2>1 DEF Sync
  <2>7. task' \in [Loops -> {Idle} \cup Sync \cup Push \cup Question]
    BY <1>2, <2>6 DEF SyncPullRequest, TypeOK
  <2> QED
    BY <1>2, <2>3, <2>5, <2>7 DEF SyncPullRequest, TypeOK
<1>3. ASSUME SyncCommit(t) PROVE TypeOK'
  <2>1. task[t].work \in Work /\ task[t].issue \in Issues \cup {None}
    BY <1>3, TaskKinds DEF SyncCommit, Push
  <2>2. [pushed |-> TRUE, issue |-> task[t].issue] \in CommitRow
    BY <2>1 DEF CommitRow
  <2>3. commit' \in [Work -> CommitRow]
    BY <1>3, <2>1, <2>2 DEF SyncCommit, TypeOK
  <2> QED
    BY <1>3, <2>3 DEF SyncCommit, TypeOK
<1>4. ASSUME FinishReconcile(t) PROVE TypeOK'
  <2>1. task[t].started \in Nat
    BY <1>4, TaskKinds DEF FinishReconcile, Sync
  <2>2. repo' \in [gen: Nat, active: BOOLEAN, synced: Nat \cup {None}]
    BY <1>4, <2>1 DEF FinishReconcile, Stamp, TypeOK
  <2> QED
    BY <1>4, <2>2 DEF FinishReconcile, TypeOK
<1>5. ASSUME Abandon(t) PROVE TypeOK'
  BY <1>5 DEF Abandon, TypeOK
<1> QED
  BY <1>1, <1>2, <1>3, <1>4, <1>5

LEMMA SuggestTypes ==
  ASSUME TypeOK, NEW t \in Loops
  PROVE  SuggestionCandidates(t) \/ Suggest(t) => TypeOK'
<1>1. ASSUME SuggestionCandidates(t) PROVE TypeOK'
  <2>1. task[t].work \in Work /\ task[t].fingerprint \in Titles
    BY <1>1, TaskKinds DEF SuggestionCandidates
  <2>2. [pc |-> "asked", work |-> task[t].work, fingerprint |-> task[t].fingerprint,
         candidates |-> OpenIssues] \in Question
    BY <2>1 DEF Question, OpenIssues
  <2> QED
    BY <1>1, <2>2 DEF SuggestionCandidates, TypeOK
<1>2. ASSUME Suggest(t) PROVE TypeOK'
  <2>1. /\ task[t].work \in Work /\ task[t].fingerprint \in Titles
        /\ task[t].candidates \subseteq Issues
    BY <1>2, TaskKinds DEF Suggest
  <2>2. PICK k \in task[t].candidates \cup {None} : SaveSuggestion(t, k)
    BY <1>2 DEF Suggest
  <2>3. ASSUME NEW dismissed \in BOOLEAN
        PROVE  Answer(k, task[t].fingerprint, dismissed) \in Suggestion
    BY <2>1, <2>2 DEF Answer, Suggestion
  <2>4. suggestion' \in [Work -> Suggestion \cup {None}]
    <3> DEFINE s == suggestion[task[t].work]
    <3>1. Answer(k, task[t].fingerprint, s # None /\ s.dismissed /\ s.issue = k) \in Suggestion
      BY <2>1, <2>3, RowKinds DEF Suggestion
    <3> QED
      BY <2>1, <2>2, <3>1 DEF SaveSuggestion, TypeOK
  <2> QED
    BY <1>2, <2>4 DEF Suggest, TypeOK
<1> QED
  BY <1>1, <1>2

LEMMA GitHubTypes ==
  ASSUME TypeOK
  PROVE  Tick \/ AtGitHub => TypeOK'
<1>1. ASSUME Tick PROVE TypeOK'
  BY <1>1 DEF Tick, TypeOK
<1>2. ASSUME NEW w \in Work, NEW title \in Titles, GitHubUpdate(w, title) PROVE TypeOK'
  <2>1. Second(clock) \in Nat
    BY SecondBounds DEF TypeOK
  <2>2. [work |-> w, title |-> title, at |-> Second(clock)] \in Version
    BY <2>1 DEF Version
  <2> QED
    BY <1>2, <2>2 DEF GitHubUpdate, Edit, TypeOK
<1>3. ASSUME NEW active \in BOOLEAN, RepoChanges(active) PROVE TypeOK'
  <2>1. repo' \in [gen: Nat, active: BOOLEAN, synced: Nat \cup {None}]
    <3>1. repo.gen + 1 \in Nat
      BY DEF TypeOK
    <3>2. CASE repo' = [repo EXCEPT !.gen = repo.gen + 1, !.active = active]
      BY <3>1, <3>2 DEF TypeOK
    <3>3. CASE repo' = [repo EXCEPT !.active = FALSE]
      BY <3>3 DEF TypeOK
    <3> QED
      BY <1>3, <3>2, <3>3 DEF RepoChanges
  <2> QED
    BY <1>3, <2>1 DEF RepoChanges, Edit, TypeOK
<1> QED
  BY <1>1, <1>2, <1>3 DEF AtGitHub

LEMMA IssueTypes ==
  ASSUME TypeOK, NEW k \in Issues
  PROVE  EditIssues(k) => TypeOK'
<1>1. ASSUME CreateIssue(k) PROVE TypeOK'
  <2>1. suggestion' \in [Work -> Suggestion \cup {None}]
    <3>1. ASSUME NEW w \in Work, suggestion[w] # None
          PROVE  [suggestion[w] EXCEPT !.newer = @ \cup {k}] \in Suggestion
      BY <3>1, RowKinds DEF Suggestion
    <3> QED
      BY <1>1, <3>1 DEF CreateIssue, IssueCreated
  <2> QED
    BY <1>1, <2>1 DEF CreateIssue, IssueCreated, Edit, TypeOK
<1>2. ASSUME SetIssueStatus(k) PROVE TypeOK'
  BY <1>2 DEF SetIssueStatus, Edit, TypeOK
<1>3. ASSUME NEW w \in Work, ManualLink(w, k) PROVE TypeOK'
  BY <1>3 DEF ManualLink, Link, Edit, TypeOK, Sources
<1>4. ASSUME NEW w \in Work, Unlink(w, k) PROVE TypeOK'
  BY <1>4 DEF Unlink, Edit, TypeOK, Sources
<1>5. ASSUME NEW w \in Work, AttachCommit(w, k) PROVE TypeOK'
  BY <1>5 DEF AttachCommit, Edit, TypeOK, CommitRow
<1> QED
  BY <1>1, <1>2, <1>3, <1>4, <1>5 DEF EditIssues

LEMMA NoteTypes ==
  ASSUME TypeOK, NEW w \in Work
  PROVE  EditNotes(w) => TypeOK'
<1>1. ASSUME NEW title \in Titles, CreateComment(w, title) PROVE TypeOK'
  BY <1>1 DEF CreateComment, Edit, TypeOK, Row
<1>2. ASSUME NEW title \in Titles, UpdateComment(w, title) PROVE TypeOK'
  BY <1>2, RowKinds DEF UpdateComment, Written, Edit, TypeOK, Row
<1>3. ASSUME DeleteComment(w) PROVE TypeOK'
  BY <1>3, RowKinds DEF DeleteComment, Written, Edit, TypeOK, Row
<1>4. ASSUME NEW k \in Issues, NEW title \in Titles, PromoteCommentToIssue(w, k, title)
      PROVE  TypeOK'
  <2>1. suggestion' \in [Work -> Suggestion \cup {None}]
    <3>1. ASSUME NEW x \in Work, suggestion[x] # None
          PROVE  [suggestion[x] EXCEPT !.newer = @ \cup {k}] \in Suggestion
      BY <3>1, RowKinds DEF Suggestion
    <3> QED
      BY <1>4, <3>1 DEF PromoteCommentToIssue, IssueCreated
  <2>2. work' \in [Work -> Row \cup {None}]
    BY ZenonT(40), <1>4, RowKinds DEF PromoteCommentToIssue, Written, TypeOK, Row
  <2>3. issue' \in [Issues -> {"none", "open", "closed"}] /\ edits' \in Nat
    BY <1>4 DEF PromoteCommentToIssue, IssueCreated, Edit, TypeOK
  <2> QED
    BY <1>4, <2>1, <2>2, <2>3 DEF PromoteCommentToIssue, TypeOK
<1> QED
  BY <1>1, <1>2, <1>3, <1>4 DEF EditNotes

LEMMA DecideTypes ==
  ASSUME TypeOK, NEW u \in People
  PROVE  Decide(u) => TypeOK'
<1>1. ASSUME NEW w \in Work, ViewSuggestion(u, w) PROVE TypeOK'
  <2>1. suggestion[w].issue \in Issues
    BY <1>1 DEF ViewSuggestion, OpenIssues
  <2> QED
    BY <1>1, <2>1 DEF ViewSuggestion, TypeOK
<1>2. page[u] # None => page[u].work \in Work
  BY DEF TypeOK
<1>3. ASSUME AcceptSuggestion(u) PROVE TypeOK'
  <2>1. page[u].work \in Work /\ suggestion[page[u].work] \in Suggestion
    BY <1>2, <1>3, RowKinds DEF AcceptSuggestion, Open
  <2>2. suggestion' \in [Work -> Suggestion \cup {None}]
    BY <1>3, <2>1 DEF AcceptSuggestion, TypeOK, Suggestion
  <2>3. filed' \in [Work -> [Issues -> Sources]]
    <3> DEFINE w == page[u].work
               k == suggestion[w].issue
    <3>1. Link(w, k, "suggested") /\ k \in Issues
      BY <1>3 DEF AcceptSuggestion, OpenIssues
    <3>2. filed[w] \in [Issues -> Sources]
      BY <2>1 DEF TypeOK
    <3>3. [filed[w] EXCEPT ![k] = IF filed[w][k] = "none" THEN "suggested" ELSE filed[w][k]]
            \in [Issues -> Sources]
      BY <3>1, <3>2 DEF Sources
    <3>4. filed' = [filed EXCEPT ![w] =
            [filed[w] EXCEPT ![k] = IF filed[w][k] = "none" THEN "suggested" ELSE filed[w][k]]]
      BY <3>1 DEF Link
    <3> QED
      BY <2>1, <3>3, <3>4 DEF TypeOK
  <2> QED
    BY <1>3, <2>2, <2>3 DEF AcceptSuggestion, TypeOK
<1>4. ASSUME DismissSuggestion(u) PROVE TypeOK'
  <2>1. page[u].work \in Work /\ suggestion[page[u].work] \in Suggestion
    BY <1>2, <1>4, RowKinds DEF DismissSuggestion, Open
  <2>2. suggestion' \in [Work -> Suggestion \cup {None}]
    BY <1>4, <2>1 DEF DismissSuggestion, TypeOK, Suggestion
  <2> QED
    BY <1>4, <2>2 DEF DismissSuggestion, TypeOK
<1> QED
  BY <1>1, <1>3, <1>4 DEF Decide

LEMMA TypeNext == TypeOK /\ [Next]_vars => TypeOK'
<1> SUFFICES ASSUME TypeOK, [Next]_vars PROVE TypeOK'
  OBVIOUS
<1>1. ASSUME NEW t \in Loops, Reconcile(t) PROVE TypeOK'
  BY <1>1, HandlerTypes, SyncTypes DEF Reconcile
<1>2. ASSUME NEW t \in Queues, Handle(t) \/ SuggestOnce(t) PROVE TypeOK'
  <2>1. t \in Loops
    BY DEF Loops
  <2> QED
    BY <1>2, <2>1, HandlerTypes, SyncTypes, SuggestTypes DEF Handle, SuggestOnce
<1>3. CASE UNCHANGED vars
  BY <1>3 DEF vars, TypeOK
<1> QED
  BY <1>1, <1>2, <1>3, GitHubTypes, IssueTypes, NoteTypes, DecideTypes DEF Next

-----------------------------------------------------------------------------
(* No pull request is missed. *)

LEMMA SecondMonotone ==
  ASSUME NEW a \in Nat, NEW b \in Nat, a <= b
  PROVE  Second(a) <= Second(b)
BY DEF Second

\* Every step that changes what GitHub holds, and no other, makes one version
\* of the current second.
LEMMA GitHubSteps ==
  ASSUME TypeOK, [Next]_vars, NEW w \in Work
  PROVE  \/ github'[w] = github[w]
         \/ /\ github'[w].work = w /\ github'[w].at = Second(clock)
            /\ UNCHANGED <<clock, repo, work, task>>
<1>1. ASSUME NEW x \in Work, NEW title \in Titles, GitHubUpdate(x, title)
      PROVE  \/ github'[w] = github[w]
             \/ /\ github'[w].work = w /\ github'[w].at = Second(clock)
                /\ UNCHANGED <<clock, repo, work, task>>
  <2> DEFINE v == [work |-> x, title |-> title, at |-> Second(clock)]
  <2>1. github' = [github EXCEPT ![x] = v] /\ UNCHANGED <<clock, repo, work, task>>
    BY <1>1 DEF GitHubUpdate
  <2> QED
    BY <2>1 DEF TypeOK
<1>2. CASE UNCHANGED github
  BY <1>2
<1> QED
  BY <1>1, <1>2 DEF Next, vars, Tick, AtGitHub, RepoChanges, Reconcile, ReconcileRepo, Begin,
     ListPullRequests, FinishReconcile, Abandon, SyncPullRequest, Handle, HandlePullRequest,
     HandleReview, HandlePush, SyncCommit, SuggestOnce, StaleSuggestionSubjects,
     SuggestionCandidates, Suggest, EditIssues, CreateIssue, SetIssueStatus, ManualLink, Unlink,
     AttachCommit, EditNotes, CreateComment, UpdateComment, DeleteComment,
     PromoteCommentToIssue, Decide, ViewSuggestion, AcceptSuggestion, DismissSuggestion

\* A row never disappears and never gets older.
LEMMA Ages ==
  ASSUME TypeOK, [Next]_vars, NEW w \in Work, work[w] # None
  PROVE  work'[w] \in Row /\ work'[w].at >= work[w].at
<1>0. work[w] \in Row /\ work[w].at \in Nat
  BY RowKinds
<1>1. ASSUME NEW t \in Loops, NEW v \in task[t].todo, SyncPullRequest(t, v)
      PROVE  work'[w] \in Row /\ work'[w].at >= work[w].at
  <2>1. v \in Version /\ v.work \in Work
    BY <1>1, TaskKinds DEF SyncPullRequest, Sync, Version
  <2>2. CASE Fenced(t)
    <3>1. work' = [work EXCEPT ![v.work] = Upsert(v)]
      BY <1>1, <2>2 DEF SyncPullRequest
    <3>2. work' = [x \in Work |-> IF x = v.work THEN Upsert(v) ELSE work[x]]
      BY <3>1 DEF TypeOK
    <3> QED
      BY <1>0, <2>1, <3>2, UpsertType
  <2>3. CASE ~Fenced(t)
    BY <1>0, <1>1, <2>3 DEF SyncPullRequest
  <2> QED
    BY <2>2, <2>3
<1>2. ASSUME NEW x \in Work, EditNotes(x)
      PROVE  work'[w] \in Row /\ work'[w].at >= work[w].at
  <2>1. CASE \E title \in Titles : CreateComment(x, title)
    BY <1>0, <2>1 DEF CreateComment, TypeOK
  <2>2. ASSUME NEW title \in Titles, UpdateComment(x, title)
        PROVE  work'[w] \in Row /\ work'[w].at >= work[w].at
    <3>1. work[x] \in Row /\ work' = [y \in Work |-> IF y = x THEN [work[x] EXCEPT !.title = title] ELSE work[y]]
      BY <2>2, RowKinds DEF UpdateComment, Written, TypeOK
    <3>2. [work[x] EXCEPT !.title = title] \in Row /\ ([work[x] EXCEPT !.title = title]).at = work[x].at
      BY <3>1 DEF Row
    <3> QED
      BY <1>0, <3>1, <3>2
  <2>3. CASE DeleteComment(x)
    <3>1. work[x] \in Row /\ work' = [y \in Work |-> IF y = x THEN [work[x] EXCEPT !.phase = "deleted"] ELSE work[y]]
      BY <2>3, RowKinds DEF DeleteComment, Written, TypeOK
    <3>2. [work[x] EXCEPT !.phase = "deleted"] \in Row /\ ([work[x] EXCEPT !.phase = "deleted"]).at = work[x].at
      BY <3>1 DEF Row
    <3> QED
      BY <1>0, <3>1, <3>2
  <2>4. ASSUME NEW k \in Issues, NEW title \in Titles, PromoteCommentToIssue(x, k, title)
        PROVE  work'[w] \in Row /\ work'[w].at >= work[w].at
    <3> DEFINE row == [[work[x] EXCEPT !.phase = "promoted"] EXCEPT !.title = title]
    <3>1. work[x] \in Row /\ work' = [y \in Work |-> IF y = x THEN row ELSE work[y]]
      BY <2>4, RowKinds DEF PromoteCommentToIssue, Written, TypeOK
    <3>2. row \in Row /\ row.at = work[x].at
      BY <3>1 DEF Row
    <3> QED
      BY <1>0, <3>1, <3>2
  <2> QED
    BY <1>2, <2>1, <2>2, <2>3, <2>4 DEF EditNotes
<1>3. CASE UNCHANGED work
  BY <1>0, <1>3
<1> QED
  BY <1>1, <1>2, <1>3 DEF Next, vars, Tick, AtGitHub, GitHubUpdate, RepoChanges, Reconcile,
     ReconcileRepo, Begin, ListPullRequests, FinishReconcile, Abandon, Handle, HandlePullRequest,
     HandleReview, HandlePush, SyncCommit, SuggestOnce, StaleSuggestionSubjects,
     SuggestionCandidates, Suggest, EditIssues, CreateIssue, SetIssueStatus, ManualLink, Unlink,
     AttachCommit, Decide, ViewSuggestion, AcceptSuggestion, DismissSuggestion

\* So a pull request is brought up to date for good, until it changes.
LEMMA BehindShrinks ==
  ASSUME TypeOK, TypeOK', [Next]_vars, NEW w \in Work, Behind(w)', github'[w] = github[w]
  PROVE  Behind(w)
<1>1. github[w] # None /\ github[w].at \in Nat
  BY RowKinds DEF Behind, Version
<1>2. work[w] # None => work'[w] # None /\ work'[w].at \in Nat /\ work[w].at \in Nat
  BY Ages, RowKinds, RowAssumption DEF Row
<1>3. work[w] # None => work'[w].at >= work[w].at
  BY Ages
<1> QED
  BY <1>1, <1>2, <1>3 DEF Behind

\* Time passes, generations rise, and within a generation a repository is
\* only ever disconnected.
LEMMA ClockAndRepo ==
  ASSUME TypeOK, [Next]_vars
  PROVE  /\ clock' >= clock
         /\ repo'.gen >= repo.gen
         /\ repo'.active /\ repo'.gen = repo.gen => repo.active
<1>0. clock \in Nat /\ repo.gen \in Nat
  BY DEF TypeOK
<1>1. CASE Tick
  BY <1>0, <1>1 DEF Tick
<1>2. ASSUME NEW active \in BOOLEAN, RepoChanges(active)
      PROVE  /\ clock' >= clock
             /\ repo'.gen >= repo.gen
             /\ repo'.active /\ repo'.gen = repo.gen => repo.active
  <2>1. CASE repo' = [repo EXCEPT !.gen = repo.gen + 1, !.active = active]
    <3>1. repo'.gen = repo.gen + 1
      BY <2>1 DEF TypeOK
    <3> QED
      BY <1>0, <1>2, <3>1 DEF RepoChanges
  <2>2. CASE repo' = [repo EXCEPT !.active = FALSE]
    <3>1. repo'.gen = repo.gen /\ repo'.active = FALSE
      BY <2>2 DEF TypeOK
    <3> QED
      BY <1>0, <1>2, <3>1 DEF RepoChanges
  <2> QED
    BY <1>2, <2>1, <2>2 DEF RepoChanges
<1>3. ASSUME NEW t \in Loops, FinishReconcile(t)
      PROVE  /\ clock' >= clock
             /\ repo'.gen >= repo.gen
             /\ repo'.active /\ repo'.gen = repo.gen => repo.active
  <2>1. clock' = clock /\ (repo' = repo \/ repo' = [repo EXCEPT !.synced = Stamp(t)])
    BY <1>3 DEF FinishReconcile
  <2>2. ASSUME repo' = [repo EXCEPT !.synced = Stamp(t)]
        PROVE  repo'.gen = repo.gen /\ repo'.active = repo.active
    BY <2>2 DEF TypeOK
  <2>3. repo'.gen = repo.gen /\ repo'.active = repo.active
    BY <2>1, <2>2
  <2> QED
    BY <1>0, <2>1, <2>3
<1>4. CASE UNCHANGED <<clock, repo>>
  BY <1>0, <1>4
<1>5. \/ Tick \/ UNCHANGED <<clock, repo>>
      \/ \E active \in BOOLEAN : RepoChanges(active)
      \/ \E t \in Loops : FinishReconcile(t)
  <2>1. ASSUME NEW t \in Loops, Reconcile(t) PROVE FinishReconcile(t) \/ UNCHANGED <<clock, repo>>
    BY <2>1 DEF Reconcile, ReconcileRepo, Begin, ListPullRequests, SyncPullRequest, Abandon
  <2> QED
    BY <2>1 DEF Next, vars, AtGitHub, GitHubUpdate, Begin, Handle, HandlePullRequest,
     HandleReview, HandlePush, SyncCommit, SuggestOnce, StaleSuggestionSubjects,
     SuggestionCandidates, Suggest, EditIssues, CreateIssue, SetIssueStatus, ManualLink, Unlink,
     AttachCommit, EditNotes, CreateComment, UpdateComment, DeleteComment,
     PromoteCommentToIssue, Decide, ViewSuggestion, AcceptSuggestion, DismissSuggestion
<1> QED
  BY <1>1, <1>2, <1>3, <1>4, <1>5

\* A change after a reconciliation began is not settled by it.
LEMMA SettledStays ==
  ASSUME TypeOK, [Next]_vars, NEW w \in Work, NEW time \in Nat, time <= clock, SettledBy(w, time)'
  PROVE  github'[w] = github[w] /\ SettledBy(w, time)
<1>1. clock \in Nat /\ Second(time) <= Second(clock)
      /\ Second(time) \in Nat /\ Second(clock) \in Nat
  BY SecondMonotone, SecondBounds DEF TypeOK
<1>2. github'[w].at < Second(time)
  BY DEF SettledBy, Second
<1>3. github'[w].at # Second(clock)
  BY <1>1, <1>2
<1>4. github'[w] = github[w]
  BY <1>3, GitHubSteps
<1> QED
  BY <1>2, <1>4 DEF SettledBy

\* A loop that a step leaves alone keeps its window.
LEMMA WindowStays ==
  ASSUME TypeOK, TypeOK', [Next]_vars, NEW t \in Loops, Window(t), task'[t] = task[t]
  PROVE  Window(t)'
<1>1. task[t].pc \in {"list", "write"} =>
        task[t].gen \in Nat /\ task[t].started \in Nat \cup {None} /\ repo.gen \in Nat
        /\ repo'.gen \in Nat /\ clock \in Nat /\ clock' \in Nat
  BY TaskKinds DEF Sync, TypeOK
<1>2. /\ task'[t].pc = "list" => task'[t].started # None
      /\ task'[t].pc \in {"list", "write"} =>
           /\ task'[t].gen <= repo'.gen
           /\ task'[t].started # None => task'[t].started <= clock'
  BY <1>1, ClockAndRepo DEF Window
<1>3. ASSUME task[t].pc = "list", NEW w \in Work, Behind(w)', SettledBy(w, task[t].started)'
      PROVE  github'[w].at >= task[t].since
  <2>1. task[t].started \in Nat /\ task[t].started <= clock
    BY <1>1, <1>3 DEF Window
  <2>2. github'[w] = github[w] /\ SettledBy(w, task[t].started)
    BY <1>3, <2>1, SettledStays DEF SettledBy
  <2>3. Behind(w)
    BY <1>3, <2>2, BehindShrinks
  <2> QED
    BY <1>3, <2>2, <2>3 DEF Window
<1>4. ASSUME task[t].pc = "write", task[t].started # None, Fenced(t)', NEW w \in Work, Behind(w)',
             SettledBy(w, task[t].started)'
      PROVE  github'[w] \in task[t].todo
  <2>1. task[t].started \in Nat /\ task[t].started <= clock
    BY <1>1, <1>4 DEF Window
  <2>2. github'[w] = github[w] /\ SettledBy(w, task[t].started)
    BY <1>4, <2>1, SettledStays DEF SettledBy
  <2>3. Behind(w)
    BY <1>4, <2>2, BehindShrinks
  <2>4. Fenced(t)
    BY <1>1, <1>4, ClockAndRepo DEF Fenced, Window
  <2> QED
    BY <1>4, <2>2, <2>3, <2>4 DEF Window
<1> QED
  BY <1>2, <1>3, <1>4 DEF Window, SettledBy

\* A reconciliation begins with the window of everything missed so far.
LEMMA WindowOpens ==
  ASSUME IInv, TypeOK', [Next]_vars, NEW t \in Loops, ReconcileRepo(t)
  PROVE  Window(t)'
<1>1. /\ task'[t] = [pc |-> "list", gen |-> repo.gen, started |-> clock, since |-> Since,
                     todo |-> {}]
      /\ UNCHANGED <<clock, repo, github, work>>
  BY DEF ReconcileRepo, Begin, IInv, TypeOK
<1>2. clock \in Nat /\ repo.gen \in Nat /\ clock # None
  BY NoneAssumption DEF IInv, TypeOK
<1>3. ASSUME NEW w \in Work, Behind(w)' PROVE github'[w].at >= Since
  BY <1>1, <1>3 DEF IInv, NothingMissed, Behind
<1> QED
  BY <1>1, <1>2, <1>3 DEF Window

\* A listing holds what the window held, except what changed meanwhile.
LEMMA WindowListed ==
  ASSUME IInv, TypeOK', [Next]_vars, NEW t \in Loops, ListPullRequests(t)
  PROVE  Window(t)'
<1>0. TypeOK /\ Window(t)
  BY DEF IInv, Windows
<1>1. PICK skipped \in SUBSET {w \in Work : github[w] # None
                                           /\ github[w].at >= Second(task[t].started)} :
        task' = [task EXCEPT ![t] = [task[t] EXCEPT !.pc = "write", !.todo =
          {github[w] : w \in {x \in Work \ skipped :
                                github[x] # None /\ github[x].at >= task[t].since}}]]
  BY DEF ListPullRequests
<1> DEFINE listing == {github[w] : w \in {x \in Work \ skipped :
                         github[x] # None /\ github[x].at >= task[t].since}}
<1>2. task[t] \in Sync /\ task[t].pc = "list" /\ UNCHANGED <<clock, repo, github, work>>
  BY <1>0, TaskKinds DEF ListPullRequests
<1>3. /\ task'[t].pc = "write" /\ task'[t].todo = listing
      /\ task'[t].gen = task[t].gen /\ task'[t].started = task[t].started
  <2>1. task'[t] = [[task[t] EXCEPT !.pc = "write"] EXCEPT !.todo = listing]
    BY <1>0, <1>1 DEF TypeOK
  <2> QED
    BY <1>2, <2>1 DEF Sync
<1>4. /\ task[t].gen <= repo.gen /\ task[t].started \in Nat /\ task[t].started <= clock
      /\ Second(task[t].started) \in Nat
  BY <1>0, <1>2, SecondBounds DEF Window, Sync
<1>5. ASSUME NEW w \in Work, Behind(w)', SettledBy(w, task[t].started)'
      PROVE  github[w] \in listing
  <2>1. Behind(w) /\ SettledBy(w, task[t].started)
    BY <1>2, <1>3, <1>5 DEF Behind, SettledBy
  <2>2. github[w] # None /\ github[w].at \in Nat /\ github[w].at >= task[t].since
    BY <1>0, <1>2, <2>1, RowKinds DEF Window, Behind, Version
  <2>3. w \notin skipped
    BY <1>4, <2>1, <2>2 DEF SettledBy
  <2> QED
    BY <2>2, <2>3
<1> QED
  BY <1>2, <1>3, <1>4, <1>5 DEF Window, SettledBy

\* Writing a version leaves nothing of it to be done, unless the fence refuses
\* it, and then the reconciliation writes no more.
LEMMA WindowWritten ==
  ASSUME IInv, TypeOK', [Next]_vars, NEW t \in Loops, NEW v \in task[t].todo, SyncPullRequest(t, v)
  PROVE  Window(t)'
<1>0. TypeOK /\ Window(t)
  BY DEF IInv, Windows
<1>1. /\ task[t] \in Sync /\ task[t].pc = "write" /\ v \in Version /\ v.work \in Work
      /\ UNCHANGED <<clock, repo, github>>
  BY <1>0, TaskKinds DEF SyncPullRequest, Sync, Version
<1>2. CASE task[t].started = None
  <2>1. task'[t].pc = "idle"
    BY <1>0, <1>1, <1>2 DEF SyncPullRequest, TypeOK, Idle
  <2> QED
    BY <2>1 DEF Window
<1>3. CASE task[t].started # None
  <2>1. /\ task'[t].pc = "write" /\ task'[t].todo = task[t].todo \ {v}
        /\ task'[t].gen = task[t].gen /\ task'[t].started = task[t].started
    <3>1. task'[t] = [task[t] EXCEPT !.todo = task[t].todo \ {v}]
      BY <1>0, <1>3 DEF SyncPullRequest, TypeOK
    <3> QED
      BY <1>1, <3>1 DEF Sync
  <2>2. task[t].gen <= repo.gen /\ task[t].started <= clock
    BY <1>0, <1>1, <1>3 DEF Window
  <2>3. ASSUME Fenced(t)', NEW w \in Work, Behind(w)', SettledBy(w, task[t].started)'
        PROVE  github[w] \in task[t].todo \ {v}
    <3>1. Fenced(t) /\ github'[w] = github[w] /\ SettledBy(w, task[t].started)
      BY <1>1, <2>1, <2>3 DEF Fenced, SettledBy
    <3>2. Behind(w)
      BY <1>0, <2>3, <3>1, BehindShrinks
    <3>3. github[w] \in task[t].todo
      BY <1>0, <1>1, <1>3, <3>1, <3>2 DEF Window
    <3>4. ASSUME github[w] = v PROVE FALSE
      <4>1. v.work = w
        BY <2>3, <3>2, <3>4 DEF IInv, Past, Behind
      <4>2. work'[w] = Upsert(v)
        BY <1>0, <1>1, <3>1, <4>1 DEF SyncPullRequest, TypeOK
      <4>3. work'[w] \in Row /\ work'[w].at >= v.at /\ v.at \in Nat
        BY <1>0, <1>1, <4>2, UpsertType DEF Version
      <4> QED
        BY <2>3, <3>1, <3>4, <4>3, RowAssumption DEF Behind, Row
    <3> QED
      BY <3>3, <3>4
  <2> QED
    BY <1>1, <2>1, <2>2, <2>3 DEF Window, SettledBy
<1> QED
  BY <1>2, <1>3

\* The other beginnings and endings hold no window.
LEMMA WindowElsewhere ==
  ASSUME TypeOK, NEW t \in Loops,
         \/ \E v \in sent : HandlePullRequest(t, v)
         \/ \E w \in Work : HandleReview(t, w) \/ HandlePush(t, w) \/ StaleSuggestionSubjects(t, w)
         \/ SyncCommit(t) \/ FinishReconcile(t) \/ Abandon(t)
         \/ SuggestionCandidates(t) \/ Suggest(t)
  PROVE  Window(t)'
<1>0. repo.gen \in Nat
  BY DEF TypeOK
<1>1. ASSUME NEW todo, Begin(t, [pc |-> "write", gen |-> repo.gen, started |-> None, since |-> 0, todo |-> todo])
      PROVE  Window(t)'
  <2>1. task'[t] = [pc |-> "write", gen |-> repo.gen, started |-> None, since |-> 0, todo |-> todo]
        /\ UNCHANGED repo
    BY <1>1 DEF Begin, TypeOK
  <2> QED
    BY <1>0, <2>1 DEF Window
<1>2. ASSUME task'[t].pc \notin {"list", "write"} PROVE Window(t)'
  BY <1>2 DEF Window
<1>3. ASSUME \/ \E w \in Work : HandlePush(t, w) \/ StaleSuggestionSubjects(t, w)
             \/ SyncCommit(t) \/ FinishReconcile(t) \/ Abandon(t)
             \/ SuggestionCandidates(t) \/ Suggest(t)
      PROVE  task'[t].pc \notin {"list", "write"}
  BY <1>3 DEF HandlePush, StaleSuggestionSubjects, Begin, SyncCommit, FinishReconcile, Abandon,
     SuggestionCandidates, Suggest, TypeOK, Idle
<1> QED
  BY <1>1, <1>2, <1>3 DEF HandlePullRequest, HandleReview

\* A step of one loop leaves the others alone, and nobody else touches any.
LEMMA OtherLoops ==
  ASSUME TypeOK, NEW t \in Loops, Reconcile(t) \/ Handle(t) \/ SuggestOnce(t), NEW u \in Loops, u # t
  PROVE  task'[u] = task[u]
<1>1. task' = [task EXCEPT ![t] = task'[t]] => task'[u] = task[u]
  BY DEF TypeOK
<1>2. ASSUME Reconcile(t) PROVE task'[u] = task[u]
  BY <1>2 DEF Reconcile, ReconcileRepo, Begin, ListPullRequests, FinishReconcile, Abandon,
     SyncPullRequest, TypeOK
<1>3. ASSUME Handle(t) \/ SuggestOnce(t) PROVE task'[u] = task[u]
  BY <1>3 DEF Handle, HandlePullRequest, HandleReview, HandlePush, Begin, SyncCommit, SuggestOnce,
     StaleSuggestionSubjects, SuggestionCandidates, Suggest, TypeOK
<1> QED
  BY <1>2, <1>3

LEMMA WindowsNext ==
  ASSUME IInv, TypeOK', [Next]_vars
  PROVE  Windows'
<1>0. TypeOK /\ Windows
  BY DEF IInv
<1> SUFFICES ASSUME NEW u \in Loops PROVE Window(u)'
  BY DEF Windows
<1>1. CASE task'[u] = task[u]
  BY <1>0, <1>1, WindowStays DEF Windows
<1>2. CASE Reconcile(u)
  BY <1>0, <1>2, WindowOpens, WindowListed, WindowWritten, WindowElsewhere DEF Reconcile
<1>3. CASE Handle(u) \/ SuggestOnce(u)
  BY <1>0, <1>3, WindowElsewhere DEF Handle, SuggestOnce
<1>4. CASE UNCHANGED task
  BY <1>1, <1>4
<1> QED
  BY <1>0, <1>1, <1>2, <1>3, <1>4, OtherLoops DEF Next, Loops, vars, Tick, AtGitHub, GitHubUpdate,
     RepoChanges, EditIssues, CreateIssue, SetIssueStatus, ManualLink, Unlink, AttachCommit,
     EditNotes, CreateComment, UpdateComment, DeleteComment, PromoteCommentToIssue, Decide,
     ViewSuggestion, AcceptSuggestion, DismissSuggestion

\* Only a reconciliation that ends says when the last one was.
LEMMA SyncedSteps ==
  ASSUME TypeOK, [Next]_vars
  PROVE  repo'.synced = repo.synced \/ \E t \in Loops : FinishReconcile(t)
<1>1. ASSUME NEW active \in BOOLEAN, RepoChanges(active) PROVE repo'.synced = repo.synced
  BY <1>1 DEF RepoChanges, TypeOK
<1>2. ASSUME NEW t \in Loops, Reconcile(t) PROVE FinishReconcile(t) \/ UNCHANGED repo
  BY <1>2 DEF Reconcile, ReconcileRepo, Begin, ListPullRequests, SyncPullRequest, Abandon
<1>3. \/ \E active \in BOOLEAN : RepoChanges(active)
      \/ \E t \in Loops : FinishReconcile(t)
      \/ UNCHANGED repo
  BY <1>2 DEF Next, vars, Tick, AtGitHub, GitHubUpdate, Begin, Handle, HandlePullRequest,
     HandleReview, HandlePush, SyncCommit, SuggestOnce, StaleSuggestionSubjects,
     SuggestionCandidates, Suggest, EditIssues, CreateIssue, SetIssueStatus, ManualLink, Unlink,
     AttachCommit, EditNotes, CreateComment, UpdateComment, DeleteComment,
     PromoteCommentToIssue, Decide, ViewSuggestion, AcceptSuggestion, DismissSuggestion
<1> QED
  BY <1>1, <1>3

\* Time does not run backwards, and a change is as new as the clock.
LEMMA PastNext ==
  ASSUME IInv, TypeOK', [Next]_vars
  PROVE  Past'
<1>0. TypeOK /\ clock \in Nat /\ clock' \in Nat /\ clock' >= clock
  BY ClockAndRepo DEF IInv, TypeOK
<1>1. ASSUME NEW w \in Work, github'[w] # None
      PROVE  github'[w].work = w /\ github'[w].at <= clock'
  <2>1. CASE github'[w] = github[w]
    <3>1. github[w].work = w /\ github[w].at <= clock /\ github[w].at \in Nat
      BY <1>0, <1>1, <2>1, RowKinds DEF IInv, Past, Version
    <3> QED
      BY <1>0, <2>1, <3>1
  <2>2. CASE github'[w] # github[w]
    BY <1>0, <2>2, GitHubSteps, SecondBounds
  <2> QED
    BY <2>1, <2>2
<1>2. ASSUME repo'.synced # None PROVE repo'.synced <= clock'
  <2>1. CASE repo'.synced = repo.synced
    <3>1. repo.synced \in Nat /\ repo.synced <= clock
      BY <1>0, <1>2, <2>1 DEF IInv, Past, TypeOK
    <3> QED
      BY <1>0, <2>1, <3>1
  <2>2. ASSUME NEW t \in Loops, FinishReconcile(t), repo'.synced # repo.synced
        PROVE  repo'.synced <= clock'
    <3>1. repo'.synced = task[t].started
      BY <1>0, <2>2 DEF FinishReconcile, Stamp, TypeOK
    <3>2. task[t].started \in Nat /\ task[t].started <= clock
      BY <1>0, <2>2, TaskKinds DEF FinishReconcile, IInv, Windows, Window, Sync
    <3> QED
      BY <1>0, <3>1, <3>2
  <2>3. repo'.synced = repo.synced \/ \E t \in Loops : FinishReconcile(t)
    BY <1>0, SyncedSteps
  <2> QED
    BY <2>1, <2>2, <2>3
<1> QED
  BY <1>1, <1>2 DEF Past

\* What changes lies in the window; a reconciliation that ends has written
\* all that lies before its own beginning.
LEMMA NothingMissedNext ==
  ASSUME IInv, TypeOK', [Next]_vars
  PROVE  NothingMissed'
<1>0. TypeOK /\ clock \in Nat
  BY DEF IInv, TypeOK
<1> SUFFICES ASSUME NEW w \in Work, Behind(w)' PROVE github'[w].at >= Since'
  BY DEF NothingMissed
<1>1. github'[w] # None /\ github'[w].at \in Nat
  BY RowKinds DEF Behind, TypeOK, Version
<1>2. CASE github'[w] # github[w]
  <2>1. github'[w].at = Second(clock) /\ repo' = repo /\ clock <= Second(clock) + 1
    BY <1>0, <1>2, GitHubSteps, SecondBounds
  <2>2. repo.synced # None => repo.synced \in Nat /\ repo.synced <= clock
    BY DEF IInv, Past, TypeOK
  <2> QED
    BY <1>0, <1>1, <2>1, <2>2 DEF Since
<1>3. CASE github'[w] = github[w] /\ repo'.synced = repo.synced
  <2>1. Behind(w)
    BY <1>0, <1>3, BehindShrinks
  <2> QED
    BY <1>3, <2>1 DEF IInv, NothingMissed, Since
<1>4. ASSUME NEW t \in Loops, FinishReconcile(t), github'[w] = github[w], repo'.synced # repo.synced
      PROVE  github'[w].at >= Since'
  <2>1. Behind(w)
    BY <1>0, <1>4, BehindShrinks
  <2>2. /\ Fenced(t) /\ repo'.synced = task[t].started
        /\ task[t].pc = "write" /\ task[t].started # None /\ task[t].todo = {}
    BY <1>0, <1>4 DEF FinishReconcile, Stamp, TypeOK
  <2>3. task[t].started \in Nat
    BY <1>0, <2>2, TaskKinds DEF Sync
  <2>4. ~SettledBy(w, task[t].started)
    BY <2>1, <2>2 DEF IInv, Windows, Window
  <2>5. Second(task[t].started) \in Nat /\ task[t].started <= Second(task[t].started) + 1
    BY <2>3, SecondBounds
  <2> QED
    BY <1>1, <1>4, <2>2, <2>3, <2>4, <2>5 DEF SettledBy, Since
<1>5. repo'.synced = repo.synced \/ \E t \in Loops : FinishReconcile(t)
  BY <1>0, SyncedSteps
<1> QED
  BY <1>2, <1>3, <1>4, <1>5

LEMMA InitIInv == Init => IInv
<1> SUFFICES ASSUME Init PROVE IInv
  OBVIOUS
<1>1. Past /\ NothingMissed
  BY DEF Init, Past, NothingMissed, Behind
<1>2. Windows
  BY DEF Init, Windows, Window, Idle
<1> QED
  BY <1>1, <1>2, TypeInit DEF IInv

LEMMA NextIInv == IInv /\ [Next]_vars => IInv'
<1> SUFFICES ASSUME IInv, [Next]_vars PROVE IInv'
  OBVIOUS
<1>1. TypeOK'
  BY TypeNext DEF IInv
<1> QED
  BY <1>1, PastNext, WindowsNext, NothingMissedNext DEF IInv

\* The mirror of GitHub and the windows that mend it, together.
THEOREM Invariance == Spec => []IInv
BY InitIInv, NextIInv, PTL DEF Spec

\* The rows have their columns and the loops hold what their place says.
THEOREM TypeCorrect == Spec => []TypeOK
<1>1. IInv => TypeOK
  BY DEF IInv
<1> QED
  BY <1>1, Invariance, PTL

\* ReconcileRepo and Since together: a pull request that Velvet lacks, or has
\* in an older version, is in the window of the next reconciliation, for any
\* number of loops and however many deliveries were lost, late or refused.
THEOREM NothingIsMissed == Spec => []NothingMissed
<1>1. IInv => NothingMissed
  BY DEF IInv
<1> QED
  BY <1>1, Invariance, PTL

-----------------------------------------------------------------------------
(* The newest version wins. *)

\* An automatic link names its issue in the version that is stored with it.
LEMMA AutoNamed ==
  ASSUME TypeOK, [Next]_vars, NEW w \in Work, NEW k \in Issues,
         filed[w][k] = "none", filed'[w][k] = "auto"
  PROVE  k \in Refs[work'[w].title]
<1>1. ASSUME NEW t \in Loops, NEW v \in task[t].todo, SyncPullRequest(t, v)
      PROVE  k \in Refs[work'[w].title]
  <2>1. v \in Version /\ v.work \in Work
    BY <1>1, TaskKinds DEF SyncPullRequest, Sync, Version
  <2>2. /\ work' = [work EXCEPT ![v.work] = Upsert(v)]
        /\ filed' = [filed EXCEPT ![v.work] = Linked(v.work, Upsert(v).title)]
    BY <1>1 DEF SyncPullRequest
  <2>3. w = v.work
    BY <2>1, <2>2 DEF TypeOK
  <2>4. filed'[w] = Linked(w, Upsert(v).title) /\ work'[w] = Upsert(v)
    BY <2>1, <2>2, <2>3 DEF TypeOK
  <2>5. k \in Named(Upsert(v).title)
    BY <2>4 DEF Linked
  <2> QED
    BY <2>4, <2>5 DEF Named
<1>2. ASSUME NEW x \in Work, NEW y \in Issues, ManualLink(x, y) \/ Unlink(x, y) PROVE FALSE
  BY <1>2 DEF ManualLink, Unlink, Link, TypeOK
<1>3. ASSUME NEW u \in People, AcceptSuggestion(u) PROVE FALSE
  BY <1>3 DEF AcceptSuggestion, Link, TypeOK
<1>4. filed' # filed
  OBVIOUS
<1> QED
  BY <1>1, <1>2, <1>3, <1>4 DEF Next, vars, Tick, AtGitHub, GitHubUpdate, RepoChanges, Reconcile,
     ReconcileRepo, Begin, ListPullRequests, FinishReconcile, Abandon, Handle, HandlePullRequest,
     HandleReview, HandlePush, SyncCommit, SuggestOnce, StaleSuggestionSubjects,
     SuggestionCandidates, Suggest, EditIssues, CreateIssue, SetIssueStatus, AttachCommit,
     EditNotes, CreateComment, UpdateComment, DeleteComment, PromoteCommentToIssue, Decide,
     ViewSuggestion, DismissSuggestion

\* UpsertPullRequestTx and LinkPullRequestTx: whatever is delivered late, a
\* row never goes back to an older version, and an issue is linked only where
\* the version that is kept names it.
THEOREM NewestAlwaysWins == Spec => NewestWins
<1>1. IInv /\ [Next]_vars =>
        [\A w \in Work :
           /\ work[w] # None => work'[w].at >= work[w].at
           /\ \A k \in Issues : filed[w][k] = "none" /\ filed'[w][k] = "auto"
                => k \in Refs[work'[w].title]]_vars
  BY Ages, AutoNamed DEF IInv
<1> QED
  BY <1>1, Invariance, PTL DEF Spec, NewestWins

-----------------------------------------------------------------------------
(* People decide. *)

\* Links made by people, and all others, stay when a version is written.
LEMMA SyncKeepsLinks ==
  ASSUME TypeOK, NEW t \in Loops, NEW v \in task[t].todo, SyncPullRequest(t, v),
         NEW w \in Work, NEW k \in Issues, filed[w][k] # "none"
  PROVE  filed'[w][k] = filed[w][k]
<1>1. v.work \in Work
  BY TaskKinds DEF SyncPullRequest, Sync, Version
<1>2. CASE filed' = [filed EXCEPT ![v.work] = Linked(v.work, Upsert(v).title)]
  BY <1>1, <1>2 DEF Linked, TypeOK
<1>3. CASE filed' = filed
  BY <1>3
<1> QED
  BY <1>2, <1>3 DEF SyncPullRequest

\* A commit that was pushed and attributed stays so when it is pushed again.
LEMMA PushKeepsCommits ==
  ASSUME TypeOK, NEW t \in Loops, SyncCommit(t), NEW w \in Work, commit[w].pushed
  PROVE  commit'[w] = commit[w]
BY DEF SyncCommit, TypeOK

\* An answer respects an acceptance, and a dismissal of the same issue.
LEMMA AnswersRespect ==
  ASSUME TypeOK, NEW t \in Loops, Suggest(t), NEW w \in Work, suggestion[w] # None
  PROVE  /\ suggestion[w].accepted => suggestion'[w] = suggestion[w]
         /\ suggestion[w].dismissed /\ suggestion'[w].issue = suggestion[w].issue
              => suggestion'[w].dismissed
<1>1. PICK k \in task[t].candidates \cup {None} : SaveSuggestion(t, k)
  BY DEF Suggest
<1>2. CASE w # task[t].work
  BY <1>1, <1>2 DEF SaveSuggestion, TypeOK
<1>3. CASE w = task[t].work /\ suggestion[w].accepted
  BY <1>1, <1>3 DEF SaveSuggestion, TypeOK
<1>4. CASE w = task[t].work /\ ~suggestion[w].accepted
  <2>1. suggestion'[w] = Answer(k, task[t].fingerprint,
                                suggestion[w] # None /\ suggestion[w].dismissed /\ suggestion[w].issue = k)
    BY <1>1, <1>4 DEF SaveSuggestion, TypeOK
  <2>2. /\ suggestion'[w].issue = k
        /\ suggestion'[w].dismissed
             = (suggestion[w] # None /\ suggestion[w].dismissed /\ suggestion[w].issue = k)
    BY <2>1 DEF Answer
  <2> QED
    BY <1>4, <2>2
<1> QED
  BY <1>2, <1>3, <1>4

\* What a worker's step leaves alone.
Respected ==
  /\ issue' = issue
  /\ \A w \in Work, k \in Issues : filed[w][k] # "none" => filed'[w][k] = filed[w][k]
  /\ \A w \in Work : commit[w].pushed => commit'[w] = commit[w]
  /\ \A w \in Work : suggestion[w] # None =>
       /\ suggestion[w].accepted => suggestion'[w] = suggestion[w]
       /\ suggestion[w].dismissed /\ suggestion'[w].issue = suggestion[w].issue
            => suggestion'[w].dismissed

LEMMA WorkersRespect ==
  ASSUME TypeOK, NEW t \in Loops, Reconcile(t) \/ Handle(t) \/ SuggestOnce(t)
  PROVE  Respected
<1>1. CASE UNCHANGED <<issue, filed, commit, suggestion>>
  BY <1>1 DEF Respected
<1>2. ASSUME NEW v \in task[t].todo, SyncPullRequest(t, v) PROVE Respected
  <2>1. UNCHANGED <<issue, commit, suggestion>>
    BY <1>2 DEF SyncPullRequest
  <2> QED
    BY <1>2, <2>1, SyncKeepsLinks DEF Respected
<1>3. CASE SyncCommit(t)
  <2>1. UNCHANGED <<issue, filed, suggestion>>
    BY <1>3 DEF SyncCommit
  <2> QED
    BY <1>3, <2>1, PushKeepsCommits DEF Respected
<1>4. CASE Suggest(t)
  <2>1. UNCHANGED <<issue, filed, commit>>
    BY <1>4 DEF Suggest
  <2> QED
    BY <1>4, <2>1, AnswersRespect DEF Respected
<1> QED
  BY <1>1, <1>2, <1>3, <1>4 DEF Reconcile, ReconcileRepo, Begin, ListPullRequests,
     FinishReconcile, Abandon, Handle, HandlePullRequest, HandleReview, HandlePush, SuggestOnce,
     StaleSuggestionSubjects, SuggestionCandidates

\* The steps of people, of GitHub and of the clock run in no loop.
LEMMA PeopleHoldNoLoop ==
  ASSUME [Next]_vars, task' # task
  PROVE  \E t \in Loops : Reconcile(t) \/ Handle(t) \/ SuggestOnce(t)
BY DEF Next, Loops, vars, Tick, AtGitHub, GitHubUpdate, RepoChanges, EditIssues, CreateIssue,
   SetIssueStatus, ManualLink, Unlink, AttachCommit, EditNotes, CreateComment, UpdateComment,
   DeleteComment, PromoteCommentToIssue, Decide, ViewSuggestion, AcceptSuggestion,
   DismissSuggestion

\* SaveSuggestion, UpsertCommitTx and LinkPullRequestTx: no step of a worker
\* changes a link that exists, the issue of a pushed commit, an issue, an
\* accepted suggestion, or a dismissal of the same issue.
THEOREM StepsNeverOverrule == Spec => NoStepOverrules
<1>1. IInv /\ [Next]_vars => [task' # task => Respected]_vars
  BY WorkersRespect, PeopleHoldNoLoop DEF IInv
<1> QED
  BY <1>1, Invariance, PTL DEF Spec, NoStepOverrules, Respected

=============================================================================
