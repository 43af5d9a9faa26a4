------------------------------ MODULE Evidence ------------------------------
(***************************************************************************)
(* Proof of work: pull requests mirrored from webhooks, from the hourly    *)
(* reconciliation and for reviews; commits; links to issues; and suggested *)
(* links, computed by a slow external call (store/pull_request.go,         *)
(* suggestion.go, evidence.go, worker/pull_request.go, review.go, push.go, *)
(* reconcile.go, suggest.go).                                              *)
(*                                                                         *)
(* One repository.  github is what GitHub holds, sent every version of a   *)
(* pull request that a delivery carries: a delivery may arrive at any      *)
(* time, in any order, and again.  task[t] is one loop of a worker         *)
(* process; each of its writes is fenced by the generation it captured     *)
(* (Installation).  Transactions under the organisation's row lock are one *)
(* action each.                                                            *)
(***************************************************************************)
EXTENDS Integers

CONSTANTS
  Work,       \* pieces of work: pull requests, notes on a project, commits
  Issues,
  Backlog,    \* the issues that exist from the start
  Titles,     \* what a piece of work says: title, body and branch together
  Refs,       \* Refs[text]: the issues whose keys it names (linker.Find)
  Branch,     \* Branch[w]: the issue that the branch of commit w names, or None
  Queues,     \* loops over the queue; each also suggests, and each process has one
  Reconcilers,\* hourly loops; each process has one
  People,
  None,
  MaxClock,   \* bound: half seconds
  MaxEdits    \* bound: changes at GitHub and by people

ASSUME RefsAssumption == Refs \in [Titles -> SUBSET Issues]
ASSUME BranchAssumption == Branch \in [Work -> Issues \cup {None}]
ASSUME BacklogAssumption == Backlog \subseteq Issues
ASSUME NoneAssumption == None \notin Issues \cup Work \cup Nat
ASSUME BoundsAssumption == MaxClock \in Nat /\ MaxEdits \in Nat

VARIABLES
  kind,        \* kind[w]: pull_request, note or commit
  clock,       \* half seconds: GitHub's timestamps are whole seconds
  edits,       \* changes made so far
  github,      \* github[w]: the pull request at GitHub
  sent,        \* the versions that deliveries carry
  repo,        \* generation, connected and served, synced_at
  work,        \* work[w]: the pull_request or comment row
  filed,       \* filed[w][k]: source of the link of w to issue k
  issue,       \* issue[k]: none, open or closed
  commit,      \* commit[w]: the commit_ref row
  suggestion,  \* suggestion[w]: the link_suggestion row
  task,        \* task[t]: what a loop runs, with what it has read so far
  page         \* page[u]: the suggestion that a person looks at

vars == <<kind, clock, edits, github, sent, repo, work, filed, issue, commit,
          suggestion, task, page>>

Kinds == {"pull_request", "note", "commit"}
Loops == Queues \cup Reconcilers

Version == [work: Work, title: Titles, at: Nat]
Sources == {"none", "auto", "manual", "suggested"}

\* A commit is attributed by the branch of its push, or by a person.
CommitRow == [pushed: BOOLEAN, issue: Issues \cup {None}]

\* newer: the issues created since the answer was stored.
Suggestion == [issue: Issues \cup {None}, fingerprint: Titles, dismissed: BOOLEAN,
               accepted: BOOLEAN, newer: SUBSET Issues]

Idle == [pc |-> "idle"]
Sync == [pc: {"list", "write"}, gen: Nat, started: Nat \cup {None},
         since: Int, todo: SUBSET Version]
Push == [pc: {"push"}, gen: Nat, work: Work, issue: Issues \cup {None}]
Question == [pc: {"subject"}, work: Work, fingerprint: Titles]
            \cup [pc: {"asked"}, work: Work, fingerprint: Titles, candidates: SUBSET Issues]

Row == [phase: {"stored", "promoted", "deleted"}, title: Titles, at: Nat]

\* NULL is not a row.
ASSUME RowAssumption == None \notin Row

Init ==
  /\ kind \in [Work -> Kinds]
  /\ clock = 0 /\ edits = 0
  /\ github = [w \in Work |-> None]
  /\ sent = {}
  /\ repo = [gen |-> 0, active |-> TRUE, synced |-> None]
  /\ work = [w \in Work |-> None]
  /\ filed = [w \in Work |-> [k \in Issues |-> "none"]]
  /\ issue = [k \in Issues |-> IF k \in Backlog THEN "open" ELSE "none"]
  /\ commit = [w \in Work |-> [pushed |-> FALSE, issue |-> None]]
  /\ suggestion = [w \in Work |-> None]
  /\ task = [t \in Loops |-> Idle]
  /\ page = [u \in People |-> None]

\* Only the mirroring of pull requests reads the clock.
Tick ==
  /\ clock < MaxClock /\ \E w \in Work : kind[w] = "pull_request"
  /\ clock' = clock + 1
  /\ UNCHANGED <<kind, edits, github, sent, repo, work, filed, issue, commit, suggestion,
                 task, page>>

Edit == edits < MaxEdits /\ edits' = edits + 1

-----------------------------------------------------------------------------
(* GitHub.                                                                 *)

Second(time) == (time \div 2) * 2

\* Created or changed; the delivery that says so is on its way.
GitHubUpdate(w, title) ==
  /\ Edit
  /\ kind[w] = "pull_request"
  /\ LET v == [work |-> w, title |-> title, at |-> Second(clock)]
     IN  /\ github' = [github EXCEPT ![w] = v]
         /\ sent' = sent \cup {v}
  /\ UNCHANGED <<kind, clock, repo, work, filed, issue, commit, suggestion, task, page>>

\* What Installation does to a repository.  A new generation may begin at any
\* time, and only a new one connects a repository that was disconnected.
RepoChanges(active) ==
  /\ Edit
  /\ \/ repo' = [repo EXCEPT !.gen = @ + 1, !.active = active]
     \/ repo.active /\ ~active /\ repo' = [repo EXCEPT !.active = FALSE]
  /\ UNCHANGED <<kind, clock, github, sent, work, filed, issue, commit, suggestion,
                 task, page>>

-----------------------------------------------------------------------------
(* The worker: pull requests, reviews, pushes, reconciliation.             *)

Begin(t, locals) ==
  /\ task[t] = Idle
  /\ task' = [task EXCEPT ![t] = locals]
  /\ UNCHANGED <<kind, clock, edits, github, sent, repo, work, filed, issue, commit,
                 suggestion, page>>

\* An event drops what belongs to a repository that is not active (ActiveRepo).
HandlePullRequest(t, v) ==
  /\ repo.active /\ v \in sent
  /\ Begin(t, [pc |-> "write", gen |-> repo.gen, started |-> None, since |-> 0, todo |-> {v}])

\* A review of a pull request that is not stored fetches it.
HandleReview(t, w) ==
  /\ repo.active /\ github[w] # None /\ work[w] = None
  /\ Begin(t, [pc |-> "write", gen |-> repo.gen, started |-> None, since |-> 0,
               todo |-> {github[w]}])

HandlePush(t, w) ==
  /\ repo.active /\ kind[w] = "commit"
  /\ Begin(t, [pc |-> "push", gen |-> repo.gen, work |-> w,
               issue |-> IF Branch[w] # None /\ issue[Branch[w]] # "none"
                           THEN Branch[w] ELSE None])

\* Mutant: the window starts where the last synchronisation did.
Since_NoMargin == IF repo.synced = None THEN 0 ELSE repo.synced

\* One second before the last synchronisation, or the backfill window, ninety
\* days, which is longer than the model lives.
Since == IF repo.synced = None THEN 0 ELSE repo.synced - 2

ReconcileRepo(t) ==
  /\ repo.active
  /\ Begin(t, [pc |-> "list", gen |-> repo.gen, started |-> clock, since |-> Since, todo |-> {}])

\* Pages are read newest first, so one that changes meanwhile may be skipped.
\* Reading it before the change is no different from an older delivery.
ListPullRequests(t) ==
  /\ task[t].pc = "list"
  /\ \E skipped \in SUBSET {w \in Work : github[w] # None /\ github[w].at >= Second(task[t].started)} :
       task' = [task EXCEPT ![t] = [task[t] EXCEPT !.pc = "write", !.todo =
         {github[w] : w \in {x \in Work \ skipped : github[x] # None /\ github[x].at >= task[t].since}}]]
  /\ UNCHANGED <<kind, clock, edits, github, sent, repo, work, filed, issue, commit,
                 suggestion, page>>

\* WithActiveRepo.
Fenced(t) == repo.active /\ repo.gen = task[t].gen

\* Mutant: an older event overwrites the newer row.
Upsert_AnyAge(v) == [phase |-> "stored", title |-> v.title, at |-> v.at]

\* UpsertPullRequestTx: an older version leaves the row, which is read back.
Upsert(v) ==
  IF work[v.work] = None \/ v.at >= work[v.work].at
    THEN [phase |-> "stored", title |-> v.title, at |-> v.at]
    ELSE work[v.work]

\* The keys that a text names and that resolve to an issue.
Named(title) == {k \in Refs[title] : issue[k] # "none"}

\* A link that exists is left as it is.
Linked(w, title) ==
  [k \in Issues |-> IF k \in Named(title) /\ filed[w][k] = "none" THEN "auto" ELSE filed[w][k]]

\* A write that the fence refuses is skipped without an error.
SyncPullRequest(t, v) ==
  /\ task[t].pc = "write" /\ v \in task[t].todo
  /\ IF Fenced(t)
       THEN /\ work' = [work EXCEPT ![v.work] = Upsert(v)]
            /\ filed' = [filed EXCEPT ![v.work] = Linked(v.work, Upsert(v).title)]
       ELSE UNCHANGED <<work, filed>>
  /\ task' = [task EXCEPT ![t] = IF task[t].started = None THEN Idle
                                 ELSE [task[t] EXCEPT !.todo = task[t].todo \ {v}]]
  /\ UNCHANGED <<kind, clock, edits, github, sent, repo, issue, commit, suggestion, page>>

\* UpsertCommitTx: a replayed push is a no-op.
SyncCommit(t) ==
  /\ task[t].pc = "push"
  /\ commit' = IF Fenced(t) /\ ~commit[task[t].work].pushed
                 THEN [commit EXCEPT ![task[t].work] = [pushed |-> TRUE, issue |-> task[t].issue]]
                 ELSE commit
  /\ task' = [task EXCEPT ![t] = Idle]
  /\ UNCHANGED <<kind, clock, edits, github, sent, repo, work, filed, issue, suggestion, page>>

\* Mutant: the start of the window is stored, not that of the synchronisation.
Stamp_Window(t) == task[t].since

Stamp(t) == task[t].started

\* Every pull request of the listing was written.
FinishReconcile(t) ==
  /\ task[t].pc = "write" /\ task[t].started # None /\ task[t].todo = {}
  /\ repo' = IF Fenced(t) THEN [repo EXCEPT !.synced = Stamp(t)] ELSE repo
  /\ task' = [task EXCEPT ![t] = Idle]
  /\ UNCHANGED <<kind, clock, edits, github, sent, work, filed, issue, commit, suggestion, page>>

\* An error, a crash, or a reconciliation that finds a newer generation; the
\* delivery or the hour brings it back.
Abandon(t) ==
  /\ task[t] # Idle
  /\ task' = [task EXCEPT ![t] = Idle]
  /\ UNCHANGED <<kind, clock, edits, github, sent, repo, work, filed, issue, commit,
                 suggestion, page>>

-----------------------------------------------------------------------------
(* The worker: suggestions.                                                *)

\* Work that is nowhere: neither linked nor filed, deleted or promoted.
Unfiled(w) ==
  /\ work[w] # None /\ work[w].phase = "stored"
  /\ \A k \in Issues : filed[w][k] = "none"

OpenIssues == {k \in Issues : issue[k] = "open"}

\* staleCondition.
Stale(w) ==
  LET s == suggestion[w]
  IN  \/ s = None
      \/ /\ s # None /\ ~s.accepted
         /\ \/ s.fingerprint # work[w].title
            \/ s.issue = None /\ s.newer \cap OpenIssues # {}
            \/ s.issue # None /\ ~s.dismissed /\ s.issue \notin OpenIssues

StaleSuggestionSubjects(t, w) ==
  /\ Unfiled(w) /\ Stale(w)
  /\ Begin(t, [pc |-> "subject", work |-> w, fingerprint |-> work[w].title])

SuggestionCandidates(t) ==
  /\ task[t].pc = "subject"
  /\ task' = [task EXCEPT ![t] = [pc |-> "asked", work |-> task[t].work,
                                  fingerprint |-> task[t].fingerprint, candidates |-> OpenIssues]]
  /\ UNCHANGED <<kind, clock, edits, github, sent, repo, work, filed, issue, commit,
                 suggestion, page>>

Answer(k, fingerprint, dismissed) ==
  [issue |-> k, fingerprint |-> fingerprint, dismissed |-> dismissed, accepted |-> FALSE,
   newer |-> {}]

\* Mutant: an answer also replaces what a person has accepted.
SaveSuggestion_Unguarded(t, k) ==
  LET w == task[t].work
      s == suggestion[w]
  IN  suggestion' = [suggestion EXCEPT ![w] =
        Answer(k, task[t].fingerprint, s # None /\ s.dismissed /\ s.issue = k)]

SaveSuggestion(t, k) ==
  LET w == task[t].work
      s == suggestion[w]
  IN  suggestion' = [suggestion EXCEPT ![w] =
        IF s # None /\ s.accepted THEN s
        ELSE Answer(k, task[t].fingerprint, s # None /\ s.dismissed /\ s.issue = k)]

\* Jev picks a candidate or none; the row is not read again before the write.
Suggest(t) ==
  /\ task[t].pc = "asked"
  /\ \E k \in task[t].candidates \cup {None} : SaveSuggestion(t, k)
  /\ task' = [task EXCEPT ![t] = Idle]
  /\ UNCHANGED <<kind, clock, edits, github, sent, repo, work, filed, issue, commit, page>>

-----------------------------------------------------------------------------
(* People.                                                                 *)

\* An answer "no match" is asked again once there is a newer issue.
IssueCreated(k) ==
  /\ issue' = [issue EXCEPT ![k] = "open"]
  /\ suggestion' = [w \in Work |-> IF suggestion[w] = None THEN None
                                   ELSE [suggestion[w] EXCEPT !.newer = @ \cup {k}]]

CreateIssue(k) ==
  /\ Edit
  /\ issue[k] = "none"
  /\ IssueCreated(k)
  /\ UNCHANGED <<kind, clock, github, sent, repo, work, filed, commit, task, page>>

SetIssueStatus(k) ==
  /\ Edit
  /\ issue[k] # "none"
  /\ issue' = [issue EXCEPT ![k] = IF @ = "open" THEN "closed" ELSE "open"]
  /\ UNCHANGED <<kind, clock, github, sent, repo, work, filed, commit, suggestion,
                 task, page>>

Link(w, k, source) == filed' = [filed EXCEPT ![w][k] = IF @ = "none" THEN source ELSE @]

ManualLink(w, k) ==
  /\ Edit
  /\ kind[w] = "pull_request" /\ work[w] # None /\ issue[k] # "none"
  /\ Link(w, k, "manual")
  /\ UNCHANGED <<kind, clock, github, sent, repo, work, issue, commit, suggestion,
                 task, page>>

Unlink(w, k) ==
  /\ Edit
  /\ kind[w] = "pull_request" /\ filed[w][k] # "none"
  /\ filed' = [filed EXCEPT ![w][k] = "none"]
  /\ UNCHANGED <<kind, clock, github, sent, repo, work, issue, commit, suggestion,
                 task, page>>

AttachCommit(w, k) ==
  /\ Edit
  /\ commit[w].pushed /\ issue[k] # "none"
  /\ commit' = [commit EXCEPT ![w].issue = k]
  /\ UNCHANGED <<kind, clock, github, sent, repo, work, filed, issue, suggestion,
                 task, page>>

CreateComment(w, title) ==
  /\ Edit
  /\ kind[w] = "note" /\ work[w] = None
  /\ work' = [work EXCEPT ![w] = [phase |-> "stored", title |-> title, at |-> 0]]
  /\ UNCHANGED <<kind, clock, github, sent, repo, filed, issue, commit, suggestion, task, page>>

Written(w) == kind[w] = "note" /\ work[w] # None /\ work[w].phase # "deleted"

\* By its author, also after it was promoted or filed.
UpdateComment(w, title) ==
  /\ Edit
  /\ Written(w)
  /\ work' = [work EXCEPT ![w].title = title]
  /\ UNCHANGED <<kind, clock, github, sent, repo, filed, issue, commit, suggestion, task, page>>

DeleteComment(w) ==
  /\ Edit
  /\ Written(w)
  /\ work' = [work EXCEPT ![w].phase = "deleted"]
  /\ UNCHANGED <<kind, clock, github, sent, repo, filed, issue, commit, suggestion,
                 task, page>>

OnProject(w) == \A k \in Issues : filed[w][k] = "none"

\* The note stays, with the key of the new issue appended.
PromoteCommentToIssue(w, k, title) ==
  /\ Edit
  /\ Written(w) /\ OnProject(w)
  /\ issue[k] = "none"
  /\ work' = [work EXCEPT ![w].phase = "promoted", ![w].title = title]
  /\ IssueCreated(k)
  /\ UNCHANGED <<kind, clock, github, sent, repo, filed, commit, task, page>>

Open(s) == s # None /\ s.issue # None /\ ~s.dismissed /\ ~s.accepted

\* The Unlinked work page.
ViewSuggestion(u, w) ==
  /\ Unfiled(w) /\ Open(suggestion[w]) /\ suggestion[w].issue \in OpenIssues
  /\ page' = [page EXCEPT ![u] = [work |-> w, issue |-> suggestion[w].issue]]
  /\ UNCHANGED <<kind, clock, edits, github, sent, repo, work, filed, issue, commit,
                 suggestion, task>>

\* Accepting names the suggestion, not its issue.  A note must still be there.
AcceptSuggestion(u) ==
  /\ page[u] # None
  /\ LET w == page[u].work
         s == suggestion[w]
     IN  /\ Open(s) /\ s.issue \in OpenIssues
         /\ kind[w] = "note" => Written(w) /\ OnProject(w)
         /\ Link(w, s.issue, "suggested")
         /\ suggestion' = [suggestion EXCEPT ![w].accepted = TRUE, ![w].newer = {}]
  /\ page' = [page EXCEPT ![u] = None]
  /\ UNCHANGED <<kind, clock, edits, github, sent, repo, work, issue, commit, task>>

DismissSuggestion(u) ==
  /\ page[u] # None /\ Open(suggestion[page[u].work])
  /\ suggestion' = [suggestion EXCEPT ![page[u].work].dismissed = TRUE,
                                      ![page[u].work].newer = {}]
  /\ page' = [page EXCEPT ![u] = None]
  /\ UNCHANGED <<kind, clock, edits, github, sent, repo, work, filed, issue, commit, task>>

-----------------------------------------------------------------------------
AtGitHub == (\E w \in Work, title \in Titles : GitHubUpdate(w, title))
            \/ (\E active \in BOOLEAN : RepoChanges(active))

Handle(t) ==
  \/ \E v \in sent : HandlePullRequest(t, v)
  \/ \E w \in Work : HandleReview(t, w) \/ HandlePush(t, w)
  \/ SyncCommit(t)

Reconcile(t) ==
  \/ ReconcileRepo(t) \/ ListPullRequests(t) \/ FinishReconcile(t) \/ Abandon(t)
  \/ task[t].pc = "write" /\ \E v \in task[t].todo : SyncPullRequest(t, v)

SuggestOnce(t) ==
  (\E w \in Work : StaleSuggestionSubjects(t, w)) \/ SuggestionCandidates(t) \/ Suggest(t)

EditIssues(k) ==
  \/ CreateIssue(k) \/ SetIssueStatus(k)
  \/ \E w \in Work : ManualLink(w, k) \/ Unlink(w, k) \/ AttachCommit(w, k)

EditNotes(w) ==
  \/ \E title \in Titles : CreateComment(w, title) \/ UpdateComment(w, title)
  \/ DeleteComment(w)
  \/ \E k \in Issues, title \in Titles : PromoteCommentToIssue(w, k, title)

Decide(u) ==
  (\E w \in Work : ViewSuggestion(u, w)) \/ AcceptSuggestion(u) \/ DismissSuggestion(u)

Next ==
  \/ Tick \/ AtGitHub
  \/ \E t \in Loops : Reconcile(t)
  \/ \E t \in Queues : Handle(t) \/ SuggestOnce(t)
  \/ \E k \in Issues : EditIssues(k)
  \/ \E w \in Work : EditNotes(w)
  \/ \E u \in People : Decide(u)

Spec == Init /\ [][Next]_vars

-----------------------------------------------------------------------------
(* Properties.                                                             *)

\* Types.
TypeOK ==
  /\ kind \in [Work -> Kinds]
  /\ clock \in Nat /\ edits \in Nat
  /\ github \in [Work -> Version \cup {None}]
  /\ sent \subseteq Version
  /\ repo \in [gen: Nat, active: BOOLEAN, synced: Nat \cup {None}]
  /\ work \in [Work -> Row \cup {None}]
  /\ filed \in [Work -> [Issues -> Sources]]
  /\ issue \in [Issues -> {"none", "open", "closed"}]
  /\ commit \in [Work -> CommitRow]
  /\ suggestion \in [Work -> Suggestion \cup {None}]
  /\ task \in [Loops -> {Idle} \cup Sync \cup Push \cup Question]
  /\ page \in [People -> [work: Work, issue: Issues] \cup {None}]

\* A pull request that Velvet has not, or has in an older version, is in the
\* window of the next reconciliation: whatever was lost, refused, skipped or
\* abandoned before, nothing has to be delivered again.
Behind(w) == github[w] # None /\ (work[w] = None \/ work[w].at < github[w].at)

NothingMissed == \A w \in Work : Behind(w) => github[w].at >= Since

\* A late delivery neither brings back an older version nor links an issue
\* that the newest version does not name.
NewestWins ==
  [][\A w \in Work :
       /\ work[w] # None => work'[w].at >= work[w].at
       /\ \A k \in Issues : filed[w][k] = "none" /\ filed'[w][k] = "auto"
            => k \in Refs[work'[w].title]]_vars

\* No single step of a worker overrules a person: it changes no link that
\* exists, no issue of a pushed commit, no status of an issue, no accepted
\* suggestion, and no dismissal while it suggests the same issue.  It may add
\* the link that somebody removed (linkPullRequest), and a dismissal is gone
\* once another answer replaces the suggestion (SaveSuggestion).
NoStepOverrules ==
  [][task' # task =>
       /\ issue' = issue
       /\ \A w \in Work, k \in Issues : filed[w][k] # "none" => filed'[w][k] = filed[w][k]
       /\ \A w \in Work : commit[w].pushed => commit'[w] = commit[w]
       /\ \A w \in Work : suggestion[w] # None =>
            /\ suggestion[w].accepted => suggestion'[w] = suggestion[w]
            /\ suggestion[w].dismissed /\ suggestion'[w].issue = suggestion[w].issue
                 => suggestion'[w].dismissed]_vars

\* 0013_link_suggestions.sql: an accepted suggestion "shows that a person
\* confirmed a suggested link".  A link is made to the issue somebody saw.
PersonConfirmed ==
  [][\A w \in Work, k \in Issues : filed[w][k] = "none" /\ filed'[w][k] = "suggested"
       => \E u \in People : page[u] = [work |-> w, issue |-> k]]_vars

=============================================================================
