------------------------------ MODULE JobQueue ------------------------------
(***************************************************************************)
(* The Postgres job queue: RecordDelivery stores a webhook and enqueues    *)
(* its job in one transaction; workers claim jobs under a five minute      *)
(* lease, run the handler and settle the job with CompleteJob or FailJob.  *)
(* The number of claims a job has had (attempts) is the generation that    *)
(* fences a worker whose lease ran out.                                    *)
(*                                                                         *)
(* Time is abstract.  A waiting job is ready when its run_after has        *)
(* passed; RunAfterElapses makes it so, whatever put run_after in the      *)
(* future (a lease or a backoff).  Every SQL statement of job.go touches   *)
(* one row and is one action.  An enqueued job is identified with its      *)
(* delivery: RecordDelivery creates one job per stored delivery.           *)
(***************************************************************************)
EXTENDS Naturals

CONSTANTS
  Deliveries,    \* GitHub delivery ids
  Workers,       \* worker loops (worker.Run), in one process or several
  MaxAttempts,   \* maxJobAttempts; the code's value is 5
  MaxCrashes,    \* bound: workers that die, or lose the database, mid-job
  MaxOverruns    \* bound: leases that run out under a worker still running

ASSUME BoundsAssumption ==
  /\ MaxAttempts \in Nat \ {0}
  /\ MaxCrashes \in Nat
  /\ MaxOverruns \in Nat

VARIABLES
  event,      \* event[d]: the github_event row; "processed" has processed_at
  job,        \* job[d]: the job row, or where it went
  attempts,   \* attempts[d]: job.attempts, the number of claims so far
  ready,      \* the waiting jobs whose run_after has passed
  older,      \* <<d, e>>: both ready, and run_after of d came first
  worker,     \* worker[w]: program counter, claimed job and its generation
  applied,    \* deliveries whose handler committed its writes
  crashes,    \* workers lost so far
  overruns    \* leases overrun so far

vars == <<event, job, attempts, ready, older, worker, applied, crashes, overruns>>

EventStates == {"absent", "stored", "processed", "purged"}
JobStates == {"absent", "waiting", "completed", "dead", "purged"}
BusyPC == {"running", "written", "handled", "failing"}

\* A worker outside ProcessOnce, and one that claimed d as generation g.
Idle == [pc |-> "idle"]
Claim(pc, d, g) == [pc |-> pc, job |-> d, gen |-> g]

Busy(w) == worker[w].pc # "idle"
Holds(w, d) == Busy(w) /\ worker[w].job = d

\* The claim of w is the newest one on its job: what the WHERE clauses of
\* CompleteJob and FailJob test.
IsCurrent(w) ==
  /\ job[worker[w].job] = "waiting"
  /\ worker[w].gen = attempts[worker[w].job]

Init ==
  /\ event = [d \in Deliveries |-> "absent"]
  /\ job = [d \in Deliveries |-> "absent"]
  /\ attempts = [d \in Deliveries |-> 0]
  /\ ready = {}
  /\ older = {}
  /\ worker = [w \in Workers |-> Idle]
  /\ applied = {}
  /\ crashes = 0
  /\ overruns = 0

MakeReady(d) ==
  /\ older' = older \cup (ready \X {d})
  /\ ready' = ready \cup {d}

RemoveReady(d) ==
  /\ ready' = ready \ {d}
  /\ older' = {p \in older : d \notin {p[1], p[2]}}

(***************************************************************************)
(* The webhook endpoint.  GitHub redelivers freely; ON CONFLICT makes a    *)
(* known delivery id a no-op.  GitHub forgets a delivery after three days  *)
(* and the event row lives for thirty, so a purged id does not return.     *)
(***************************************************************************)

\* Mutant: the event is committed but its job is not enqueued with it.
RecordDelivery_NoJob(d) ==
  /\ event[d] = "absent"
  /\ event' = [event EXCEPT ![d] = "stored"]
  /\ UNCHANGED <<job, attempts, ready, older, worker, applied, crashes, overruns>>

RecordDelivery(d) ==
  \/ /\ event[d] = "absent"
     /\ event' = [event EXCEPT ![d] = "stored"]
     /\ job' = [job EXCEPT ![d] = "waiting"]
     /\ MakeReady(d)
     /\ UNCHANGED <<attempts, worker, applied, crashes, overruns>>
  \/ /\ event[d] \in {"stored", "processed"}
     /\ UNCHANGED vars

(***************************************************************************)
(* Claiming.                                                               *)
(***************************************************************************)

\* now() passes run_after.  A worker still holding the newest claim has
\* overrun its lease: from here the job may be claimed a second time.
RunAfterElapses(d) ==
  /\ job[d] = "waiting" /\ d \notin ready
  /\ MakeReady(d)
  /\ IF \E w \in Workers : Holds(w, d) /\ IsCurrent(w)
       THEN overruns < MaxOverruns /\ overruns' = overruns + 1
       ELSE UNCHANGED overruns
  /\ UNCHANGED <<event, job, attempts, worker, applied, crashes>>

\* Mutant: attempts is only counted when the job fails, not when claimed.
ClaimJob_NoGeneration(w) ==
  /\ ~Busy(w)
  /\ \E d \in ready :
       /\ ~\E e \in ready : <<e, d>> \in older
       /\ RemoveReady(d)
       /\ worker' = [worker EXCEPT ![w] = Claim("running", d, attempts[d])]
  /\ UNCHANGED <<event, job, attempts, applied, crashes, overruns>>

\* Mutant: only jobs with attempts left are claimed, so one whose worker
\* died in the last attempt is never claimed again, nor dead-lettered.
ClaimJob_WithinAttempts(w) ==
  /\ ~Busy(w)
  /\ \E d \in ready :
       /\ attempts[d] < MaxAttempts
       /\ ~\E e \in ready : <<e, d>> \in older
       /\ RemoveReady(d)
       /\ attempts' = [attempts EXCEPT ![d] = @ + 1]
       /\ worker' = [worker EXCEPT ![w] = Claim("running", d, attempts[d] + 1)]
  /\ UNCHANGED <<event, job, applied, crashes, overruns>>

ClaimJob(w) ==
  /\ ~Busy(w)
  /\ \E d \in ready :
       /\ ~\E e \in ready : <<e, d>> \in older
       /\ RemoveReady(d)
       /\ attempts' = [attempts EXCEPT ![d] = @ + 1]
       /\ worker' = [worker EXCEPT ![w] = Claim("running", d, attempts[d] + 1)]
  /\ UNCHANGED <<event, job, applied, crashes, overruns>>

(***************************************************************************)
(* processDelivery: read the stored event, let the handler commit its      *)
(* writes, then stamp processed_at.  Any of the three can fail.            *)
(***************************************************************************)

Advance(w, from, to) ==
  /\ worker[w].pc = from
  /\ worker' = [worker EXCEPT ![w] = Claim(to, worker[w].job, worker[w].gen)]

\* DeliveryPayload finds no row: there is nothing to do and never will be.
DeliveryGone(w) ==
  /\ Advance(w, "running", "handled")
  /\ event[worker[w].job] = "purged"
  /\ UNCHANGED <<event, job, attempts, ready, older, applied, crashes, overruns>>

\* The handler's transaction commits.  A delivery nobody can attribute (an
\* unlinked repository, an unknown event type) has no writes to commit.
HandlerCommits(w) ==
  /\ Advance(w, "running", "written")
  /\ event[worker[w].job] # "purged"
  /\ applied' = applied \cup {worker[w].job}
  /\ UNCHANGED <<event, job, attempts, ready, older, crashes, overruns>>

\* Mutant: the delivery is stamped before its handler has run.
MarkDeliveryProcessed_Early(w) ==
  /\ Advance(w, "running", "handled")
  /\ event' = [event EXCEPT ![worker[w].job] = IF @ = "purged" THEN @ ELSE "processed"]
  /\ UNCHANGED <<job, attempts, ready, older, applied, crashes, overruns>>

\* An UPDATE by delivery id, which finds nothing when the row was purged.
MarkDeliveryProcessed(w) ==
  /\ Advance(w, "written", "handled")
  /\ event' = [event EXCEPT ![worker[w].job] = IF @ = "purged" THEN @ ELSE "processed"]
  /\ UNCHANGED <<job, attempts, ready, older, applied, crashes, overruns>>

HandlerFails(w) ==
  /\ Advance(w, "running", "failing") \/ Advance(w, "written", "failing")
  /\ UNCHANGED <<event, job, attempts, ready, older, applied, crashes, overruns>>

(***************************************************************************)
(* Settling the claim.  A stale claim settles nothing (ErrStaleJob) and    *)
(* the worker goes back to its loop.                                       *)
(***************************************************************************)

\* Mutant: DELETE FROM job WHERE id = $1.
CompleteJob_NoFence(w) ==
  /\ worker[w].pc = "handled"
  /\ job' = [job EXCEPT ![worker[w].job] = "completed"]
  /\ RemoveReady(worker[w].job)
  /\ worker' = [worker EXCEPT ![w] = Idle]
  /\ UNCHANGED <<event, attempts, applied, crashes, overruns>>

CompleteJob(w) ==
  /\ worker[w].pc = "handled"
  /\ worker' = [worker EXCEPT ![w] = Idle]
  /\ IF IsCurrent(w)
       THEN /\ job' = [job EXCEPT ![worker[w].job] = "completed"]
            /\ RemoveReady(worker[w].job)
       ELSE UNCHANGED <<job, ready, older>>
  /\ UNCHANGED <<event, attempts, applied, crashes, overruns>>

\* Mutant: the dead-letter test compares with > instead of >=.
FailJob_OffByOne(w) ==
  /\ worker[w].pc = "failing"
  /\ worker' = [worker EXCEPT ![w] = Idle]
  /\ IF IsCurrent(w)
       THEN /\ job' = [job EXCEPT ![worker[w].job] =
                         IF attempts[worker[w].job] > MaxAttempts THEN "dead" ELSE @]
            /\ RemoveReady(worker[w].job)
       ELSE UNCHANGED <<job, ready, older>>
  /\ UNCHANGED <<event, attempts, applied, crashes, overruns>>

\* Mutant: the dead letter is stored in a state of its own.
FailJob_UnknownState(w) ==
  /\ worker[w].pc = "failing"
  /\ worker' = [worker EXCEPT ![w] = Idle]
  /\ IF IsCurrent(w)
       THEN /\ job' = [job EXCEPT ![worker[w].job] =
                         IF attempts[worker[w].job] >= MaxAttempts THEN "failed" ELSE @]
            /\ RemoveReady(worker[w].job)
       ELSE UNCHANGED <<job, ready, older>>
  /\ UNCHANGED <<event, attempts, applied, crashes, overruns>>

\* Retry after a backoff, or dead-letter once the attempts are burned.
FailJob(w) ==
  /\ worker[w].pc = "failing"
  /\ worker' = [worker EXCEPT ![w] = Idle]
  /\ IF IsCurrent(w)
       THEN /\ job' = [job EXCEPT ![worker[w].job] =
                         IF attempts[worker[w].job] >= MaxAttempts THEN "dead" ELSE @]
            /\ RemoveReady(worker[w].job)
       ELSE UNCHANGED <<job, ready, older>>
  /\ UNCHANGED <<event, attempts, applied, crashes, overruns>>

\* The process dies or loses the database anywhere in ProcessOnce: the
\* claim is abandoned and only the lease gives the job back.
Crash(w) ==
  /\ Busy(w)
  /\ crashes < MaxCrashes
  /\ crashes' = crashes + 1
  /\ worker' = [worker EXCEPT ![w] = Idle]
  /\ UNCHANGED <<event, job, attempts, ready, older, applied, overruns>>

(***************************************************************************)
(* The daily clean-up, thirty days later.                                  *)
(***************************************************************************)

PurgeEvent(d) ==
  /\ event[d] = "processed"
  /\ event' = [event EXCEPT ![d] = "purged"]
  /\ UNCHANGED <<job, attempts, ready, older, worker, applied, crashes, overruns>>

PurgeDeadJob(d) ==
  /\ job[d] = "dead"
  /\ job' = [job EXCEPT ![d] = "purged"]
  /\ UNCHANGED <<event, attempts, ready, older, worker, applied, crashes, overruns>>

Handler(w) ==
  \/ DeliveryGone(w) \/ HandlerCommits(w) \/ MarkDeliveryProcessed(w)
  \/ HandlerFails(w) \/ CompleteJob(w) \/ FailJob(w)

Next ==
  \/ \E d \in Deliveries :
       RecordDelivery(d) \/ RunAfterElapses(d) \/ PurgeEvent(d) \/ PurgeDeadJob(d)
  \/ \E w \in Workers : ClaimJob(w) \/ Handler(w) \/ Crash(w)

Spec == Init /\ [][Next]_vars

\* worker.Run loops for as long as the process lives and every handler call
\* returns, so each worker keeps claiming and settling; and time passes.
\* Nothing obliges GitHub to deliver, a worker to crash or the clean-up to run.
Fairness ==
  /\ \A w \in Workers : WF_vars(ClaimJob(w)) /\ WF_vars(Handler(w))
  /\ \A d \in Deliveries : WF_vars(RunAfterElapses(d))

FairSpec == Spec /\ Fairness

-----------------------------------------------------------------------------

\* Every variable has its type.
TypeOK ==
  /\ event \in [Deliveries -> EventStates]
  /\ job \in [Deliveries -> JobStates]
  /\ attempts \in [Deliveries -> Nat]
  /\ ready \subseteq Deliveries
  /\ older \subseteq Deliveries \X Deliveries
  /\ worker \in [Workers -> {Idle} \cup [pc : BusyPC, job : Deliveries, gen : Nat]]
  /\ applied \subseteq Deliveries
  /\ crashes \in 0..MaxCrashes
  /\ overruns \in 0..MaxOverruns

\* job.go, ClaimJob: "Attempts is the claim generation that fences
\* completion and failure".  However leases overlap, two workers are never
\* in possession of the same job under the same generation.
SoleGeneration ==
  \A v, w \in Workers :
    Busy(v) /\ Busy(w) /\ worker[v].job = worker[w].job /\ worker[v].gen = worker[w].gen
      => v = w

\* job.go, CompleteJob: "prevents a late worker from deleting a job that has
\* since been reclaimed".  While the worker with the newest claim is still
\* at work, nobody else completes, dead-letters or purges its job.
NewestClaimIsLive ==
  \A w \in Workers :
    Busy(w) /\ worker[w].gen = attempts[worker[w].job] => job[worker[w].job] = "waiting"

\* github_event.go: "a stored delivery always has a job".  A delivery that
\* was accepted and is not yet processed still has a job that will run, or
\* was dead-lettered; and a delivery is processed only after its handler's
\* writes were committed.
NoDeliveryLost ==
  \A d \in Deliveries :
    /\ event[d] = "stored" => job[d] \in {"waiting", "dead", "purged"}
    /\ event[d] \in {"processed", "purged"} => d \in applied

\* job.go, maxJobAttempts: a job is claimed more than MaxAttempts times only
\* because a worker crashed or overran its lease, once for each extra claim.
RetriesAccounted ==
  \A d \in Deliveries : attempts[d] <= MaxAttempts + crashes + overruns

\* job.go, maxJobAttempts: "is where retrying stops".
RetryingStops == \A d \in Deliveries : attempts[d] <= MaxAttempts

\* ClaimJob's comment: a worker that crashes mid-job "releases its work
\* automatically rather than losing it".  Every accepted delivery is in the
\* end processed, or its job is left as a dead letter.
EveryDeliverySettles ==
  \A d \in Deliveries :
    event[d] = "stored" ~> event[d] # "stored" \/ job[d] \in {"dead", "purged"}

\* The queue drains: every job that was ever enqueued leaves it or dies.
QueueDrains ==
  \A d \in Deliveries : job[d] = "waiting" ~> job[d] # "waiting"

-----------------------------------------------------------------------------
(***************************************************************************)
(* The queue implements Delivery: a delivery is done once processed_at is  *)
(* set, given up when its job is a dead letter.                            *)
(***************************************************************************)

Status(d) ==
  IF event[d] = "absent" THEN "unseen"
  ELSE IF event[d] # "stored" THEN "done"
  ELSE IF job[d] \in {"dead", "purged"} THEN "givenup" ELSE "accepted"

Abstract == INSTANCE Delivery WITH
  status <- [d \in Deliveries |-> Status(d)], handled <- applied

\* Every step of the queue is a step of Delivery or invisible to it.
ImplementsDelivery == Abstract!Spec

=============================================================================
