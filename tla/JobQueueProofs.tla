--------------------------- MODULE JobQueueProofs ---------------------------
(***************************************************************************)
(* The safety of the job queue for every number of deliveries, workers,    *)
(* crashes and lease overruns, and its implementation of Delivery.         *)
(***************************************************************************)
EXTENDS JobQueue, TLAPS

-----------------------------------------------------------------------------
(* The inductive invariant, in four parts: types, the fate of a delivery,  *)
(* the fence, and the account of retries.                                  *)

\* Only waiting jobs are ready, and a job exists as soon as its event does.
RowsAgree ==
  /\ \A d \in ready : job[d] = "waiting"
  /\ \A d \in Deliveries : job[d] = "absent" <=> event[d] = "absent"

\* What a worker's place in processDelivery says of its delivery, and a
\* completed job of its own.
HandlerProgress ==
  /\ \A w \in Workers :
       /\ Busy(w) => job[worker[w].job] # "absent"
       /\ worker[w].pc = "written" => worker[w].job \in applied
       /\ worker[w].pc = "handled" => event[worker[w].job] # "stored"
  /\ \A d \in Deliveries : job[d] = "completed" => event[d] # "stored"

DeliveryInv == RowsAgree /\ HandlerProgress /\ NoDeliveryLost

\* No claim is newer than its job's generation.
ClaimsAreOld ==
  \A w \in Workers : Busy(w) => worker[w].gen <= attempts[worker[w].job]

FenceInv == ClaimsAreOld /\ SoleGeneration /\ NewestClaimIsLive

\* The lease on d is running under the worker with the newest claim.
Leased(d) == d \notin ready /\ \E w \in Workers : Holds(w, d) /\ IsCurrent(w)

\* A job nobody holds under a running lease, or not yet enqueued, can be
\* claimed once more without exceeding the account of retries.
RoomForClaim ==
  \A d \in Deliveries :
    job[d] \in {"absent", "waiting"} /\ ~Leased(d) => attempts[d] < MaxAttempts + crashes + overruns

RetryInv == RoomForClaim /\ RetriesAccounted

IInv == TypeOK /\ DeliveryInv /\ FenceInv /\ RetryInv

-----------------------------------------------------------------------------
(* The initial state and one lemma per action.                             *)

\* A busy worker carries a claim on some job.
LEMMA BusyClaim ==
  ASSUME TypeOK, NEW w \in Workers
  PROVE  /\ Busy(w) => worker[w] \in [pc : BusyPC, job : Deliveries, gen : Nat]
         /\ worker[w].pc \in BusyPC => Busy(w)
BY DEF TypeOK, Busy, Idle, BusyPC

\* Every part of the invariant holds of the empty queue.
LEMMA InitIInv == Init => IInv
<1> SUFFICES ASSUME Init PROVE IInv
  OBVIOUS
<1>1. TypeOK
  BY BoundsAssumption DEF Init, TypeOK, EventStates, JobStates
<1>2. DeliveryInv /\ FenceInv
  BY DEF Init, DeliveryInv, RowsAgree, HandlerProgress, NoDeliveryLost, FenceInv,
       ClaimsAreOld, SoleGeneration, NewestClaimIsLive, Busy, Idle
<1>3. RetryInv
  BY BoundsAssumption DEF Init, RetryInv, RoomForClaim, RetriesAccounted
<1> QED BY <1>1, <1>2, <1>3 DEF IInv

\* A step that changes no variable keeps the invariant.
LEMMA StutterIInv ==
  ASSUME IInv, UNCHANGED vars
  PROVE  IInv'
<1>1. TypeOK'
  BY DEF IInv, vars, TypeOK
<1>2. DeliveryInv'
  BY DEF IInv, vars, DeliveryInv, RowsAgree, HandlerProgress, NoDeliveryLost, Busy
<1>3. FenceInv'
  BY DEF IInv, vars, FenceInv, ClaimsAreOld, SoleGeneration, NewestClaimIsLive, Busy
<1>4. RetryInv'
  BY DEF IInv, vars, RetryInv, RoomForClaim, RetriesAccounted, Leased, Holds,
       IsCurrent, Busy
<1> QED BY <1>1, <1>2, <1>3, <1>4 DEF IInv

\* A new delivery brings its event and its job; a known one changes nothing.
LEMMA RecordDeliveryIInv ==
  ASSUME IInv, NEW d \in Deliveries, RecordDelivery(d)
  PROVE  IInv'
<1>1. CASE event[d] = "absent"
  <2>1. /\ event' = [event EXCEPT ![d] = "stored"]
        /\ job' = [job EXCEPT ![d] = "waiting"]
        /\ MakeReady(d)
        /\ UNCHANGED <<attempts, worker, applied, crashes, overruns>>
    BY <1>1 DEF RecordDelivery
  <2>2. job[d] = "absent" /\ d \notin ready
    BY <1>1 DEF IInv, DeliveryInv, RowsAgree
  <2>3. \A w \in Workers : Busy(w) => worker[w].job # d
    BY <2>2 DEF IInv, DeliveryInv, HandlerProgress
  <2>4. TypeOK'
    BY <2>1 DEF IInv, TypeOK, MakeReady, EventStates, JobStates
  <2>5. DeliveryInv'
    BY <2>1, <2>2, <2>3, BusyClaim
    DEF IInv, TypeOK, DeliveryInv, RowsAgree, HandlerProgress, NoDeliveryLost,
        MakeReady, Busy, BusyPC
  <2>6. FenceInv'
    BY <2>1, <2>3, BusyClaim
    DEF IInv, TypeOK, FenceInv, ClaimsAreOld, SoleGeneration, NewestClaimIsLive, Busy
  <2>7. RetryInv'
    BY <2>1, <2>2, <2>3, BusyClaim, BoundsAssumption
    DEF IInv, TypeOK, RetryInv, RoomForClaim, RetriesAccounted, Leased, Holds,
        IsCurrent, MakeReady, Busy
  <2> QED BY <2>4, <2>5, <2>6, <2>7 DEF IInv
<1>2. CASE event[d] # "absent"
  <2>1. UNCHANGED vars
    BY <1>2 DEF RecordDelivery
  <2> QED BY <2>1, StutterIInv
<1> QED BY <1>1, <1>2

\* A lease that runs out under its worker is one more overrun.
LEMMA RunAfterElapsesIInv ==
  ASSUME IInv, NEW d \in Deliveries, RunAfterElapses(d)
  PROVE  IInv'
<1>1. TypeOK'
  BY BoundsAssumption DEF IInv, TypeOK, EventStates, JobStates, BusyPC, Busy,
       MakeReady, RunAfterElapses
<1>2. DeliveryInv'
  BY DEF IInv, TypeOK, DeliveryInv, RowsAgree, HandlerProgress, NoDeliveryLost,
       Busy, MakeReady, RunAfterElapses
<1>3. FenceInv'
  BY DEF IInv, TypeOK, DeliveryInv, RowsAgree, HandlerProgress, FenceInv,
       ClaimsAreOld, SoleGeneration, NewestClaimIsLive, Busy, MakeReady,
       RunAfterElapses
<1>4. RetryInv'
  BY BoundsAssumption DEF IInv, TypeOK, DeliveryInv, RowsAgree, HandlerProgress,
       FenceInv, ClaimsAreOld, SoleGeneration, RetryInv, RoomForClaim,
       RetriesAccounted, Leased, Holds, IsCurrent, Busy, MakeReady, RunAfterElapses
<1> QED BY <1>1, <1>2, <1>3, <1>4 DEF IInv

\* Only processed events are purged.
LEMMA PurgeEventIInv ==
  ASSUME IInv, NEW d \in Deliveries, PurgeEvent(d)
  PROVE  IInv'
<1>1. TypeOK'
  BY BoundsAssumption DEF IInv, TypeOK, EventStates, JobStates, BusyPC, Busy,
       PurgeEvent
<1>2. DeliveryInv'
  BY DEF IInv, TypeOK, DeliveryInv, RowsAgree, HandlerProgress, NoDeliveryLost,
       Busy, PurgeEvent
<1>3. FenceInv'
  BY DEF IInv, TypeOK, DeliveryInv, RowsAgree, HandlerProgress, FenceInv,
       ClaimsAreOld, SoleGeneration, NewestClaimIsLive, Busy, PurgeEvent
<1>4. RetryInv'
  BY BoundsAssumption DEF IInv, TypeOK, DeliveryInv, RowsAgree, HandlerProgress,
       FenceInv, ClaimsAreOld, SoleGeneration, RetryInv, RoomForClaim,
       RetriesAccounted, Leased, Holds, IsCurrent, Busy, PurgeEvent
<1> QED BY <1>1, <1>2, <1>3, <1>4 DEF IInv

\* Only dead jobs are purged.
LEMMA PurgeDeadJobIInv ==
  ASSUME IInv, NEW d \in Deliveries, PurgeDeadJob(d)
  PROVE  IInv'
<1>1. TypeOK'
  BY BoundsAssumption DEF IInv, TypeOK, EventStates, JobStates, BusyPC, Busy,
       PurgeDeadJob
<1>2. DeliveryInv'
  BY DEF IInv, TypeOK, DeliveryInv, RowsAgree, HandlerProgress, NoDeliveryLost,
       Busy, PurgeDeadJob
<1>3. FenceInv'
  BY DEF IInv, TypeOK, DeliveryInv, RowsAgree, HandlerProgress, FenceInv,
       ClaimsAreOld, SoleGeneration, NewestClaimIsLive, Busy, PurgeDeadJob
<1>4. RetryInv'
  BY BoundsAssumption DEF IInv, TypeOK, DeliveryInv, RowsAgree, HandlerProgress,
       FenceInv, ClaimsAreOld, SoleGeneration, RetryInv, RoomForClaim,
       RetriesAccounted, Leased, Holds, IsCurrent, Busy, PurgeDeadJob
<1> QED BY <1>1, <1>2, <1>3, <1>4 DEF IInv

\* The new generation is larger than any claim on the job.
LEMMA ClaimJobIInv ==
  ASSUME IInv, NEW w \in Workers, ClaimJob(w)
  PROVE  IInv'
<1>1. TypeOK'
  BY BusyClaim, BoundsAssumption DEF IInv, TypeOK, EventStates, JobStates, BusyPC,
       Busy, RemoveReady, Claim, ClaimJob
<1>2. DeliveryInv'
  BY BusyClaim DEF IInv, TypeOK, DeliveryInv, RowsAgree, HandlerProgress,
       NoDeliveryLost, Busy, RemoveReady, Claim, ClaimJob
<1>3. FenceInv'
  BY BusyClaim DEF IInv, TypeOK, DeliveryInv, RowsAgree, HandlerProgress, FenceInv,
       ClaimsAreOld, SoleGeneration, NewestClaimIsLive, Busy, RemoveReady, Claim,
       ClaimJob
<1>4. RetryInv'
  <2>1. PICK d \in ready :
          /\ RemoveReady(d)
          /\ attempts' = [attempts EXCEPT ![d] = @ + 1]
          /\ worker' = [worker EXCEPT ![w] = Claim("running", d, attempts[d] + 1)]
    BY DEF ClaimJob
  <2>2. ~Busy(w) /\ UNCHANGED <<event, job, applied, crashes, overruns>>
    BY DEF ClaimJob
  <2>3. d \in Deliveries /\ job[d] = "waiting" /\ ~Leased(d)
    BY DEF IInv, TypeOK, DeliveryInv, RowsAgree, Leased
  <2>4. attempts[d] < MaxAttempts + crashes + overruns
    BY <2>3 DEF IInv, RetryInv, RoomForClaim
  <2>5. RetriesAccounted'
    BY <2>1, <2>2, <2>4, BoundsAssumption DEF IInv, TypeOK, RetryInv, RetriesAccounted
  <2>6. Leased(d)'
    BY <2>1, <2>2, <2>3 DEF Leased, Holds, IsCurrent, Busy, Claim, RemoveReady, IInv, TypeOK
  <2>7. ASSUME NEW e \in Deliveries, e # d, Leased(e) PROVE Leased(e)'
    BY <2>1, <2>2, <2>7 DEF Leased, Holds, IsCurrent, Busy, RemoveReady, IInv, TypeOK
  <2>8. RoomForClaim'
    BY <2>1, <2>2, <2>6, <2>7 DEF IInv, TypeOK, RetryInv, RoomForClaim
  <2> QED BY <2>5, <2>8 DEF RetryInv
<1> QED BY <1>1, <1>2, <1>3, <1>4 DEF IInv

\* The event was purged, so it had been processed.
LEMMA DeliveryGoneIInv ==
  ASSUME IInv, NEW w \in Workers, DeliveryGone(w)
  PROVE  IInv'
<1>1. TypeOK'
  BY BusyClaim, BoundsAssumption DEF IInv, TypeOK, EventStates, JobStates, BusyPC,
       Busy, Advance, Claim, DeliveryGone
<1>2. DeliveryInv'
  BY BusyClaim DEF IInv, TypeOK, DeliveryInv, RowsAgree, HandlerProgress,
       NoDeliveryLost, Busy, Advance, Claim, DeliveryGone
<1>3. FenceInv'
  BY BusyClaim DEF IInv, TypeOK, DeliveryInv, RowsAgree, HandlerProgress, FenceInv,
       ClaimsAreOld, SoleGeneration, NewestClaimIsLive, Busy, Advance, Claim,
       DeliveryGone
<1>4. RetryInv'
  BY BusyClaim, BoundsAssumption DEF IInv, TypeOK, DeliveryInv, RowsAgree,
       HandlerProgress, FenceInv, ClaimsAreOld, SoleGeneration, RetryInv,
       RoomForClaim, RetriesAccounted, Leased, Holds, IsCurrent, Busy, Advance,
       Claim, DeliveryGone
<1> QED BY <1>1, <1>2, <1>3, <1>4 DEF IInv

\* The handler commits before anything is stamped.
LEMMA HandlerCommitsIInv ==
  ASSUME IInv, NEW w \in Workers, HandlerCommits(w)
  PROVE  IInv'
<1>1. TypeOK'
  BY BusyClaim, BoundsAssumption DEF IInv, TypeOK, EventStates, JobStates, BusyPC,
       Busy, Advance, Claim, HandlerCommits
<1>2. DeliveryInv'
  BY BusyClaim DEF IInv, TypeOK, DeliveryInv, RowsAgree, HandlerProgress,
       NoDeliveryLost, Busy, Advance, Claim, HandlerCommits
<1>3. FenceInv'
  BY BusyClaim DEF IInv, TypeOK, DeliveryInv, RowsAgree, HandlerProgress, FenceInv,
       ClaimsAreOld, SoleGeneration, NewestClaimIsLive, Busy, Advance, Claim,
       HandlerCommits
<1>4. RetryInv'
  BY BusyClaim, BoundsAssumption DEF IInv, TypeOK, DeliveryInv, RowsAgree,
       HandlerProgress, FenceInv, ClaimsAreOld, SoleGeneration, RetryInv,
       RoomForClaim, RetriesAccounted, Leased, Holds, IsCurrent, Busy, Advance,
       Claim, HandlerCommits
<1> QED BY <1>1, <1>2, <1>3, <1>4 DEF IInv

\* The stamp comes after the commit.
LEMMA MarkDeliveryProcessedIInv ==
  ASSUME IInv, NEW w \in Workers, MarkDeliveryProcessed(w)
  PROVE  IInv'
<1>1. TypeOK'
  BY BusyClaim, BoundsAssumption DEF IInv, TypeOK, EventStates, JobStates, BusyPC,
       Busy, Advance, Claim, MarkDeliveryProcessed
<1>2. DeliveryInv'
  BY BusyClaim DEF IInv, TypeOK, DeliveryInv, RowsAgree, HandlerProgress,
       NoDeliveryLost, Busy, Advance, Claim, MarkDeliveryProcessed
<1>3. FenceInv'
  BY BusyClaim DEF IInv, TypeOK, DeliveryInv, RowsAgree, HandlerProgress, FenceInv,
       ClaimsAreOld, SoleGeneration, NewestClaimIsLive, Busy, Advance, Claim,
       MarkDeliveryProcessed
<1>4. RetryInv'
  BY BusyClaim, BoundsAssumption DEF IInv, TypeOK, DeliveryInv, RowsAgree,
       HandlerProgress, FenceInv, ClaimsAreOld, SoleGeneration, RetryInv,
       RoomForClaim, RetriesAccounted, Leased, Holds, IsCurrent, Busy, Advance,
       Claim, MarkDeliveryProcessed
<1> QED BY <1>1, <1>2, <1>3, <1>4 DEF IInv

\* A failure leaves every row alone.
LEMMA HandlerFailsIInv ==
  ASSUME IInv, NEW w \in Workers, HandlerFails(w)
  PROVE  IInv'
<1>1. TypeOK'
  BY BusyClaim, BoundsAssumption DEF IInv, TypeOK, EventStates, JobStates, BusyPC,
       Busy, Advance, Claim, HandlerFails
<1>2. DeliveryInv'
  BY BusyClaim DEF IInv, TypeOK, DeliveryInv, RowsAgree, HandlerProgress,
       NoDeliveryLost, Busy, Advance, Claim, HandlerFails
<1>3. FenceInv'
  BY BusyClaim DEF IInv, TypeOK, DeliveryInv, RowsAgree, HandlerProgress, FenceInv,
       ClaimsAreOld, SoleGeneration, NewestClaimIsLive, Busy, Advance, Claim,
       HandlerFails
<1>4. RetryInv'
  BY BusyClaim, BoundsAssumption DEF IInv, TypeOK, DeliveryInv, RowsAgree,
       HandlerProgress, FenceInv, ClaimsAreOld, SoleGeneration, RetryInv,
       RoomForClaim, RetriesAccounted, Leased, Holds, IsCurrent, Busy, Advance,
       Claim, HandlerFails
<1> QED BY <1>1, <1>2, <1>3, <1>4 DEF IInv

\* The fence: only the sole owner of the newest generation deletes.
LEMMA CompleteJobIInv ==
  ASSUME IInv, NEW w \in Workers, CompleteJob(w)
  PROVE  IInv'
<1>1. TypeOK'
  BY BusyClaim, BoundsAssumption DEF IInv, TypeOK, EventStates, JobStates, BusyPC,
       Busy, RemoveReady, Idle, IsCurrent, CompleteJob
<1>2. DeliveryInv'
  BY BusyClaim DEF IInv, TypeOK, DeliveryInv, RowsAgree, HandlerProgress,
       NoDeliveryLost, Busy, RemoveReady, Idle, IsCurrent, CompleteJob
<1>3. FenceInv'
  BY BusyClaim DEF IInv, TypeOK, DeliveryInv, RowsAgree, HandlerProgress, FenceInv,
       ClaimsAreOld, SoleGeneration, NewestClaimIsLive, Busy, RemoveReady, Idle,
       IsCurrent, CompleteJob
<1>4. RetryInv'
  BY BusyClaim, BoundsAssumption DEF IInv, TypeOK, DeliveryInv, RowsAgree,
       HandlerProgress, FenceInv, ClaimsAreOld, SoleGeneration, RetryInv,
       RoomForClaim, RetriesAccounted, Leased, Holds, IsCurrent, Busy, RemoveReady,
       Idle, CompleteJob
<1> QED BY <1>1, <1>2, <1>3, <1>4 DEF IInv

\* The fence again; a retry is granted only below MaxAttempts.
LEMMA FailJobIInv ==
  ASSUME IInv, NEW w \in Workers, FailJob(w)
  PROVE  IInv'
<1>1. TypeOK'
  BY BusyClaim, BoundsAssumption DEF IInv, TypeOK, EventStates, JobStates, BusyPC,
       Busy, RemoveReady, Idle, IsCurrent, FailJob
<1>2. DeliveryInv'
  BY BusyClaim DEF IInv, TypeOK, DeliveryInv, RowsAgree, HandlerProgress,
       NoDeliveryLost, Busy, RemoveReady, Idle, IsCurrent, FailJob
<1>3. FenceInv'
  BY BusyClaim DEF IInv, TypeOK, DeliveryInv, RowsAgree, HandlerProgress, FenceInv,
       ClaimsAreOld, SoleGeneration, NewestClaimIsLive, Busy, RemoveReady, Idle,
       IsCurrent, FailJob
<1>4. RetryInv'
  BY BusyClaim, BoundsAssumption DEF IInv, TypeOK, DeliveryInv, RowsAgree,
       HandlerProgress, FenceInv, ClaimsAreOld, SoleGeneration, RetryInv,
       RoomForClaim, RetriesAccounted, Leased, Holds, IsCurrent, Busy, RemoveReady,
       Idle, FailJob
<1> QED BY <1>1, <1>2, <1>3, <1>4 DEF IInv

\* A lost worker pays for the claim it wasted.
LEMMA CrashIInv ==
  ASSUME IInv, NEW w \in Workers, Crash(w)
  PROVE  IInv'
<1>1. TypeOK'
  BY BusyClaim, BoundsAssumption DEF IInv, TypeOK, EventStates, JobStates, BusyPC,
       Busy, Idle, Crash
<1>2. DeliveryInv'
  BY BusyClaim DEF IInv, TypeOK, DeliveryInv, RowsAgree, HandlerProgress,
       NoDeliveryLost, Busy, Idle, Crash
<1>3. FenceInv'
  BY BusyClaim DEF IInv, TypeOK, DeliveryInv, RowsAgree, HandlerProgress, FenceInv,
       ClaimsAreOld, SoleGeneration, NewestClaimIsLive, Busy, Idle, Crash
<1>4. RetryInv'
  BY BusyClaim, BoundsAssumption DEF IInv, TypeOK, DeliveryInv, RowsAgree,
       HandlerProgress, FenceInv, ClaimsAreOld, SoleGeneration, RetryInv,
       RoomForClaim, RetriesAccounted, Leased, Holds, IsCurrent, Busy, Idle, Crash
<1> QED BY <1>1, <1>2, <1>3, <1>4 DEF IInv

-----------------------------------------------------------------------------
(* The theorems. *)

\* Every step of the queue keeps the invariant.
LEMMA NextIInv == IInv /\ [Next]_vars => IInv'
<1> SUFFICES ASSUME IInv, [Next]_vars PROVE IInv'
  OBVIOUS
<1>1. ASSUME NEW d \in Deliveries, RecordDelivery(d) PROVE IInv'
  BY <1>1, RecordDeliveryIInv
<1>2. ASSUME NEW d \in Deliveries, RunAfterElapses(d) PROVE IInv'
  BY <1>2, RunAfterElapsesIInv
<1>3. ASSUME NEW d \in Deliveries, PurgeEvent(d) \/ PurgeDeadJob(d) PROVE IInv'
  BY <1>3, PurgeEventIInv, PurgeDeadJobIInv
<1>4. ASSUME NEW w \in Workers, ClaimJob(w) PROVE IInv'
  BY <1>4, ClaimJobIInv
<1>5. ASSUME NEW w \in Workers, Handler(w) PROVE IInv'
  BY <1>5, DeliveryGoneIInv, HandlerCommitsIInv, MarkDeliveryProcessedIInv,
     HandlerFailsIInv, CompleteJobIInv, FailJobIInv DEF Handler
<1>6. ASSUME NEW w \in Workers, Crash(w) PROVE IInv'
  BY <1>6, CrashIInv
<1>7. CASE UNCHANGED vars
  BY <1>7, StutterIInv
<1> QED BY <1>1, <1>2, <1>3, <1>4, <1>5, <1>6, <1>7 DEF Next

\* The invariant holds in every reachable state.
THEOREM Invariance == Spec => []IInv
BY InitIInv, NextIInv, PTL DEF Spec

\* Type correctness, for every value of the constants.
THEOREM TypeCorrect == Spec => []TypeOK
<1>1. IInv => TypeOK
  BY DEF IInv
<1> QED BY <1>1, Invariance, PTL

\* The fence of job.go: no two workers share a generation.
THEOREM Fencing == Spec => []SoleGeneration
<1>1. IInv => SoleGeneration
  BY DEF IInv, FenceInv
<1> QED BY <1>1, Invariance, PTL

\* CompleteJob and FailJob compare generations, so that while the newest
\* claimant works its job is neither settled nor handed out under it.
THEOREM NewestClaimHolds == Spec => []NewestClaimIsLive
<1>1. IInv => NewestClaimIsLive
  BY DEF IInv, FenceInv
<1> QED BY <1>1, Invariance, PTL

\* RecordDelivery, processDelivery and CompleteJob together never lose an
\* accepted delivery.
THEOREM Durability == Spec => []NoDeliveryLost
<1>1. IInv => NoDeliveryLost
  BY DEF IInv, DeliveryInv
<1> QED BY <1>1, Invariance, PTL

\* Only crashes and lease overruns let a job be claimed more than
\* MaxAttempts times.
THEOREM RetryAccounting == Spec => []RetriesAccounted
<1>1. IInv => RetriesAccounted
  BY DEF IInv, RetryInv
<1> QED BY <1>1, Invariance, PTL

-----------------------------------------------------------------------------
(* The queue implements Delivery. *)

\* The empty queue is the initial state of Delivery.
LEMMA InitRefines == Init => Abstract!Init
BY DEF Init, Abstract!Init, Status

\* Delivery sees the event and job rows and the handled set only.
LEMMA SameRows ==
  ASSUME UNCHANGED <<event, job, applied>>
  PROVE  UNCHANGED Abstract!vars
BY DEF Abstract!vars, Status

\* Each step of the queue is a step of Delivery, or changes none of it.
LEMMA StepRefines ==
  ASSUME IInv, [Next]_vars
  PROVE  [Abstract!Next]_(Abstract!vars)
<1> DEFINE status == [d \in Deliveries |-> Status(d)]
<1>1. ASSUME NEW d \in Deliveries, RecordDelivery(d) PROVE Abstract!Accept(d) \/ UNCHANGED vars
  <2>1. CASE event[d] = "absent"
    <3>1. /\ event' = [event EXCEPT ![d] = "stored"]
          /\ job' = [job EXCEPT ![d] = "waiting"]
          /\ applied' = applied
      BY <1>1, <2>1 DEF RecordDelivery
    <3>2. status' = [status EXCEPT ![d] = "accepted"]
      BY <3>1 DEF Status, IInv, TypeOK
    <3> QED BY <2>1, <3>1, <3>2 DEF Abstract!Accept, Status
  <2> QED BY <1>1, <2>1 DEF RecordDelivery
<1>2. ASSUME NEW d \in Deliveries, RunAfterElapses(d) PROVE UNCHANGED Abstract!vars
  BY <1>2, SameRows DEF RunAfterElapses
<1>3. ASSUME NEW d \in Deliveries, PurgeEvent(d) \/ PurgeDeadJob(d)
      PROVE  UNCHANGED Abstract!vars
  BY <1>3 DEF PurgeEvent, PurgeDeadJob, Abstract!vars, Status, IInv, TypeOK
<1>4. ASSUME NEW w \in Workers, ClaimJob(w) \/ Crash(w) PROVE UNCHANGED Abstract!vars
  BY <1>4, SameRows DEF ClaimJob, Crash
<1>5. ASSUME NEW w \in Workers, DeliveryGone(w) \/ HandlerFails(w)
      PROVE  UNCHANGED Abstract!vars
  BY <1>5, SameRows DEF DeliveryGone, HandlerFails
<1>6. ASSUME NEW w \in Workers, HandlerCommits(w) PROVE Abstract!Handle(worker[w].job)
  <2>1. worker[w].job \in Deliveries /\ job[worker[w].job] # "absent"
    BY <1>6, BusyClaim
    DEF HandlerCommits, Advance, BusyPC, IInv, DeliveryInv, HandlerProgress
  <2>2. status[worker[w].job] # "unseen"
    BY <2>1 DEF Status, IInv, DeliveryInv, RowsAgree
  <2>3. status' = status
    BY <1>6 DEF HandlerCommits, Status
  <2> QED BY <1>6, <2>2, <2>3 DEF HandlerCommits, Abstract!Handle
<1>7. ASSUME NEW w \in Workers, MarkDeliveryProcessed(w)
      PROVE  Abstract!Finish(worker[w].job) \/ UNCHANGED Abstract!vars
  <2> DEFINE d == worker[w].job
  <2>1. d \in Deliveries /\ job[d] # "absent" /\ d \in applied
    BY <1>7, BusyClaim
    DEF MarkDeliveryProcessed, Advance, BusyPC, IInv, DeliveryInv, HandlerProgress
  <2>2. event[d] \in {"stored", "processed", "purged"}
    BY <2>1 DEF IInv, TypeOK, EventStates, DeliveryInv, RowsAgree
  <2>3. CASE event[d] = "stored"
    <3>1. status' = [status EXCEPT ![d] = "done"]
      BY <1>7, <2>1, <2>3 DEF MarkDeliveryProcessed, Status, IInv, TypeOK
    <3>2. status[d] \in {"accepted", "givenup"}
      BY <2>1, <2>3 DEF Status
    <3> QED BY <1>7, <2>1, <3>1, <3>2 DEF MarkDeliveryProcessed, Abstract!Finish
  <2>4. CASE event[d] # "stored"
    BY <1>7, <2>1, <2>2, <2>4
    DEF MarkDeliveryProcessed, Abstract!vars, Status, IInv, TypeOK
  <2> QED BY <2>3, <2>4
<1>8. ASSUME NEW w \in Workers, CompleteJob(w) PROVE UNCHANGED Abstract!vars
  <2>1. worker[w].job \in Deliveries /\ event[worker[w].job] # "stored"
    BY <1>8, BusyClaim
    DEF CompleteJob, BusyPC, IInv, DeliveryInv, HandlerProgress
  <2> QED BY <1>8, <2>1 DEF CompleteJob, Abstract!vars, Status, IInv, TypeOK
<1>9. ASSUME NEW w \in Workers, FailJob(w)
      PROVE  Abstract!GiveUp(worker[w].job) \/ UNCHANGED Abstract!vars
  <2> DEFINE d == worker[w].job
  <2>1. d \in Deliveries
    BY <1>9, BusyClaim DEF FailJob, BusyPC, IInv
  <2>2. CASE IsCurrent(w) /\ attempts[d] >= MaxAttempts /\ event[d] = "stored"
    <3>1. job[d] = "waiting" /\ job' = [job EXCEPT ![d] = "dead"] /\ UNCHANGED <<event, applied>>
      BY <1>9, <2>2 DEF FailJob, IsCurrent
    <3>2. status' = [status EXCEPT ![d] = "givenup"]
      BY <2>1, <2>2, <3>1 DEF Status, IInv, TypeOK
    <3> QED BY <2>1, <2>2, <3>1, <3>2 DEF Abstract!GiveUp, Status
  <2>3. CASE IsCurrent(w) /\ attempts[d] >= MaxAttempts /\ event[d] # "stored"
    BY <1>9, <2>1, <2>3 DEF FailJob, Abstract!vars, Status, IInv, TypeOK
  <2>4. CASE ~IsCurrent(w) \/ ~(attempts[d] >= MaxAttempts)
    <3>1. job' = job
      BY <1>9, <2>1, <2>4 DEF FailJob, IInv, TypeOK
    <3> QED BY <1>9, <3>1, SameRows DEF FailJob
  <2> QED BY <2>2, <2>3, <2>4
<1>10. CASE UNCHANGED vars
  BY <1>10, SameRows DEF vars
<1>11. UNCHANGED vars => UNCHANGED Abstract!vars
  BY SameRows DEF vars
<1>12. ASSUME NEW w \in Workers, Handler(w)
       PROVE  (\E d \in Deliveries : Abstract!Handle(d) \/ Abstract!Finish(d) \/ Abstract!GiveUp(d))
              \/ UNCHANGED Abstract!vars
  <2>1. worker[w].pc \in BusyPC
    BY <1>12 DEF Handler, DeliveryGone, HandlerCommits, MarkDeliveryProcessed,
         HandlerFails, CompleteJob, FailJob, Advance, BusyPC
  <2>2. worker[w].job \in Deliveries
    BY <2>1, BusyClaim DEF IInv
  <2> QED BY <1>12, <2>2, <1>5, <1>6, <1>7, <1>8, <1>9 DEF Handler
<1> QED BY <1>1, <1>2, <1>3, <1>4, <1>10, <1>11, <1>12 DEF Next, Abstract!Next

\* JobQueue implements Delivery: whatever workers, leases and crashes do,
\* what the outside sees of a delivery is what Delivery allows.
THEOREM Refinement == Spec => ImplementsDelivery
BY InitRefines, Invariance, StepRefines, PTL
DEF Spec, ImplementsDelivery, Abstract!Spec

=============================================================================
