------------------------------ MODULE Delivery ------------------------------
(***************************************************************************)
(* What Velvet promises GitHub about a webhook delivery it answered with   *)
(* 200: the delivery is never forgotten.  It is handled (perhaps more than *)
(* once), or it is given up and left visible to an operator.  Nothing here *)
(* mentions jobs, leases, attempts or workers: JobQueue implements this.   *)
(***************************************************************************)

CONSTANT Deliveries     \* GitHub delivery ids

VARIABLES
  status,    \* status[d]: "unseen", "accepted", "givenup" or "done"
  handled    \* the deliveries whose effects have been committed

vars == <<status, handled>>

Statuses == {"unseen", "accepted", "givenup", "done"}

Init ==
  /\ status = [d \in Deliveries |-> "unseen"]
  /\ handled = {}

Accept(d) ==
  /\ status[d] = "unseen"
  /\ status' = [status EXCEPT ![d] = "accepted"]
  /\ UNCHANGED handled

\* The effects are idempotent, so applying them again is a stutter.
Handle(d) ==
  /\ status[d] # "unseen"
  /\ handled' = handled \cup {d}
  /\ UNCHANGED status

\* A slow handler may still finish a delivery its successors gave up.
Finish(d) ==
  /\ status[d] \in {"accepted", "givenup"}
  /\ d \in handled
  /\ status' = [status EXCEPT ![d] = "done"]
  /\ UNCHANGED handled

GiveUp(d) ==
  /\ status[d] = "accepted"
  /\ status' = [status EXCEPT ![d] = "givenup"]
  /\ UNCHANGED handled

Next == \E d \in Deliveries : Accept(d) \/ Handle(d) \/ Finish(d) \/ GiveUp(d)

Spec == Init /\ [][Next]_vars

=============================================================================
