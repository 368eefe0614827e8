------------------------------- MODULE Outbox -------------------------------
(***************************************************************************)
(* What the hand-over of private reports promises: every report that is    *)
(* recorded stays recorded until it has been delivered or rejected, it is  *)
(* delivered only once it is up for review, it is put up for review once,  *)
(* and what has been settled is not settled again.                         *)
(***************************************************************************)
CONSTANT Reports

VARIABLES
  entry,   \* [Reports -> "none", "pending", "delivered" or "rejected"]
  review   \* the reports that are up for review

Init == entry = [x \in Reports |-> "none"] /\ review = {}

Record(x) ==
  /\ entry[x] = "none"
  /\ entry' = [entry EXCEPT ![x] = "pending"]
  /\ UNCHANGED review

PutUp(x) ==
  /\ entry[x] # "none" /\ x \notin review
  /\ review' = review \cup {x}
  /\ UNCHANGED entry

Deliver(x) ==
  /\ entry[x] = "pending" /\ x \in review
  /\ entry' = [entry EXCEPT ![x] = "delivered"]
  /\ UNCHANGED review

Reject(x) ==
  /\ entry[x] = "pending"
  /\ entry' = [entry EXCEPT ![x] = "rejected"]
  /\ UNCHANGED review

\* Retention: settled entries only, many at a time.
Forget(X) ==
  /\ \A x \in X : entry[x] \in {"delivered", "rejected"}
  /\ entry' = [x \in Reports |-> IF x \in X THEN "none" ELSE entry[x]]
  /\ UNCHANGED review

Next ==
  \/ \E x \in Reports : Record(x) \/ PutUp(x) \/ Deliver(x) \/ Reject(x)
  \/ \E X \in SUBSET Reports : Forget(X)

Spec == Init /\ [][Next]_<<entry, review>>
=============================================================================
