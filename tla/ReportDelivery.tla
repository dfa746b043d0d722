--------------------------- MODULE ReportDelivery ---------------------------
(***************************************************************************)
(* What the analysis pipeline promises about a report, whatever happens to *)
(* its jobs: it is stored, and only then the job is reported as completed. *)
(* A delivered report may be withdrawn, when the job runs again, but it is *)
(* never lost.                                                             *)
(***************************************************************************)
CONSTANT Analyses

VARIABLE stage  \* of the report of each analysis

Init == stage = [a \in Analyses |-> "none"]

Store(a) == stage[a] = "none" /\ stage' = [stage EXCEPT ![a] = "stored"]
Deliver(a) == stage[a] = "stored" /\ stage' = [stage EXCEPT ![a] = "delivered"]
Withdraw(a) == stage[a] = "delivered" /\ stage' = [stage EXCEPT ![a] = "stored"]

Next == \E a \in Analyses : Store(a) \/ Deliver(a) \/ Withdraw(a)

Spec == Init /\ [][Next]_stage
=============================================================================
