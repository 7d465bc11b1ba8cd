---------------------------- MODULE RunContract -----------------------------
(***************************************************************************)
(* What a pipeline run promises to those who only see its rows in runs and *)
(* deliverables: the status follows the life cycle of migration 016, a     *)
(* report is stored at most once, only while the run is running, a run is  *)
(* never put on hold again once its report exists, and nothing changes     *)
(* once the run has settled.                                               *)
(***************************************************************************)
CONSTANT Report            \* the reports a run may store

VARIABLES status, reports  \* runs.status; the rows of deliverables

Settled == {"completed", "completed_with_persistence_gap", "failed", "cancelled"}

Init == status = "none" /\ reports = {}

Register == /\ status = "none"
            /\ status' = "pending"
            /\ UNCHANGED reports

Begin    == /\ status = "pending"
            /\ status' = "running"
            /\ UNCHANGED reports

Hold     == /\ status = "running"
            /\ reports = {}
            /\ status' = "paused"
            /\ UNCHANGED reports

Release  == /\ status = "paused"
            /\ status' = "running"
            /\ UNCHANGED reports

Deliver  == /\ status = "running"
            /\ reports = {}
            /\ \E r \in Report : reports' = {r}
            /\ UNCHANGED status

Settle   == /\ status = "running"
            /\ status' \in Settled
            /\ UNCHANGED reports

Next == Register \/ Begin \/ Hold \/ Release \/ Deliver \/ Settle

Spec == Init /\ [][Next]_<<status, reports>>
=============================================================================
