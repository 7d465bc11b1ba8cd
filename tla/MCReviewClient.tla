--------------------------- MODULE MCReviewClient ---------------------------
(* Small instances of ReviewClient: an item in one of two runs.  The view   *)
(* of all pending items lists it only while it is pending.                  *)
EXTENDS ReviewClient

OneItem == {"i1"}
TwoRuns == {"r1", "r2"}
InRun   == [i \in OneItem |-> "r1"]
=============================================================================
