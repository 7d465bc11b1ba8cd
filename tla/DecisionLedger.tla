--------------------------- MODULE DecisionLedger ---------------------------
(***************************************************************************)
(* What the approval queue promises (docs/invariants.md, invariants 2 and  *)
(* 5): an item is opened once, gets at most one verdict, each verdict is   *)
(* about one item and leaves the others alone, and items disappear only    *)
(* all together.                                                           *)
(***************************************************************************)
CONSTANTS Items, Values

VARIABLES
  queue,    \* each item: absent, pending, its verdict, or deleted
  verdicts  \* every verdict ever given: pairs of an item and a value

Init == queue = [i \in Items |-> "absent"] /\ verdicts = {}

Open(i) ==
  /\ queue[i] = "absent"
  /\ queue' = [queue EXCEPT ![i] = "pending"]
  /\ UNCHANGED verdicts

Settle(i, v) ==
  /\ queue[i] = "pending"
  /\ queue' = [queue EXCEPT ![i] = v]
  /\ verdicts' = verdicts \cup {<<i, v>>}

Purge ==
  /\ queue' = [i \in Items |-> IF queue[i] = "absent" THEN "absent" ELSE "deleted"]
  /\ UNCHANGED verdicts

Next ==
  \/ \E i \in Items : Open(i) \/ \E v \in Values : Settle(i, v)
  \/ Purge

Spec == Init /\ [][Next]_<<queue, verdicts>>
=============================================================================
