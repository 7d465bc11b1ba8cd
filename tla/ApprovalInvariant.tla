-------------------------- MODULE ApprovalInvariant --------------------------
(***************************************************************************)
(* The inductive invariant of the approval queue: what a decide call knows *)
(* at each of its steps about the row it works on, and what a coroutine    *)
(* that holds the event loop knows about the queue.                        *)
(***************************************************************************)
EXTENDS ApprovalQueue

\* The decision r asks for.
Asked(r) == [item |-> item[r], value |-> value[r], by |-> r]

\* A call under way asks a value of an item that was opened, another has no
\* answer yet.
CallsAreMeant ==
  \A r \in Requests :
    IF pc[r] = "idle"
    THEN outcome[r] = "none"
    ELSE item[r] \in Items /\ value[r] \in Values /\ rows[item[r]] # "absent"

\* A row lock belongs to the call that is about to write the row, and while
\* it is held the row stays pending.
LocksProtect ==
  /\ \A r \in Requests : pc[r] = "commit" =>
       lock[item[r]] = r /\ rows[item[r]] = "pending"
  /\ \A i \in Items : lock[i] \in Requests =>
       pc[lock[i]] = "commit" /\ item[lock[i]] = i

\* What was granted is in the row until the run is deleted, and whoever got it
\* is past its commit.
GrantsAreKept ==
  /\ \A i \in Items : rows[i] \in Values =>
       \E d \in granted : d.item = i /\ d.value = rows[i]
  /\ \A d \in granted : pc[d.by] \in {"notify", "reply", "done"}
  /\ \A r \in Requests : pc[r] = "notify" => Asked(r) \in granted

\* The subjects still to enqueue have no item.
TodoIsNew ==
  \A i \in Present : subject[i] \in Claims => subject[i] \notin todo

\* Items of claims are only being opened for a run that exists.
TodoHasRun ==
  /\ loop \in {"free", "delete"} => todo = {}
  /\ todo \cap Claims # {} => run

IInv ==
  /\ TypeOK
  /\ TwoTablesAgree
  /\ CallsAreMeant
  /\ LocksProtect
  /\ GrantsAreKept
  /\ AnswersAreTrue
  /\ AuditIsTrue
  /\ TodoIsNew
  /\ NoDuplicateItems
  /\ TodoHasRun
  /\ DeletedLeavesNothing
=============================================================================
