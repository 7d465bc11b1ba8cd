---------------------------- MODULE ApprovalQueue ----------------------------
(***************************************************************************)
(* The approval queue of one run in Postgres: approval_queue and decisions *)
(* rows, the transactions that open items (human_review, populate-queue,   *)
(* incremental updates), decide them (PostgresApprovalStore, called by     *)
(* threads of the API process and by the MCP server) and delete them with  *)
(* their run.                                                              *)
(*                                                                         *)
(* The database runs at READ COMMITTED: a transaction sees what others     *)
(* committed and waits for the row locks they hold.  Coroutines of the API *)
(* process hold its event loop while they enqueue or delete, because they  *)
(* await nothing; the threads and the MCP server run beside them.          *)
(***************************************************************************)
EXTENDS Naturals, FiniteSets

CONSTANTS
  Items,        \* ids of queue items; a bound on how many are opened
  Claims,       \* the run's escalated claims
  Requests,     \* decide calls
  McpRequests,  \* those of them made through the MCP server
  MaxFaults     \* bound on crashes, lost connections and failed inserts

ASSUME McpRequestsAssumption == McpRequests \subseteq Requests
ASSUME FaultBoundAssumption == MaxFaults \in Nat
ASSUME EnoughItems == Cardinality(Items) >= Cardinality(Claims)
ASSUME TokensAssumption ==
  /\ {"free", "delete"} \cap Requests = {}
  /\ "none" \notin Items
  /\ {"none", "conflict"} \cap Claims = {}

Values    == {"approved", "rejected"}
Stored    == {"pending"} \cup Values
RowStates == {"absent", "deleted"} \cup Stored
Subjects  == Claims \cup {"conflict"}   \* what an item asks about
Decision  == [item : Items, value : Values, by : Requests]

VARIABLES
  \* the database
  run,        \* the runs row exists
  rows,       \* approval_queue.status of each item
  subject,    \* payload.details.claim_id of each item
  decided,    \* decisions.decision_value of each item
  lock,       \* the transaction that holds the row lock of each item
  audit,      \* audit_events: the decisions reported
  granted,    \* history: the decisions ever committed
  \* coroutines of the API process
  loop,       \* which of them has the event loop
  todo,       \* subjects it has still to open items for
  reviewed,   \* human_review has a checkpoint
  updating,   \* an incremental update awaits the language model
  cleared,    \* delete_run: items whose decisions it has deleted
  \* decide calls
  pc, item, value, outcome,
  faults

tables     == <<run, rows, subject, decided>>
coroutines == <<loop, todo, reviewed, updating, cleared>>
calls      == <<pc, item, value, outcome>>
vars       == <<tables, lock, audit, granted, coroutines, calls, faults>>

TypeOK ==
  /\ run \in BOOLEAN
  /\ rows \in [Items -> RowStates]
  /\ subject \in [Items -> Subjects \cup {"none"}]
  /\ decided \in [Items -> Values \cup {"none"}]
  /\ lock \in [Items -> Requests \cup {"free", "delete"}]
  /\ audit \in SUBSET Decision
  /\ granted \in SUBSET Decision
  /\ loop \in {"free", "review", "populate", "update", "delete"}
  /\ todo \in SUBSET Subjects
  /\ reviewed \in BOOLEAN
  /\ updating \in BOOLEAN
  /\ cleared \in SUBSET Items
  /\ pc \in [Requests -> {"idle", "lock", "commit", "notify", "reply", "done"}]
  /\ item \in [Requests -> Items \cup {"none"}]
  /\ value \in [Requests -> Values \cup {"none"}]
  /\ outcome \in [Requests -> {"none", "success", "not_found", "conflict", "error"}]
  /\ faults \in 0 .. MaxFaults

\* route_to_queue has a checkpoint, human_review has not started
Init ==
  /\ run = TRUE
  /\ rows = [i \in Items |-> "absent"]
  /\ subject = [i \in Items |-> "none"]
  /\ decided = [i \in Items |-> "none"]
  /\ lock = [i \in Items |-> "free"]
  /\ audit = {}
  /\ granted = {}
  /\ loop = "free"
  /\ todo = {}
  /\ reviewed = FALSE
  /\ updating = FALSE
  /\ cleared = {}
  /\ pc = [r \in Requests |-> "idle"]
  /\ item = [r \in Requests |-> "none"]
  /\ value = [r \in Requests |-> "none"]
  /\ outcome = [r \in Requests |-> "none"]
  /\ faults = 0

Fault == faults < MaxFaults /\ faults' = faults + 1

Present == {i \in Items : rows[i] \in Stored}

\* get_all(run_id): the subjects that have an item
Queued == {subject[i] : i \in Present}

\* a fresh UUID
NewItem == CHOOSE i \in Items : rows[i] = "absent"

-----------------------------------------------------------------------------
(* Opening items *)

\* _node_human_review: the claims that have no item yet, one after the
\* other.  A failed or interrupted review is run again.
Review ==
  /\ loop = "free" /\ run /\ ~reviewed
  /\ loop' = "review"
  /\ todo' = Claims \ Queued
  /\ UNCHANGED <<tables, lock, audit, granted, reviewed, updating, cleared,
                 calls, faults>>

\* POST /runs/{id}/populate-queue
PopulateQueue ==
  /\ loop = "free" /\ run
  /\ loop' = "populate"
  /\ todo' = Claims \ Queued
  /\ UNCHANGED <<tables, lock, audit, granted, reviewed, updating, cleared,
                 calls, faults>>

\* POST /piles/{id}/incremental finds the finished run of its pile ...  (An
\* operator's resume finishes a run whose items are still pending, see
\* RunLifecycle: nothing is said here of the other items.)
IncrementalStart ==
  /\ loop = "free" /\ run /\ reviewed
  /\ updating = FALSE
  /\ updating' = TRUE
  /\ UNCHANGED <<tables, lock, audit, granted, loop, todo, reviewed, cleared,
                 calls, faults>>

\* a bound: every claim can still get its item
RoomForConflict ==
  Cardinality({i \in Items : subject[i] = "conflict"}) + Cardinality(Claims)
    < Cardinality(Items)

\* ... and when the language model has answered, routes contradictions to
\* the queue of that run
IncrementalUpdate ==
  /\ loop = "free" /\ updating
  /\ loop' = "update"
  /\ updating' = FALSE
  /\ \/ todo' = {}
     \/ RoomForConflict /\ todo' = {"conflict"}
  /\ UNCHANGED <<tables, lock, audit, granted, reviewed, cleared, calls, faults>>

\* enqueue: one row, one transaction
Enqueue ==
  /\ \E i \in Items : rows[i] = "absent"
  /\ \E c \in todo :
       /\ rows' = [rows EXCEPT ![NewItem] = "pending"]
       /\ subject' = [subject EXCEPT ![NewItem] = c]
       /\ todo' = todo \ {c}
  /\ UNCHANGED <<run, decided, lock, audit, granted, loop, reviewed,
                 updating, cleared, calls, faults>>

Enqueued ==
  /\ loop \in {"review", "populate", "update"} /\ todo = {}
  /\ loop' = "free"
  /\ reviewed' = (reviewed \/ loop = "review")
  /\ UNCHANGED <<tables, lock, audit, granted, todo, updating, cleared,
                 calls, faults>>

\* the insert fails; the items opened before stay
EnqueueFails ==
  /\ todo # {}
  /\ Fault
  /\ loop' = "free"
  /\ todo' = {}
  /\ UNCHANGED <<tables, lock, audit, granted, reviewed, updating, cleared, calls>>

-----------------------------------------------------------------------------
(* Deciding: record_decision is one transaction *)

Step(r, from, to) == pc[r] = from /\ pc' = [pc EXCEPT ![r] = to]

\* for an item the client has seen in a queue
Arrive(r) ==
  /\ Step(r, "idle", "lock")
  /\ \E i \in Items : rows[i] # "absent" /\ item' = [item EXCEPT ![r] = i]
  /\ \E v \in Values : value' = [value EXCEPT ![r] = v]
  /\ UNCHANGED <<tables, lock, audit, granted, coroutines, outcome, faults>>

\* mutant: SELECT without FOR UPDATE
LockRowNot(r) ==
  /\ Step(r, "lock", "commit")
  /\ rows[item[r]] = "pending"
  /\ UNCHANGED <<tables, lock, audit, granted, coroutines, item, value, outcome, faults>>

\* SELECT ... FOR UPDATE returns a pending row
LockRow(r) ==
  /\ Step(r, "lock", "commit")
  /\ lock[item[r]] = "free"
  /\ rows[item[r]] = "pending"
  /\ lock' = [lock EXCEPT ![item[r]] = r]
  /\ UNCHANGED <<tables, audit, granted, coroutines, item, value, outcome, faults>>

\* mutant: whatever is not pending counts as already decided
RefuseAll(r) ==
  /\ Step(r, "lock", "reply")
  /\ lock[item[r]] = "free"
  /\ rows[item[r]] # "pending"
  /\ outcome' = [outcome EXCEPT ![r] = "conflict"]
  /\ UNCHANGED <<tables, lock, audit, granted, coroutines, item, value, faults>>

\* ... or a decided one, or none: ItemAlreadyDecidedError, ItemNotFoundError
Refuse(r) ==
  /\ Step(r, "lock", "reply")
  /\ lock[item[r]] = "free"
  /\ rows[item[r]] # "pending"
  /\ outcome' = [outcome EXCEPT ![r] =
                   IF rows[item[r]] \in Values THEN "conflict" ELSE "not_found"]
  /\ UNCHANGED <<tables, lock, audit, granted, coroutines, item, value, faults>>

\* mutant: the decision is committed, the status is updated later
RecordInsertOnly(r) ==
  LET i == item[r]
  IN /\ Step(r, "commit", "notify")
     /\ decided' = [decided EXCEPT ![i] = value[r]]
     /\ lock' = [lock EXCEPT ![i] = "free"]
     /\ granted' = granted \cup {[item |-> i, value |-> value[r], by |-> r]}
     /\ UNCHANGED <<run, rows, subject, audit, coroutines, item, value,
                    outcome, faults>>

\* the decisions row and the new status are committed together
Record(r) ==
  LET i == item[r]
  IN /\ Step(r, "commit", "notify")
     /\ decided' = [decided EXCEPT ![i] = value[r]]
     /\ rows' = [rows EXCEPT ![i] = value[r]]
     /\ lock' = [lock EXCEPT ![i] = "free"]
     /\ granted' = granted \cup {[item |-> i, value |-> value[r], by |-> r]}
     /\ UNCHANGED <<run, subject, audit, coroutines, item, value,
                    outcome, faults>>

Report(r) == audit \cup {[item |-> item[r], value |-> value[r], by |-> r]}

\* the decision listener writes the audit event, or fails and is ignored
Notify(r) ==
  /\ Step(r, "notify", "reply")
  /\ outcome' = [outcome EXCEPT ![r] = "success"]
  /\ \/ audit' = Report(r) /\ UNCHANGED faults
     \/ Fault /\ UNCHANGED audit
  /\ UNCHANGED <<tables, lock, granted, coroutines, item, value>>

Reply(r) ==
  /\ Step(r, "reply", "done")
  /\ UNCHANGED <<tables, lock, audit, granted, coroutines, item, value, outcome, faults>>

Unlocked(S) ==
  [i \in Items |-> IF lock[i] \in S THEN "free" ELSE lock[i]]

\* a statement fails: rollback, the exception becomes a 500
RollBack(r) ==
  /\ pc[r] \in {"lock", "commit"}
  /\ Fault
  /\ pc' = [pc EXCEPT ![r] = "reply"]
  /\ outcome' = [outcome EXCEPT ![r] = "error"]
  /\ lock' = Unlocked({r})
  /\ UNCHANGED <<tables, audit, granted, coroutines, item, value>>

-----------------------------------------------------------------------------
(* Deleting the run: delete_run_and_dependents is one transaction *)

\* DELETE FROM decisions: those it sees
DeleteDecisions ==
  /\ loop = "free" /\ run
  /\ loop' = "delete"
  /\ cleared' = {i \in Present : decided[i] # "none"}
  /\ UNCHANGED <<tables, lock, audit, granted, todo, reviewed, updating, calls, faults>>

\* DELETE FROM approval_queue: row by row, waiting for whoever decides it
DeleteItem ==
  /\ loop = "delete"
  /\ \E i \in Present : lock[i] = "free" /\ lock' = [lock EXCEPT ![i] = "delete"]
  /\ UNCHANGED <<tables, audit, granted, coroutines, calls, faults>>

AllLocked == loop = "delete" /\ \A i \in Present : lock[i] = "delete"

\* decisions committed since refer to the rows: the foreign key refuses
Orphaned == {i \in Present \ cleared : decided[i] # "none"}

\* mutant: the foreign key does not restrict
DeleteRunUnchecked ==
  /\ AllLocked
  /\ run' = FALSE
  /\ rows' = [i \in Items |-> IF i \in Present THEN "deleted" ELSE rows[i]]
  /\ decided' = [i \in Items |-> IF i \in cleared THEN "none" ELSE decided[i]]
  /\ lock' = Unlocked({"delete"})
  /\ loop' = "free"
  /\ cleared' = {}
  /\ UNCHANGED <<subject, audit, granted, todo, reviewed, updating, calls, faults>>

DeleteRun ==
  /\ AllLocked /\ Orphaned = {}
  /\ run' = FALSE
  /\ rows' = [i \in Items |-> IF i \in Present THEN "deleted" ELSE rows[i]]
  /\ decided' = [i \in Items |-> IF i \in cleared THEN "none" ELSE decided[i]]
  /\ lock' = Unlocked({"delete"})
  /\ loop' = "free"
  /\ cleared' = {}
  /\ UNCHANGED <<subject, audit, granted, todo, reviewed, updating, calls, faults>>

\* mutant: the transaction is not rolled back
DeleteRefusedKeepsLocks ==
  /\ AllLocked /\ Orphaned # {}
  /\ loop' = "free"
  /\ cleared' = {}
  /\ UNCHANGED <<tables, lock, audit, granted, todo, reviewed, updating, calls, faults>>

DeleteRefused ==
  /\ AllLocked /\ Orphaned # {}
  /\ lock' = Unlocked({"delete"})
  /\ loop' = "free"
  /\ cleared' = {}
  /\ UNCHANGED <<tables, audit, granted, todo, reviewed, updating, calls, faults>>

-----------------------------------------------------------------------------
\* The API process dies: its open transactions are rolled back, its requests
\* are never answered.  The MCP server goes on.
Crash ==
  LET dead == {r \in Requests \ McpRequests : pc[r] \notin {"idle", "done"}}
  IN /\ Fault
     /\ loop' = "free"
     /\ todo' = {}
     /\ updating' = FALSE
     /\ cleared' = {}
     /\ lock' = Unlocked(dead \cup {"delete"})
     /\ pc' = [r \in Requests |-> IF r \in dead THEN "done" ELSE pc[r]]
     /\ outcome' = [r \in Requests |-> IF r \in dead THEN "error" ELSE outcome[r]]
     /\ UNCHANGED <<tables, audit, granted, reviewed, item, value>>

Coroutine ==
  \/ Enqueue \/ Enqueued \/ DeleteItem \/ DeleteRun \/ DeleteRefused
  \/ IncrementalUpdate

Call(r) ==
  LockRow(r) \/ Refuse(r) \/ Record(r) \/ Notify(r) \/ Reply(r)

Next ==
  \/ Review \/ PopulateQueue \/ IncrementalStart \/ DeleteDecisions
  \/ Coroutine \/ EnqueueFails
  \/ \E r \in Requests : Arrive(r) \/ Call(r) \/ RollBack(r)
  \/ Crash

Spec == Init /\ [][Next]_vars

\* The event loop and the threads go on; a row lock is granted in the end.
Fairness ==
  /\ WF_vars(Coroutine)
  /\ \A r \in Requests : WF_vars(Call(r))

FairSpec == Spec /\ Fairness

-----------------------------------------------------------------------------
(* Properties *)

\* The two tables a decision writes never contradict each other: an item has
\* a decisions row exactly when its status says so, with the same value.
TwoTablesAgree ==
  \A i \in Items :
    IF rows[i] \in Values THEN decided[i] = rows[i] ELSE decided[i] = "none"

\* A caller is told the truth: success means its own decision is on record
\* for good, a conflict means somebody else's is, and an item that cannot be
\* found was deleted with its run.
AnswersAreTrue ==
  \A r \in Requests :
    /\ outcome[r] = "success" =>
         [item |-> item[r], value |-> value[r], by |-> r] \in granted
    /\ outcome[r] = "conflict" =>
         \E d \in granted : d.item = item[r] /\ d.by # r
    /\ outcome[r] = "not_found" => rows[item[r]] = "deleted"

\* The audit trail names no decision that was not taken (approval.py 207-209).
AuditIsTrue == audit \subseteq granted

\* However often human_review, populate-queue and crashes alternate, a claim
\* never has two items (demo_executor.py 1316-1318, main.py 1132).
NoDuplicateItems ==
  \A i, j \in Present : subject[i] = subject[j] /\ subject[i] \in Claims => i = j

\* A deleted run leaves no decision, and no item of its claims.
DeletedLeavesNothing ==
  ~run => \A i \in Items : decided[i] # "none" \/ i \in Present
                             => subject[i] = "conflict"

\* With rows as its queue and the granted decisions as its verdicts, the
\* store is a DecisionLedger.
Ledger == INSTANCE DecisionLedger
            WITH queue <- rows, verdicts <- {<<d.item, d.value>> : d \in granted}

ImplementsLedger == Ledger!Spec

\* Every decide call that arrived is answered: neither the row locks nor a
\* concurrent deletion block it for ever.
EveryCallAnswered ==
  \A r \in Requests : pc[r] = "lock" ~> pc[r] = "done"

=============================================================================
