---------------------------- MODULE RunLifecycle ----------------------------
(***************************************************************************)
(* One pipeline run of the document-compliance service, from POST          *)
(* /runs/start to its final status: the executor of demo_executor.py (node *)
(* loop, checkpoints, pause at the human gate, resume), the REST handlers  *)
(* that act on the run from other threads (decide, resume, cancel), the    *)
(* MCP server, which is another process on the same database, and crashes  *)
(* of the API process.                                                     *)
(*                                                                         *)
(* Each database transaction is one action; between two of them any other  *)
(* thread or process may run.  The nodes before human_review are only told *)
(* apart by their outcome, so there are Prep of them (11 in the code, the  *)
(* last one being route_to_queue).                                         *)
(***************************************************************************)
EXTENDS Naturals, FiniteSets

CONSTANTS
  Claims,     \* claim ids the extraction may produce
  Tasks,      \* background-task slots of the API process
  Clients,    \* REST requests that may be in flight at once
  Prep,       \* number of nodes before human_review
  MaxFaults,  \* bound on crashes, failing transactions and lost audit events
  McpOn       \* whether the MCP server takes decisions and status queries

ASSUME PrepAssumption == Prep \in Nat \ {0}
ASSUME FaultAssumption == MaxFaults \in Nat
ASSUME McpAssumption == McpOn \in BOOLEAN

HumanReview == Prep + 1
Finalize    == Prep + 2
Steps       == 1 .. Finalize

Statuses == {"none", "pending", "running", "paused", "completed",
             "completed_with_persistence_gap", "failed", "cancelled"}
Settled  == {"completed", "completed_with_persistence_gap", "failed", "cancelled"}
Done     == {"completed", "skipped"}
RowStates    == {"absent", "running", "failed"} \cup Done
Decisions    == {"approved", "rejected"}
ItemStates   == {"absent", "pending"} \cup Decisions
Outcomes     == {"completed", "skipped", "held", "transient", "permanent"}
Reports      == [Claims -> Decisions \cup {"none"}]
Unread       == [c \in Claims |-> "none"]

\* the points of run_pipeline, resume_pipeline and _execute_nodes_from at
\* which a background task can be found
Working == {"enrich", "loop", "create", "node", "review", "enqueue",
            "persist", "checkpoint", "pause", "fail"}
Inside  == Working \cup {"begin", "reload", "unpause", "emit", "exit"}
TaskPCs == Inside \cup {"idle", "queued"}
Kinds   == {"none", "start", "decide", "manual"}
ClientPCs == {"idle", "decide", "recount", "wake", "resume", "peek", "mark", "dispatch"}

VARIABLES
  \* rows of the database
  status,      \* runs.status
  steps,       \* run_steps.status of each step
  savedGap,    \* _persistence_gap inside run_steps.output_state
  escalated,   \* queue_buckets.escalate, as route_to_queue left it
  items,       \* approval_queue.status of each claim's item
  deliverable, \* the run's row in deliverables: the decisions it shows
  lost,        \* history: an audit event of this run was never written
  \* memory of the API process
  active,      \* run_id in _active_runs
  cancelFlag,  \* run_id in _cancelled_runs
  pc, kind, next, pos, outcome, gap, todo, seen,   \* per background task
  client, target,  \* per REST request: where its handler is, the item it decides
  faults       \* faults injected so far

db      == <<status, steps, savedGap, escalated, items, deliverable, lost>>
memory  == <<kind, next, pos, outcome, gap, todo, seen>>
process == <<active, cancelFlag, client, target, faults>>
vars    == <<db, memory, process, pc>>

TypeOK ==
  /\ status \in Statuses
  /\ steps \in [Steps -> RowStates]
  /\ savedGap \in [Steps -> BOOLEAN]
  /\ escalated \in SUBSET Claims
  /\ items \in [Claims -> ItemStates]
  /\ deliverable \in SUBSET Reports
  /\ lost \in BOOLEAN
  /\ active \in BOOLEAN
  /\ cancelFlag \in BOOLEAN
  /\ pc \in [Tasks -> TaskPCs]
  /\ kind \in [Tasks -> Kinds]
  /\ next \in [Tasks -> Working \cup {"exit"}]
  /\ pos \in [Tasks -> 1 .. Finalize + 1]
  /\ outcome \in [Tasks -> Outcomes]
  /\ gap \in [Tasks -> BOOLEAN]
  /\ todo \in [Tasks -> SUBSET Claims]
  /\ seen \in [Tasks -> Reports]
  /\ client \in [Clients -> ClientPCs]
  /\ target \in [Clients -> SUBSET Claims]
  /\ faults \in 0 .. MaxFaults

Init ==
  /\ status = "none"
  /\ steps = [s \in Steps |-> "absent"]
  /\ savedGap = [s \in Steps |-> FALSE]
  /\ escalated = {}
  /\ items = [c \in Claims |-> "absent"]
  /\ deliverable = {}
  /\ lost = FALSE
  /\ active = FALSE
  /\ cancelFlag = FALSE
  /\ pc = [t \in Tasks |-> "idle"]
  /\ kind = [t \in Tasks |-> "none"]
  /\ next = [t \in Tasks |-> "exit"]
  /\ pos = [t \in Tasks |-> 1]
  /\ outcome = [t \in Tasks |-> "completed"]
  /\ gap = [t \in Tasks |-> FALSE]
  /\ todo = [t \in Tasks |-> {}]
  /\ seen = [t \in Tasks |-> Unread]
  /\ client = [u \in Clients |-> "idle"]
  /\ target = [u \in Clients |-> {}]
  /\ faults = 0

-----------------------------------------------------------------------------
(* Helpers *)

\* the trigger enforce_run_status_transition of migration 016
CanMove(old, new) ==
  \/ old = new
  \/ old = "pending" /\ new = "running"
  \/ old = "running" /\ new \in Settled \cup {"paused"}
  \/ old = "paused"  /\ new \in {"running", "cancelled"}

SetStatus(new) == CanMove(status, new) /\ status' = new

Pending == {c \in Claims : items[c] = "pending"}

\* the approval service's record of what the reviewers decided
Decided == [c \in Claims |-> IF items[c] \in Decisions THEN items[c] ELSE "none"]

\* the step with the highest step_order whose row is completed or skipped
DoneSteps == {s \in Steps : steps[s] \in Done}
LastDone  == CHOOSE s \in DoneSteps : \A r \in DoneSteps : r <= s

\* routing function and PATH_MAPS, for a step that completed or was skipped
NodeAfter(s) ==
  IF s = Prep /\ escalated = {} THEN Finalize ELSE s + 1

\* mutant: the clean-up looks for the wrong status
MarkDone ==
  steps' = [s \in Steps |-> IF steps[s] = "completed" THEN "failed" ELSE steps[s]]

\* every row still 'running' becomes 'failed' (error_details 'interrupted')
MarkOrphans ==
  steps' = [s \in Steps |-> IF steps[s] = "running" THEN "failed" ELSE steps[s]]

Goto(t, from, to) == pc[t] = from /\ pc' = [pc EXCEPT ![t] = to]

\* a task that returns forgets its state
Forget(t) ==
  /\ pc' = [pc EXCEPT ![t] = "idle"]
  /\ kind' = [kind EXCEPT ![t] = "none"]
  /\ next' = [next EXCEPT ![t] = "exit"]
  /\ pos' = [pos EXCEPT ![t] = 1]
  /\ outcome' = [outcome EXCEPT ![t] = "completed"]
  /\ gap' = [gap EXCEPT ![t] = FALSE]
  /\ todo' = [todo EXCEPT ![t] = {}]
  /\ seen' = [seen EXCEPT ![t] = Unread]

\* a background task is handed to the event loop
Submit(k) ==
  \E t \in Tasks :
    /\ Goto(t, "idle", "queued")
    /\ kind' = [kind EXCEPT ![t] = k]

Fault == faults < MaxFaults /\ faults' = faults + 1

-----------------------------------------------------------------------------
(* Starting a run *)

\* POST /runs/start: the run row, then run_pipeline as a background task
StartPipeline ==
  /\ status = "none"
  /\ status' = "pending"
  /\ Submit("start")
  /\ UNCHANGED <<steps, savedGap, escalated, items, deliverable, lost,
                 next, pos, outcome, gap, todo, seen, process>>

\* Background tasks share the event loop.  Their database calls block it and
\* broadcast_sse puts on unbounded queues, so a task gives it up only while a
\* node before human_review awaits the language model.
LoopFree == \A t \in Tasks : pc[t] \in {"idle", "queued", "node"}

\* mutant: the guard is missing
EnterUnguarded(t) ==
  /\ LoopFree
  /\ Goto(t, "queued", IF kind[t] = "start" THEN "begin" ELSE "reload")
  /\ active' = TRUE
  /\ UNCHANGED <<db, memory, cancelFlag, client, target, faults>>

\* the _active_runs guard at the top of run_pipeline and resume_pipeline
Enter(t) ==
  /\ LoopFree
  /\ ~active
  /\ Goto(t, "queued", IF kind[t] = "start" THEN "begin" ELSE "reload")
  /\ active' = TRUE
  /\ UNCHANGED <<db, memory, cancelFlag, client, target, faults>>

Refuse(t) ==
  /\ LoopFree
  /\ active
  /\ pc[t] = "queued"
  /\ Forget(t)
  /\ UNCHANGED <<db, process>>

\* run_pipeline: pending becomes running, then the audit event
BeginRun(t) ==
  /\ Goto(t, "begin", "emit")
  /\ SetStatus("running")
  /\ next' = [next EXCEPT ![t] = "loop"]
  /\ UNCHANGED <<steps, savedGap, escalated, items, deliverable, lost,
                 kind, pos, outcome, gap, todo, seen, process>>

-----------------------------------------------------------------------------
(* Resuming a run *)

\* resume_pipeline: check the status, mark orphans, load the last checkpoint
Reload(t) ==
  /\ status \in {"paused", "running"}
  /\ DoneSteps # {}
  /\ Goto(t, "reload", IF status = "paused" THEN "unpause" ELSE "enrich")
  /\ MarkOrphans
  /\ pos' = [pos EXCEPT ![t] = NodeAfter(LastDone)]
  /\ gap' = [gap EXCEPT ![t] = savedGap[LastDone]]
  /\ UNCHANGED <<status, savedGap, escalated, items, deliverable, lost,
                 kind, next, outcome, todo, seen, process>>

\* resume_pipeline returns: the run is in no status it may resume
CannotResume(t) ==
  /\ status \notin {"paused", "running"}
  /\ Goto(t, "reload", "exit")
  /\ UNCHANGED <<db, memory, process>>

Unpause(t) ==
  /\ Goto(t, "unpause", "emit")
  /\ SetStatus("running")
  /\ next' = [next EXCEPT ![t] = "enrich"]
  /\ UNCHANGED <<steps, savedGap, escalated, items, deliverable, lost,
                 kind, pos, outcome, gap, todo, seen, process>>

\* _enrich_state_with_decisions; with no node left resume_pipeline returns
AfterEnrich(t) == IF pos[t] > Finalize THEN "exit" ELSE "loop"

Enrich(t) ==
  /\ Goto(t, "enrich", AfterEnrich(t))
  /\ seen' = [seen EXCEPT ![t] = Decided]
  /\ UNCHANGED <<db, kind, next, pos, outcome, gap, todo, process>>

\* both sources of decisions fail; the exceptions are logged and dropped
EnrichFails(t) ==
  /\ Goto(t, "enrich", AfterEnrich(t))
  /\ Fault
  /\ UNCHANGED <<db, memory, active, cancelFlag, client, target>>

-----------------------------------------------------------------------------
(* The node loop, _execute_nodes_from *)

StopCancelled(t) ==
  /\ pos[t] <= Finalize
  /\ cancelFlag
  /\ Goto(t, "loop", "emit")
  /\ SetStatus("cancelled")
  /\ next' = [next EXCEPT ![t] = "exit"]
  /\ UNCHANGED <<steps, savedGap, escalated, items, deliverable, lost,
                 kind, pos, outcome, gap, todo, seen, process>>

\* mutant: the flag is not looked at
NotCancelledEver(t) ==
  /\ pos[t] <= Finalize
  /\ Goto(t, "loop", "create")
  /\ UNCHANGED <<db, memory, process>>

NotCancelled(t) ==
  /\ pos[t] <= Finalize
  /\ ~cancelFlag
  /\ Goto(t, "loop", "create")
  /\ UNCHANGED <<db, memory, process>>

\* after the last node: _resolve_final_status
Complete(t) ==
  /\ pos[t] > Finalize
  /\ Goto(t, "loop", "emit")
  /\ SetStatus(IF gap[t] THEN "completed_with_persistence_gap" ELSE "completed")
  /\ next' = [next EXCEPT ![t] = "exit"]
  /\ UNCHANGED <<steps, savedGap, escalated, items, deliverable, lost,
                 kind, pos, outcome, gap, todo, seen, process>>

\* the INSERT of _create_step; UNIQUE (run_id, step_order) must accept it
NodeBody(s) ==
  IF s = Finalize THEN "persist" ELSE IF s = HumanReview THEN "review" ELSE "node"

CreateStep(t) ==
  /\ Goto(t, "create", NodeBody(pos[t]))
  /\ steps[pos[t]] = "absent"
  /\ steps' = [steps EXCEPT ![pos[t]] = "running"]
  /\ UNCHANGED <<status, savedGap, escalated, items, deliverable, lost,
                 memory, process>>

\* the outcome of a node before human_review; route_to_queue is the last one
\* and leaves the claims a reviewer must see
RunNode(t) ==
  /\ Goto(t, "node", "checkpoint")
  /\ \E o \in Outcomes \ {"held"} :
       /\ outcome' = [outcome EXCEPT ![t] = o]
       /\ IF pos[t] = Prep
            THEN /\ o \in {"completed", "transient"}
                 /\ escalated' \in IF o = "completed" THEN SUBSET Claims
                                                      ELSE {escalated}
            ELSE UNCHANGED escalated
  /\ UNCHANGED <<status, steps, savedGap, items, deliverable, lost,
                 kind, next, pos, gap, todo, seen, process>>

\* _node_extract_claims: both attempts to persist the claims failed
ClaimsNotPersisted(t) ==
  /\ pos[t] < Prep
  /\ Goto(t, "node", "checkpoint")
  /\ outcome' = [outcome EXCEPT ![t] = "completed"]
  /\ gap' = [gap EXCEPT ![t] = TRUE]
  /\ Fault
  /\ UNCHANGED <<db, kind, next, pos, todo, seen, active, cancelFlag, client, target>>

\* _node_human_review: which escalated claims have no queue item yet
ReviewStart(t) ==
  /\ Goto(t, "review", "enqueue")
  /\ todo' = [todo EXCEPT ![t] = {c \in escalated : items[c] = "absent"}]
  /\ UNCHANGED <<db, kind, next, pos, outcome, gap, seen, process>>

Enqueue(t) ==
  /\ pc[t] = "enqueue"
  /\ \E c \in todo[t] :
       /\ items' = [items EXCEPT ![c] = "pending"]
       /\ todo' = [todo EXCEPT ![t] = @ \ {c}]
  /\ UNCHANGED <<status, steps, savedGap, escalated, deliverable, lost,
                 kind, next, pos, outcome, gap, seen, process, pc>>

\* mutant: the queue is counted before all items are in it
CountPendingEarly(t) ==
  /\ Goto(t, "enqueue", "checkpoint")
  /\ outcome' = [outcome EXCEPT ![t] = IF Pending = {} THEN "completed" ELSE "held"]
  /\ UNCHANGED <<db, kind, next, pos, gap, todo, seen, process>>

CountPending(t) ==
  /\ todo[t] = {}
  /\ Goto(t, "enqueue", "checkpoint")
  /\ outcome' = [outcome EXCEPT ![t] = IF Pending = {} THEN "completed" ELSE "held"]
  /\ UNCHANGED <<db, kind, next, pos, gap, todo, seen, process>>

\* _node_finalize: upsert of the deliverable built from the task's state
PersistDeliverable(t) ==
  /\ Goto(t, "persist", "checkpoint")
  /\ deliverable' = {seen[t]}
  /\ outcome' = [outcome EXCEPT ![t] = "completed"]
  /\ UNCHANGED <<status, steps, savedGap, escalated, items, lost,
                 kind, next, pos, gap, todo, seen, process>>

\* an exception inside human_review or finalize becomes a transient error
NodeFails(t) ==
  /\ pc[t] \in {"review", "enqueue", "persist"}
  /\ pc' = [pc EXCEPT ![t] = "checkpoint"]
  /\ outcome' = [outcome EXCEPT ![t] = "transient"]
  /\ todo' = [todo EXCEPT ![t] = {}]
  /\ Fault
  /\ UNCHANGED <<db, kind, next, pos, gap, seen, active, cancelFlag, client, target>>

\* where the loop goes after a node: a transient error does not stop it
AfterNode(o) ==
  IF o = "held" THEN "pause" ELSE IF o = "permanent" THEN "fail" ELSE "loop"

WriteCheckpoint(t) ==
  LET o  == outcome[t]
      ok == o \in {"completed", "skipped", "held"}
  IN /\ Goto(t, "checkpoint", IF ok THEN "emit" ELSE AfterNode(o))
     /\ steps' = [steps EXCEPT ![pos[t]] =
                    IF ~ok THEN "failed" ELSE IF o = "skipped" THEN o ELSE "completed"]
     /\ savedGap' = [savedGap EXCEPT ![pos[t]] = gap[t]]
     /\ next' = [next EXCEPT ![t] = AfterNode(o)]
     /\ pos' = [pos EXCEPT ![t] = @ + 1]
     /\ UNCHANGED <<status, escalated, items, deliverable, lost,
                    kind, outcome, gap, todo, seen, process>>

\* mutant: the status update is missing
PauseSilently(t) ==
  /\ Goto(t, "pause", "emit")
  /\ next' = [next EXCEPT ![t] = "exit"]
  /\ UNCHANGED <<db, kind, pos, outcome, gap, todo, seen, process>>

Pause(t) ==
  /\ Goto(t, "pause", "emit")
  /\ SetStatus("paused")
  /\ next' = [next EXCEPT ![t] = "exit"]
  /\ UNCHANGED <<steps, savedGap, escalated, items, deliverable, lost,
                 kind, pos, outcome, gap, todo, seen, process>>

StopFailed(t) ==
  /\ Goto(t, "fail", "emit")
  /\ SetStatus("failed")
  /\ next' = [next EXCEPT ![t] = "exit"]
  /\ UNCHANGED <<steps, savedGap, escalated, items, deliverable, lost,
                 kind, pos, outcome, gap, todo, seen, process>>

\* _emit_history_event: the audit row is written
Emit(t) ==
  /\ Goto(t, "emit", next[t])
  /\ UNCHANGED <<db, memory, process>>

\* _emit_history_event: both attempts failed, the task marks the gap
EmitLost(t) ==
  /\ Goto(t, "emit", next[t])
  /\ Fault
  /\ lost' = TRUE
  /\ gap' = [gap EXCEPT ![t] = TRUE]
  /\ UNCHANGED <<status, steps, savedGap, escalated, items, deliverable,
                 kind, next, pos, outcome, todo, seen, active, cancelFlag, client, target>>

\* mutant: the run id stays in _active_runs
ExitKeepsActive(t) ==
  /\ pc[t] = "exit"
  /\ Forget(t)
  /\ UNCHANGED <<db, process>>

\* the coroutine returns; its finally block discards the run id
Exit(t) ==
  /\ pc[t] = "exit"
  /\ Forget(t)
  /\ active' = FALSE
  /\ UNCHANGED <<db, cancelFlag, client, target, faults>>

\* mutant: every runner marks the run failed, whatever its status
AbortAlwaysFails(t) ==
  /\ Forget(t)
  /\ active' = FALSE
  /\ status' = "failed"
  /\ UNCHANGED <<steps, savedGap, escalated, items, deliverable, lost,
                 cancelFlag, client, target>>

\* An exception leaves the coroutine.  _execute_pipeline_background marks the
\* run failed (the trigger accepts that only from 'running'), the runner of
\* dispatch_resume_task only logs it.
Abort(t) ==
  /\ Forget(t)
  /\ active' = FALSE
  /\ status' = IF kind[t] = "start" /\ CanMove(status, "failed") THEN "failed" ELSE status
  /\ UNCHANGED <<steps, savedGap, escalated, items, deliverable, lost,
                 cancelFlag, client, target>>

StepExists(t) ==
  /\ pc[t] = "create"
  /\ steps[pos[t]] # "absent"
  /\ Abort(t)
  /\ UNCHANGED faults

TransactionFails(t) ==
  /\ \/ pc[t] \in {"begin", "reload", "unpause", "create", "checkpoint", "pause", "fail"}
     \/ pc[t] = "loop" /\ (cancelFlag \/ pos[t] > Finalize)
  /\ Fault
  /\ Abort(t)

-----------------------------------------------------------------------------
(* REST handlers: threads of the API process.  The event loop starts them,  *)
(* after that they run on their own.                                        *)

Reply(u, from, to) == client[u] = from /\ client' = [client EXCEPT ![u] = to]

handlerOnly == <<db, memory, active, cancelFlag, faults, pc>>

\* POST /approval/items/{id}/decide arrives; its sender knows the item's id
DecideCall(u) ==
  /\ LoopFree
  /\ Reply(u, "idle", "decide")
  /\ \E c \in Claims : items[c] # "absent" /\ target' = [target EXCEPT ![u] = {c}]
  /\ UNCHANGED handlerOnly

\* mutant: an item may be decided again
DecideAgain(u) ==
  /\ Reply(u, "decide", "recount")
  /\ \E c \in target[u], d \in Decisions :
       items[c] # "absent" /\ items' = [items EXCEPT ![c] = d]
  /\ target' = [target EXCEPT ![u] = {}]
  /\ UNCHANGED <<status, steps, savedGap, escalated, deliverable, lost,
                 memory, active, cancelFlag, faults, pc>>

\* ApprovalService.decide: one transaction under a row lock
Decide(u) ==
  /\ Reply(u, "decide", "recount")
  /\ \E c \in target[u], d \in Decisions :
       items[c] = "pending" /\ items' = [items EXCEPT ![c] = d]
  /\ target' = [target EXCEPT ![u] = {}]
  /\ UNCHANGED <<status, steps, savedGap, escalated, deliverable, lost,
                 memory, active, cancelFlag, faults, pc>>

\* the item is already decided: 409
DecideConflict(u) ==
  /\ \A c \in target[u] : items[c] # "pending"
  /\ Reply(u, "decide", "idle")
  /\ target' = [target EXCEPT ![u] = {}]
  /\ UNCHANGED handlerOnly

\* mutant: the remaining items are not counted
RecountNever(u) ==
  /\ Reply(u, "recount", "wake")
  /\ UNCHANGED <<target, handlerOnly>>

\* decide_item: look for items still pending
Recount(u) ==
  /\ Reply(u, "recount", IF Pending = {} THEN "wake" ELSE "idle")
  /\ UNCHANGED <<target, handlerOnly>>

\* _trigger_resume_if_paused
WakeUp(u) ==
  /\ Reply(u, "wake", "idle")
  /\ IF status = "paused"
       THEN Submit("decide")
       ELSE UNCHANGED <<pc, kind>>
  /\ UNCHANGED <<db, next, pos, outcome, gap, todo, seen,
                 target, active, cancelFlag, faults>>

\* POST /runs/{id}/resume arrives
ResumeCall(u) ==
  /\ LoopFree
  /\ status # "none"
  /\ Reply(u, "idle", "resume")
  /\ UNCHANGED <<target, handlerOnly>>

\* resume_run_endpoint: finished runs get a 400, live ones are only looked at
ResumeRead(u) ==
  /\ Reply(u, "resume",
        IF status \in Settled \ {"failed"} THEN "idle"
        ELSE IF status = "running" \/ active THEN "peek" ELSE "mark")
  /\ UNCHANGED <<target, handlerOnly>>

\* resume_run inside the endpoint: orphans are marked in both branches
ResumeMark(u) ==
  /\ Reply(u, "peek", "idle") \/ Reply(u, "mark", "dispatch")
  /\ MarkOrphans
  /\ UNCHANGED <<status, savedGap, escalated, items, deliverable, lost,
                 memory, target, active, cancelFlag, faults, pc>>

ResumeDispatch(u) ==
  /\ Reply(u, "dispatch", "idle")
  /\ IF active THEN UNCHANGED <<pc, kind>> ELSE Submit("manual")
  /\ UNCHANGED <<db, next, pos, outcome, gap, todo, seen,
                 target, active, cancelFlag, faults>>

\* a handler dies between two of its calls; its client gets a 500
HandlerFails(u) ==
  /\ client[u] # "idle"
  /\ client' = [client EXCEPT ![u] = "idle"]
  /\ target' = [target EXCEPT ![u] = {}]
  /\ Fault
  /\ UNCHANGED <<db, memory, active, cancelFlag, pc>>

\* POST /runs/{id}/cancel
Cancel ==
  /\ status # "none"
  /\ cancelFlag' = TRUE
  /\ UNCHANGED <<db, memory, active, client, target, faults, pc>>

-----------------------------------------------------------------------------
(* The MCP server and crashes *)

\* decide_approval_item: records the decision, wakes nobody
McpDecide(c) ==
  /\ McpOn
  /\ items[c] = "pending"
  /\ \E d \in Decisions : items' = [items EXCEPT ![c] = d]
  /\ UNCHANGED <<status, steps, savedGap, escalated, deliverable, lost,
                 memory, process, pc>>

\* get_run_status: reads through resume_run, which marks orphans
McpStatus ==
  /\ McpOn
  /\ MarkOrphans
  /\ UNCHANGED <<status, savedGap, escalated, items, deliverable, lost,
                 memory, process, pc>>

\* the API process dies and is started again; only the database survives
Crash ==
  /\ Fault
  /\ active' = FALSE
  /\ cancelFlag' = FALSE
  /\ pc' = [t \in Tasks |-> "idle"]
  /\ kind' = [t \in Tasks |-> "none"]
  /\ next' = [t \in Tasks |-> "exit"]
  /\ pos' = [t \in Tasks |-> 1]
  /\ outcome' = [t \in Tasks |-> "completed"]
  /\ gap' = [t \in Tasks |-> FALSE]
  /\ todo' = [t \in Tasks |-> {}]
  /\ seen' = [t \in Tasks |-> Unread]
  /\ client' = [u \in Clients |-> "idle"]
  /\ target' = [u \in Clients |-> {}]
  /\ UNCHANGED db

-----------------------------------------------------------------------------
TaskStep(t) ==
  \/ Enter(t) \/ Refuse(t) \/ BeginRun(t)
  \/ Reload(t) \/ CannotResume(t) \/ Unpause(t) \/ Enrich(t)
  \/ StopCancelled(t) \/ NotCancelled(t) \/ Complete(t) \/ CreateStep(t)
  \/ RunNode(t) \/ ReviewStart(t) \/ Enqueue(t) \/ CountPending(t)
  \/ PersistDeliverable(t) \/ WriteCheckpoint(t) \/ Pause(t) \/ StopFailed(t)
  \/ Emit(t) \/ Exit(t) \/ StepExists(t)

TaskFault(t) ==
  \/ EnrichFails(t) \/ ClaimsNotPersisted(t) \/ NodeFails(t)
  \/ EmitLost(t) \/ TransactionFails(t)

HandlerStep(u) ==
  \/ Decide(u) \/ DecideConflict(u) \/ Recount(u) \/ WakeUp(u)
  \/ ResumeRead(u) \/ ResumeMark(u) \/ ResumeDispatch(u)

Request(u) == DecideCall(u) \/ ResumeCall(u)

Next ==
  \/ StartPipeline
  \/ \E t \in Tasks : TaskStep(t) \/ TaskFault(t)
  \/ \E u \in Clients : Request(u) \/ HandlerStep(u) \/ HandlerFails(u)
  \/ Cancel
  \/ McpStatus
  \/ \E c \in Claims : McpDecide(c)
  \/ Crash

Spec == Init /\ [][Next]_vars

\* The event loop runs every task that can run and the thread pool every
\* request it accepted; nothing obliges a client to send a request.
Fairness ==
  /\ \A t \in Tasks : WF_vars(TaskStep(t))
  /\ \A u \in Clients : WF_vars(HandlerStep(u))

FairSpec == Spec /\ Fairness

-----------------------------------------------------------------------------
(* Properties *)

Executing(t) == pc[t] \in Inside

\* At most one background task of the process executes the run at any time,
\* whatever mixture of starts, wake-ups and resume calls was dispatched: the
\* purpose of _active_runs (demo_executor.py 85-92, 280-284, 408-412).
SingleExecutor ==
  \A t, u \in Tasks : Executing(t) /\ Executing(u) => t = u

\* Whatever status a task is about to write, the status trigger of migration
\* 016 accepts: no interleaving of starts, pauses, cancels and resumes makes
\* the executor attempt an illegal transition.
TargetStatus(t) ==
  CASE pc[t] \in {"begin", "unpause"} -> "running"
    [] pc[t] = "pause" -> "paused"
    [] pc[t] = "fail"  -> "failed"
    [] pc[t] = "loop"  -> IF pos[t] > Finalize THEN "completed" ELSE "cancelled"
    [] OTHER -> status

StatusUpdatesAccepted ==
  \A t \in Tasks : CanMove(status, TargetStatus(t))

\* Once a run is completed, failed or cancelled, no task is left that could
\* still write a step, a queue item, the deliverable or the status.
SettledIsQuiet ==
  status \in Settled => \A t \in Tasks : pc[t] \notin Working \cup {"begin", "unpause"}

\* While the run is paused every escalated claim is in the approval queue,
\* human_review has a completed checkpoint to resume from, and neither the
\* finalize step nor the deliverable exists.
PausedAtTheGate ==
  status = "paused" =>
    /\ \A c \in escalated : items[c] # "absent"
    /\ steps[HumanReview] = "completed"
    /\ steps[Finalize] = "absent"
    /\ deliverable = {}

\* A task woken by the last decision (_trigger_resume_if_paused) never runs
\* past the gate while an item of the run is still pending.
WokenWhenDecided ==
  \A t \in Tasks : kind[t] = "decide" /\ pc[t] # "idle" => Pending = {}

\* The deliverable never shows a decision that differs from what the queue
\* recorded for the claim (invariant 2 and 5 of docs/invariants.md).
DeliverableFaithful ==
  \A report \in deliverable, c \in Claims :
    report[c] # "none" => report[c] = items[c]

\* A step whose checkpoint is durable is never executed again and never loses
\* its status: not by a resume, not by the orphan clean-up of a concurrent
\* status query, not by a second dispatch (invariant 1).
CheckpointsAreFinal ==
  [][\A s \in Steps : steps[s] \in Done => steps'[s] = steps[s]]_vars

\* Never are two steps of the run in progress at once, nor is a later step
\* present while one is running (invariant 3).
OneStepInProgress ==
  \A s \in Steps : steps[s] = "running" => \A r \in s + 1 .. Finalize : steps[r] = "absent"

\* A completed finalize step implies the deliverable is stored.
FinalizedHasDeliverable ==
  steps[Finalize] = "completed" => deliverable # {}

\* A resume that is accepted always finds the checkpoint of human_review or
\* of finalize: no interleaving makes resume_pipeline start from scratch or
\* repeat a node before the gate.
ResumesAtTheGate ==
  \A t \in Tasks :
    pc[t] = "reload" /\ status \in {"paused", "running"} =>
      steps[HumanReview] = "completed"

\* Seen through its status and its deliverable alone, the run keeps the
\* contract of RunContract: every step of the executor, the handlers, the MCP
\* server and a crash is one of the contract's steps or changes neither.
Contract == INSTANCE RunContract
              WITH Report <- Reports, reports <- deliverable

KeepsContract == Contract!Spec

\* The table of steps is the log of resumability (invariants 1 and 3): nodes are
\* executed one at a time and in order, none with a checkpoint or before one is
\* executed again, and only the execution of a node writes its checkpoint, whatever
\* status queries, resumes and crashes do to the rows meanwhile.
InProgress == {pos[t] : t \in {u \in Tasks :
                 pc[u] \in {"node", "review", "enqueue", "persist", "checkpoint"}}}

Log == INSTANCE CheckpointLog WITH
         NodeCount <- Finalize, durable <- DoneSteps, active <- InProgress

KeepsLog == Log!LogSpec

\* The queue of the run is the ledger ApprovalQueue implements: an item is opened
\* once and settled once, and by nothing but a decision (invariants 2 and 5).
Verdicts == {<<c, items[c]>> : c \in {b \in Claims : items[b] \in Decisions}}

Ledger == INSTANCE DecisionLedger WITH
            Items <- Claims, Values <- Decisions, queue <- items, verdicts <- Verdicts

KeepsLedger == Ledger!Spec

\* Without faults a run that started running comes to rest: it is paused for
\* review or settles.
RunningComesToRest ==
  status = "running" ~> status \in Settled \cup {"paused"}

\* Once the last item is decided the run resumes (header of migration 016),
\* whichever of several concurrent requests decided it last.
DecidedRunResumes ==
  (status = "paused" /\ Pending = {}) ~> (status # "paused")

\* A cancellation requested before human_review is created keeps the run from
\* finishing normally.
CancelIsHonoured ==
  (cancelFlag /\ status = "running" /\ steps[HumanReview] = "absent")
     ~> (status \in {"cancelled", "paused", "failed"})
=============================================================================
