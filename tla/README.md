# Verification of the document-compliance pipeline

This directory holds TLA+ models of the service in this repository, the TLC
configurations that check them on small instances, and proofs of their safety
properties for every value of their parameters, checked by TLAPS.

## 1. The system

The service takes loan documents, runs a 13-node pipeline over each of them,
holds doubtful claims in a queue until a person has decided them, and stores a
report.  It has these parts.

| Part | Code | State it keeps |
|---|---|---|
| Run executor | `src/pipeline/demo_executor.py`, `resume.py`, `cancel.py` | `runs`, `run_steps` rows; in memory `_active_runs`, `_cancelled_runs`, one coroutine per execution |
| REST API | `src/main.py`, `src/pipeline/api.py`, `approval_api.py`, `piles_api.py`, `upload_api.py`, `facts_api.py` | none of its own; hands coroutines to the event loop |
| Approval queue | `approval.py`, `approval_postgres.py` | `approval_queue`, `decisions` rows |
| MCP server | `src/mcp_server.py`, `services.py` | another process on the same database |
| Resumable executor | `executor.py`, `checkpoint.py` | the same rows, through a store with a lock per run |
| Routing | `routing.py`, `graph.py`, `nodes/route_to_queue.py` | none |
| Nodes | `nodes/*`, `extractors/*`, `evaluators.py`, `span_resolution.py` | none: functions of the pipeline state |
| Incremental updates | `incremental.py`, `incremental_api.py`, `watcher.py`, `deliverable.py` | sections of a report, hashes of the files seen |
| Claims and findings | `demo_executor.py` 846-1290, `span_resolution.py`, `citation_payload.py`, `evaluators.py`, `main.py` 893-1170 | `claims`, `source_locations` rows; the lists of claims, verdicts and findings of the pipeline state |
| Piles and starts | `piles_api.py`, `upload_api.py`, `main.py` 164-425 | `piles`, `documents`, `pile_documents`, `runs` rows, files on disk, one background task per start |
| Event streaming | `main.py` 56-89, 1212-1256, `usePipelineState.ts` | one queue per subscriber; the stream, timer and interval of a page |
| Reminders | `polling.py` (created by tests only) | reminders sent per item |
| History, cost, facts | `history_service.py`, `history_sql.py`, `facts_api.py`, `source_linker.py` | `audit_events`, `claims`, `source_locations` |
| Web client | `frontend/src` | queue store, polling hooks |

How they interact: a REST call creates a run and hands `run_pipeline` to the
event loop; the executor writes one row per node and pauses at `human_review`
when the queue has pending items; `decide_item`, on a thread of the pool,
records a decision and, when nothing is pending, hands `resume_pipeline` to the
event loop; the resume endpoint, the MCP server and the cancel endpoint act on
the same rows from other threads or another process; subscribers are told of
every node over server-sent events.

What is hard in it: any of these may happen between two transactions of
another; the guard against double execution is in memory while the state it
protects is in the database; a crash keeps the one and loses the other;
transactions fail half-way through a node; the wake-up of a paused run is
decided by whoever happens to see the last decision.

### What makes each part correct

- **Run executor.** One task at a time executes a run; every status it writes
  is one the status trigger of migration 016 accepts; a completed checkpoint is
  never undone and never executed again; a run on hold stands at the human gate
  with every escalated claim in the queue; somebody wakes it when the last item
  is decided; a report shows only decisions that were taken; a settled run is
  left alone; a cancelled run stops at the next node.
- **Approval queue.** One verdict per item, the two tables that hold it agree,
  every caller is told the truth about its call, the audit trail names no
  verdict that was not given, a claim has one item, a deleted run leaves nothing
  behind, and no decide call waits for ever.
- **Routing and nodes.** Every routing answer has an edge; no claim is approved
  without a human or a clean verdict, or rejected as well where a human was asked
  last; no claim is lost between partition and decisions; an escalated claim is
  decided before `finalize`; work that was done is not done again; the walk ends
  when services recover.
- **Resumable executor.** Mutual exclusion per run, each node's side effects
  once, no node skipped, waiting executors get their turn.
- **Incremental updates.** A section takes only what agrees with it, a
  contradiction becomes a queue item and never an overwrite, no value of a
  document is lost, a contradiction stays out of every deliverable, and a file that
  stays is processed.
- **Web client.** What a reviewer sees as decided is decided, what is marked as
  being decided is being decided, a visible page polls what is selected, and a
  decision that was taken is shown in the end.
- **Claims, findings and report.** A claim no person sees has a verdict that
  justifies it; what a reviewer is shown as its place says it; a run that ends as
  plainly completed has its claims in the table, each once; what either check found
  reaches the report.
- **Piles, uploads, starts.** What an upload was answered to be stored, is; a
  recorded document has its file; every run of a start gets its turn.
- **Event streaming.** A stream gets every event after its registration in
  order, an end that is shown is the real one, and an end comes to be shown.

## 2. The plan

The order follows the weight of the behaviour: first the life of a run, where
the database, the event loop, the thread pool and another process meet; then
the queue its gate depends on; then the graph the run walks; then the parts
around them.

| Step | Modules | State |
|---|---|---|
| 1 | `RunLifecycle` with its abstract specification `RunContract`, its inductive invariant `RunInvariant`, the statements the code does not keep `RunExpectations`, proofs `RunProofs` | done |
| 2 | `ApprovalQueue` with its abstract specification `DecisionLedger`, `ApprovalInvariant`, `ApprovalProofs` | done |
| 3 | `PipelineGraph` with `GraphProofs` | done |
| 4 | `ReviewClient` with `ReviewProofs`: polling, run switch and optimistic decisions of the web client, over a server that opens and decides items | done |
| 5 | `IncrementalUpdate`: engine, folder watcher and the incremental endpoint, with `IncrementalProofs` | done |
| 6 | `ResumableExecutor` with its abstract specification `CheckpointLog` and `ExecutorProofs` | done |
| 7 | `PileRuns`: piles, uploads, and the background task that executes the runs of a start, with the second part of `ServiceProofs` | done |
| 8 | `RunStream`: executor, event queues, `GET /state` and the page that follows a run, with the first part of `ServiceProofs` | done |
| 9 | `Evidence` with the operators `SpanResolution` and `SourceFindings`: from a document's claims to its report, with `EvidenceProofs` | done |

The two abstract specifications tie the modules together.  `DecisionLedger` is
implemented by the queue in Postgres (`ApprovalQueue`), by the items inside a run
(`RunLifecycle`) and by the server the review page assumes (`ReviewClient`);
`CheckpointLog` by the executor with a lock (`ResumableExecutor`) and by the
service's run, which has a set of active runs instead (`RunLifecycle`).

What is left: chunk offsets (`nodes/chunk.py`) against a reference definition; the
polling reminders once something other than a test creates the service.

## 3. The modules

### 3.1 `RunLifecycle`: one run, from start to rest

*State.*  The database is `status` (`runs.status`), `steps` (`run_steps.status`
by `step_order`), `savedGap` (the `_persistence_gap` flag inside a checkpoint),
`escalated` (`queue_buckets.escalate`), `items` (`approval_queue.status` of the
run's claims), `deliverable` (the run's row, reduced to the decisions it shows).
`active` and `cancelFlag` are membership in `_active_runs` and
`_cancelled_runs`; each background task has a program counter `pc` and what its
coroutine holds: `kind` (what dispatched it), `pos` (the loop index), `outcome`
(`node_status` and `error_type`), `gap`, `todo` (claims still to enqueue) and
`seen` (the decisions in its copy of the state).  `client` and `target` are the
REST requests in flight.  `lost` is history: an audit event was lost.

*Grain.*  One action is one database transaction or one look at memory; between
two of them every thread and process may run.  Coroutines are coarser, as in the
code: the service runs in one event loop, its database calls are synchronous and
`broadcast_sse` puts on unbounded queues, so a coroutine gives the loop up only
where it awaits the language model, inside a node before `human_review`
(`demo_executor.py` 658, 859, 1011, 1146).  `LoopFree` says so, and guards what
only the event loop can start: a queued task and the arrival of a request.
Request handlers then run on threads and interleave with everything.

*Correspondence.*

| Actions | Code |
|---|---|
| `StartPipeline`, `Enter`, `Refuse`, `BeginRun` | `start_pipeline`, the guard and the first update of `run_pipeline` |
| `Reload`, `CannotResume`, `Unpause`, `Enrich`, `EnrichFails` | `resume_pipeline` with `resume_run`, `_resolve_next_node`, `_enrich_state_with_decisions` |
| `NotCancelled`, `StopCancelled`, `CreateStep`, `RunNode`, `WriteCheckpoint`, `Pause`, `StopFailed`, `Complete` | the loop of `_execute_nodes_from` |
| `ReviewStart`, `Enqueue`, `CountPending` | `_node_human_review` |
| `PersistDeliverable`, `NodeFails`, `ClaimsNotPersisted` | `_node_finalize`, the `except` branches, `_node_extract_claims` |
| `Emit`, `EmitLost` | `_emit_history_event` |
| `Exit`, `Abort` (in `StepExists`, `TransactionFails`) | the `finally` of the coroutines and what their runners do with an exception |
| `DecideCall` ... `WakeUp` | `decide_item` and `_trigger_resume_if_paused` |
| `ResumeCall` ... `ResumeDispatch` | `resume_run_endpoint`, `dispatch_resume_task` |
| `Cancel`, `McpDecide`, `McpStatus`, `Crash` | the cancel endpoint, `services.py`, the end of the process |

*Abstractions.*  The eleven nodes before `human_review` are told apart by their
outcome only, so there are `Prep` of them and the last one, `route_to_queue`,
sets `escalated`; which claims it picks is left open here and settled in
`PipelineGraph`.  `Reload` reads the status, marks orphans and reads the
checkpoint in one step: the task holds the event loop and the entry in
`_active_runs`, so only an orphan clean-up, a decision or a crash could come
between, and those commute with the reads.  An item is decided in one step here;
`ApprovalQueue` opens that step up.

`RunContract` is what the run promises to somebody who sees only `runs` and
`deliverables`: seven actions on a status and a set of reports.  `RunLifecycle`
implements it (`KeepsContract`).  It also implements `CheckpointLog`, with its
completed rows as the log and the node a task is inside as the active one
(`KeepsLog`), and `DecisionLedger`, with its items as the queue and the decisions
they hold as the verdicts (`KeepsLedger`).

### 3.2 `ApprovalQueue`: the queue of one run in Postgres

*State.*  `rows`, `subject` and `decided` are the `approval_queue` and
`decisions` rows, `lock` the row locks, `run` whether the run's row exists,
`audit` the decisions in `audit_events`.  `granted` is history: every decision
ever committed.  `loop` is the coroutine of the API process that holds the event
loop, `todo` the subjects it has still to enqueue, `cleared` what `delete_run`
has deleted so far.  A decide call has `pc`, `item`, `value` and `outcome`.

*Grain.*  `record_decision` is one transaction at READ COMMITTED: `LockRow`
(`SELECT ... FOR UPDATE` sees a pending row), `Refuse` (it sees another one or
none), `Record` (both writes and the commit), `RollBack`.  Then `Notify`, the
listener, outside the transaction, and `Reply`.  `delete_run_and_dependents` is
one transaction of several statements: `DeleteDecisions` takes the snapshot of
its first `DELETE`, `DeleteItem` locks one row after the other and waits for
decide calls, and the foreign key decides between `DeleteRun` and
`DeleteRefused`.  `Review`, `PopulateQueue` and `IncrementalStart` /
`IncrementalUpdate` open items by single-row transactions (`Enqueue`); they hold
the event loop, but the MCP server and the threads do not wait for it.

*Abstractions.*  Payloads are reduced to their subject, a claim or a conflict.
`RoomForConflict` bounds how many conflicts are opened so that claims always
find a free id.  The in-memory store of the tests and the one-off migration of
015 are not modelled.

`DecisionLedger` is the promise of invariants 2 and 5 of `docs/invariants.md`:
an item is opened once, gets one verdict, each verdict concerns one item, items
disappear only together.  The store implements it (`ImplementsLedger`).

### 3.3 `PipelineGraph`: the walk through the nodes

*State.*  `node` is the node to run next, `state` the `PipelineState` reduced to
what routing, partition and finalization read, `items` the run's items in the
approval queue with the decisions on them, `written` what `FinalizeWriter`
committed, and `again` makes a retry that changes nothing a step of its own.

One step runs one node and takes one edge: the node's branches are the actions
(`Ingest` ... `Finalize`, `TransientFailure`, `PermanentFailure`), `Route` is
`make_routing_fn` with its special cases, and `PATH_MAPS` is the table of the
same name.  `Leave` has the guard that the edge exists, as LangGraph would fail
otherwise; `EdgesExist` shows that the guard never blocks.

*Abstractions.*  A text is none, empty, short (one chunk) or long; a label is there
or "unclassified"; a verdict keeps its kind, whether its confidence reaches the
threshold (`sure`), and its `needs_review` flag; a claim is an element of
`Claims`.  Which verdicts a model may return is the constant `Judgements`; the
theorems hold for any.  `human_review` is taken to return when every escalated claim
has a decision: its interrupt and its reader are injected, and that is their
contract.  While it runs, items are opened for the claims escalated now and decided
one by one (`Reviewed`), also when it fails in the end (`HumanReviewFails`), and
what it reads are all decisions of the run, those on claims only an earlier
partition escalated included (`human_review.py` 106).  So after a repeated partition
a duplicate that was approved by a person may be rejected by the partition and
written both ways; `ApprovalsAreJustified` says that this is the only case, and
section 7 lists it.  The transaction of `FinalizeWriter` is injected, too, and taken
to be atomic.  `build_graph` itself is used by tests only; the service takes
`PATH_MAPS` and the routing functions from it (`resume.py`) and has its own loop in
`demo_executor.py`, which is `RunLifecycle`.  An undecodable plain-text file raises
out of `extract_text`; that exception is not modelled.

### 3.4 `ReviewClient`: the review page over the queue

*State.*  `server` is `approval_queue.status` of each item; the page is
`selected` (`selectedRunId`), `runs` (how far `GET /runs` has come), `visible`,
`interval` (the timer in `intervalRef`), `leaked` (timers no reference is left
to) and `submitting`; the queue store is `items` and `optimistic`, both by item.
A poll has its view and the list it carries, a submission its item, its value
and what `fetchItem` brought.

*Grain.*  JavaScript runs one handler at a time, so a handler is one action, and
every `await` ends one: `Ask`, `Answer` (the server reads), `Deliver` (the page
shows) or `PollFails`; `Click`, `Send` (400 ms later), `Accept` or `Conflict`,
`FetchItem`, `PostFails`, `Finish`.  Effects of React run in the action that
changes what they depend on.  Other reviewers (`OtherDecides`) and `human_review`
(`Open`) act at any time.

| Actions | Code |
|---|---|
| `Tick`, `Ask`, `Answer`, `Deliver`, `PollFails` | `doFetch` of `usePolling.ts`, `mergeItems`, the queue endpoints |
| `Show` in `SelectRun` and `LoadRuns`, `LoadsNothing` | `handleSelectRun`, `loadRuns`, `setRunId`, the interval effect |
| `Hide`, `Reappear` | `handleVisibilityChange` |
| `Click`, `Send` ... `Finish` | `DecisionControls`, `submitItemDecision`, `handleDecision` |

*Abstractions.*  A slot bounds what is in flight; slots are interchangeable.  A
lost answer to a poll is a failed poll.  The server is a `DecisionLedger`
(`ServerIsALedger`) whose items are never deleted.  The page
is not left; the selected item, filters, counters, the connection banner and the
progress of the run are not modelled.  `approved_needs_recheck`, which only the
migration 015 writes, counts as approved.

### 3.5 `ResumableExecutor`: the executor with a lock per run

*State.*  `rows` is `run_steps`, `memory` the checkpoints the in-memory store
keeps beside it, `lock` and `held` the lock object of the run and whether it is
locked, `cancelled` the flag.  A call of `run()` has `pc`, `at` (`step_order`),
the `state` it holds, which counts how often each node was applied to it, and
`acquired`.  `store` is chosen once: "threadsafe" is the store of
`tests/test_concurrency.py` with the optional lock methods, "inmemory" is
`InMemoryExecutorStore`, which lacks `_get_run_lock` and whose rows obey
`UNIQUE(run_id, step_order)`.

*Grain.*  Each statement that reads or writes what calls share is an action:
`Look`, `Make` (two calls may both see no lock object), `Try`, `Wait`, `Clean`,
`Read`, `Loop`, `Create`, `RunNode`, `Write`, `Remember`, `Leave`; a call may
`Raise` at any of them.  A call that fails is followed by another element of
`Calls`.

`CheckpointLog` is what resumability promises: checkpoints are written once, in
the order of the nodes, and no node with a checkpoint, or before one, starts
again.  The executor implements it (`KeepsLog`).

### 3.6 `IncrementalUpdate`: documents that arrive after a run

*State.*  Each worker, the watcher or an upload, has a deliverable (`report`) and
the document it works on (`doc`, `found`, the `affected` sections still to do).
The watcher keeps its deliverable from file to file, with `processed`
(`_processed_hashes`) and the `listing` of the scan; an upload rebuilds one from
`latest`, the latest completed run of the pile, which was a run of the document
`subject`; `base` keeps that document for each worker.  A later run may be of any
document of the `Pile`, the uploaded ones included, for the endpoint links what it
stores to the pile (`incremental_api.py` 490-495), and its claims are filed as that
document's (`deliverable_store.py` 74).  `queue` is the conflict items,
committed one by one.  A section keeps its claims and the value of the last of
them, because `detect_conflicts` compares with nothing else.

*Correspondence.*  `Extract`, `UpdateSection`, `NewSections` and `Finish` are
`process_incremental`; `Scan`, `NextFile`, `ProcessSingleFile`, `EndScan` the
watcher; `Find`, `Store`, `ExtractUpload`, `Audit` the endpoint.  `Touch` writes,
replaces or removes a file, or makes it unreadable, at any time, also between its
listing and its hash; a file that is gone by then, or cannot be read, raises out of
the scan (`watcher.py` 187, 275), which ends there (`NextFile`), and one that
becomes unreadable later fails alone; each step may raise; `Crash` restarts the
process.  Claim ids come in the two styles the code produces, typed and numbered,
and sections are keyed by them (`Key`).

*What the properties leave out.*  `StableFileIsProcessed` does not hold for a file
behind one that is unreadable, or that is removed between listing and hash, in scan
after scan: each scan ends before it gets there (section 7).
`ConflictsAreNotApplied` speaks of what an update writes.  A later run of an uploaded
document extracts the document anew and reports what it found, also a value whose
conflict with the runs before is still open; a deliverable rebuilt from that run has
it as the run's own claim, and no update may add it.

### 3.7 `PileRuns`: piles, uploads and starts

*State.*  `pile`, `rows`, `member`, `files` and `runs` are tables and the upload
directory.  An upload has the files `left` to read, its database `session` and
what its answer names (`told`).  A start has the runs its task is `waiting` to
execute and the one it executes (`busy`); `resumed` are those a resume executes.

*Grain.*  Handlers are coroutines and yield only where they read a file of the
request, so `ReadFile` and `CommitUpload` are the steps of an upload.  Inside a
run (`Begin` to `End`) anything may happen to it; that is `RunLifecycle`.
`sound` says that `load_config` accepts the overrides of a start.

### 3.8 `RunStream`: a run as a page sees it

*State.*  The run is its status and last step; the executor (`pc`, `node`,
`outcome`, and `by`, what dispatched it: a start or a resume, whose runners treat an
exception differently); per stream its stage,
its `queue` and how much was broadcast before the event it takes next (`taken`);
the page's `es`, `connected`, `timer`, `poll` and `view`; the `GET /state`
requests in flight.

*Correspondence.*  `StartNode` to `TellStatus` are `_execute_nodes_from` with its
broadcasts, `Raise` the handlers of the two background tasks; `Register`, `Greet`,
`Deliver`, `Disconnect` are `stream_run_events` and `applySSEEvent`; `Open`,
`Leave`, `Break`, `Timeout`, `Tick`, `Sample`, `Answer`, `Fail` the hook
`usePipelineState`.  Node events carry only their status.

### 3.9 `Evidence`, `SpanResolution`, `SourceFindings`: from claims to report

`Evidence` is the executor's nodes after the chunks: `Extract`, `Persist`
(`persist_extraction_results`; `PersistFails` is a commit that fails, or one whose
answer is lost, and is retried once), `MatchRules`,
`MatchSourceSpans`, `MergeFindings`, `ScoreConfidence`, `RouteToQueue`, and the
verdict of `get_run_report`.  A model answers anything its JSON can say, about
any claim, or nothing.  A finding against the document has any word for its verdict:
those the report does not know are "other", and the report passes over them
(section 7).  A run is never taken up again in these nodes: after a crash it stays
`running`, for which the resume endpoint starts no task, and `RunProofs` has that a
resume begins at the gate (`ResumesAtTheGate`), so no node here is executed twice.

`SpanResolution` translates the search for a claim in its text, the mapping from
the collapsed text back to the original, the search by tokens and the citation a
reviewer is shown.  A text is a sequence of words, spaces and marks; a word is a
token of three characters or more (`LongEnough`).  Normalizing is given in closed
form: `Kept` are the characters that survive it, which are all but spaces and, of
each run of spaces inside the text, the first, and `Sorted` puts each at its rank.
What `\s` matches (`Spaces`) and what the mapping of positions takes for a space
(`PlainSpaces`) are two sets, because in the code they are.
`SourceFindings` translates the graph's check
of a document against the rules with its two evaluators and the clamping of
offsets; the findings are a set, since no property depends on their order.
Both are pure: `CitationsAreReal` states over the claims, texts, rules, chunks and
answers that `Evidence` has as constants what they promise.  For a text with other
spaces than plain ones it is silent about the search that maps positions, since
there the code is wrong (section 7).

## 4. The runs

| Run | Instance | Checks | Shows |
|---|---|---|---|
| `safety` | 2 claims, 2 tasks, 2 requests, `Prep = 2`, 1 fault, MCP on, symmetry | five invariants, `CheckpointsAreFinal`, refinement of `RunContract` | no interleaving of executor, requests, MCP server and one fault breaks the life of a run (2.3 million states) |
| `live` | 2 claims, 2 tasks, 2 requests, `Prep = 1`, no fault, no MCP | `RunningComesToRest`, `DecidedRunResumes`, `CancelIsHonoured` | without faults a running run rests, a decided run is resumed by whoever saw the last decision, a cancellation is seen |
| `queue` | 3 items, 2 claims, 2 calls (one by MCP), 1 fault | three invariants, refinement of `DecisionLedger`, `EveryCallAnswered` | decisions, enqueues, deletion and one fault in any order (437 thousand states) |
| `graph` | 2 claims, `max_retries` 0 or 3, 5 verdicts, one for every line of the partition | two invariants, `EndsWhenServicesRecover` | every walk through the thirteen nodes, with repeated partitions and reviews (184 thousand states) |
| `client` | 1 item, 2 runs and "all", 2 polls, 1 submission | three invariants, `CatchesUp` | polls, a submission, other reviewers, run switches and tab changes in any order; a stale list is replaced in the end |
| `executor` | 2 calls, 3 nodes, both stores | two invariants, refinement of `CheckpointLog`, `EveryCallEnds` | threads that race and calls that repeat failed ones keep the log and return whole states |
| `folder` | 2 files, 2 contents, 3 documents, 2 facts, 2 values, no upload | `NothingSaidIsLost`, `OnlyAgreementIsMerged`, `StableFileIsProcessed` | a watcher over a folder that changes under it, with unreadable files, failures and a restart (876 thousand states) |
| `uploads` | 2 uploads, no file, 2 reports, 2 ways of naming claims | `ConflictsAreNotApplied` | uploads at once, while runs of old and of uploaded documents complete and steps fail (280 thousand states) |
| `piles` | 1 pile, 2 uploads (of up to 2 files), 1 start, 2 documents, 2 runs, 1 fault | two invariants, `EveryRunGetsItsTurn` | uploads, deletions, a start, resumes, a crash and a failing transaction in any order (870 thousand states) |
| `stream` | 1 node, which is the gate, 2 streams, 1 request, 1 fault | two invariants, `EndIsShown` | a page that comes, leaves and comes back while the run is executed, held, resumed, cancelled or fails (633 thousand states) |
| `evidence` | 2 claims, 2 judgements, thresholds 60 and 80, confidences 65 and 90; texts of up to four words, some with form feeds, claims of up to three; two chunks, up to two rules and the structured one | four invariants | what models answer, and what fails, decides neither an approval nor the report's silence (2 million states) |
| `gate` | 1 claim, 2 tasks, 1 request | `GateHolds`, a comment of the code | a counterexample, see section 7 |

*Why the bounds are enough.*  Two claims make the difference between the last
decision and one before it, and between a decided and an undecided item in one
report.  Two tasks are the least at which one can refuse, overtake or follow
another; more are turned away at the same guard.  Two requests race each other
and, with the MCP server, a third actor.  `Prep = 2` gives a node that is not
the last before the gate, where a permanent error or a lost claim can happen,
and one that is `route_to_queue`.  One fault may be a crash, a failing
transaction, a dead handler or a lost event, at any point; for sequences of
faults there are the theorems, whose `MaxFaults` is any number.  Three
items allow two claims and a conflict.  `max_retries` is 0, where no retry edge
may be taken, or the default; the five verdicts are one for each way through the
conditions of `route_to_queue`.  Two polls in flight are the least that can
overtake each other; "all" is a second view of the same item; with two
submissions the invariants were checked apart, without the liveness property,
and the theorems hold for any number.  Two calls of the executor are two threads,
or a call and its repetition; three nodes have a first, a last and one between.
Two files are the least at which one can keep the other from being processed;
the three documents say a new fact, the same value, another value, nothing, and
two values of one fact; the two reports of a pile differ in a value and in a fact
found or not.  Two documents and two runs are a run and one after it; two uploads
are one that fails beside one that succeeds, into the same directory.  In
`stream` one node has every event there is; the invariants were also checked
with two nodes and with two requests, where
a liveness check would take too long.  Two judgements are the least that can
contradict each other on a claim; the confidences lie on either side of 0.7 and
of both thresholds.  The bounds are constants of the configurations; the theorems
below do not have them.

Deadlock is checked in the runs of `RunLifecycle`, where a request can always
arrive, of `ReviewClient`, where a tab can always be hidden or a timer fires, of
`ResumableExecutor` and of the watched folder.  It is off where the system
really comes to rest: `ApprovalQueue`, whose calls are used up, `PipelineGraph`,
whose walk ends, the uploads, `PileRuns`, `RunStream` and `Evidence`.

*Fairness.*  The event loop runs whatever can run and the pool serves every
request it accepted: weak fairness for each task's next step and each handler's
next step (`RunLifecycle`), for the coroutine that holds the loop and for each
decide call (`ApprovalQueue`; Postgres grants a row lock that is free), for each
step of a call (`ResumableExecutor`; a thread that waits is overtaken only by
calls that have not had the lock), for the task of a start (`PileRuns`).  Nothing
obliges a reviewer to decide, an operator to call resume or the MCP server to do
anything.  Faults are never fair.  In `PipelineGraph` the graph keeps running
(weak), and a service asked again and again answers in the end (strong fairness
of the steps that are no transient failure): without it an outage that never
ends would hold a walk for ever, which is no fault of the graph.  (So would a
configuration without a threshold, which makes `route_to_queue` fail each time;
`load_config` supplies one.)  In
`ReviewClient` handlers run and submissions end (weak), the timer of the page
fires and polls of a view that are sent for ever are answered in the end
(strong, because a timer nobody can stop competes with them for the slots).
Whoever owns a watcher calls `scan_once` again and again and a scan gets on
(weak).  In `RunStream` the server registers, greets and delivers, requests are
answered and the interval of a page that polls fires (weak); nothing makes a run
end, a page stay or a stream break.

## 5. What is proved

All theorems hold for every value of the constants under the assumptions named in
the modules: `Prep` is positive, `MaxFaults` a number, `McpOn` a Boolean
(`RunLifecycle`); there are at least as many item ids as claims, the MCP server's
calls are among the calls, and a few tokens are not ids (`ApprovalQueue`); the retry
limits are numbers and the rule check returns verdicts (`PipelineGraph`); every item
has a run, and "none" and "all" are not runs (`ReviewClient`); there is a node, and
the name for no lock is no call (`ResumableExecutor`); confidences are percentages,
bounds are numbers, the lack of an answer is no answer, texts are sequences of
words, spaces and marks, which are different things, the mapping of positions knows
the blank, chunks end where they start or later, and replies have integers for
offsets (`Evidence`); bounds are numbers and the gate is a node (`RunStream`);
bounds are numbers (`PileRuns`); extractions are statements about the facts, runs
are numbered from 1, no value is called "not_found" or "none", and the watcher is no
upload (`IncrementalUpdate`).  The sets of claims, tasks, requests, items, calls,
polls, submissions, streams, piles, uploads, starts, facts, values and contents are
arbitrary.

| Module | Theorems |
|---|---|
| `RunProofs` | `Invariance` (the inductive invariant `IInv` holds always), `TypeOK`, every invariant of the run `safety`, `SettledIsQuiet`, `OneStepInProgress`, `FinalizedHasDeliverable`, `ResumesAtTheGate`, `CheckpointsKept` (an action property) and three refinements: `Refinement` (every behaviour of `RunLifecycle` is one of `RunContract`), `RunKeepsLog` (of `CheckpointLog`) and `RunKeepsLedger` (of `DecisionLedger`) |
| `ApprovalProofs` | `QueueInvariant`, `TypeOK`, every invariant of the run `queue`, `AuditIsTrue`, `NoDuplicateItems`, `StoreIsALedger` (refinement of `DecisionLedger`) |
| `GraphProofs` | `GraphInvariant`, `TypeOK`, every invariant of the run `graph`, `ReviewedBeforeFinalize`, `NoRework`, `EdgesExist` |
| `ReviewProofs` | `ClientInvariant`, `TypeOK`, every invariant of the run `client`, `PageKeepsLedger` (refinement of `DecisionLedger`) |
| `ExecutorProofs` | `ExecutorInvariant`, `TypeOK`, both invariants of the run `executor`, `ExecutorKeepsLog` (refinement of `CheckpointLog`) |
| `IncrementalProofs` | `IncrementalInvariant`, `TypeOK`, `NothingSaidIsLost`, `ConflictsAreNotApplied`, `OnlyAgreementIsMerged` (an action property) |
| `ServiceProofs` | of `RunStream`: `StreamInvariant`, `TypeOK`, `NothingIsMissed`, `EndShownIsReal`; of `PileRuns`: `PileInvariant`, `PileTypeOK`, `AnsweredIsStored`, `DocumentsHaveFiles` |
| `EvidenceProofs` | `EvidenceInvariant`, `TypeOK`, `NoVerdictNoApproval`, `CompletedIsDurable`, `BadNewsReachesTheReport`, `CitationsAreReal`; of the operators, for every input: `FindingsCiteChunks`, `SnippetsSayTheClaims` |

*The run.*  None of its properties is inductive alone.  That at most one task
executes needs that an executing task holds the entry of `_active_runs`, one at a
time (`Executors`).  That an attempted status update is legal needs what a task
knows of the status from the moment it read it (`StatusKnown`), which holds because
only the executing task writes it.  That a checkpoint is final needs where the task
stands in the sequence of rows (`RowsMatch`): the row at its position is its own,
later rows do not exist, except a failed `finalize`.  The gate needs two facts about
time: nothing is queued before `human_review` starts (`GateKept`), and while
`human_review` has no checkpoint the run is in the hands of `run_pipeline` or
abandoned for good (`BeforeTheGate`); the second is why a resume always starts at
the gate or after it.  `HandlersKnow` and `SeenFaithful` say what request handlers
and coroutines know about the queue although they read it in the past: decisions are
never taken back.  `StartedOnce` and `Delivery` close the argument.  `RunProofs` has
one lemma per part of the invariant, each with a step per action, and draws the
properties from it. For the refinement, `ContractStep` maps every step to one of
`RunContract` or a stutter: `Complete`, `StopCancelled` and `StopFailed` are
`Settle`, `PersistDeliverable` is `Deliver`, most others stutter.  For the
checkpoint log `CreateStep` is `Start`, `WriteCheckpoint` is `Commit` or, of a
failed node, `Fail`, and so are `Abort` and `Crash`, which end an execution without
a checkpoint; what stands in for the lock is `Executors` with `RowsMatch`.  For the
ledger `Enqueue` is `Open`, and the decisions of the API and of the MCP server are
`Settle`.

*The queue.*  The two tables agree because whoever commits a decision holds the
row lock and the row is still pending (`LocksProtect`); the answers are true
because what was granted stays in the row until the run is deleted
(`GrantsAreKept`); items are unique because a coroutine that is enqueuing holds
the event loop, so what it has still to open has no item (`TodoIsNew`), and it
does so for a run that exists (`TodoHasRun`).  For the refinement `Record` is
`Settle`, `Enqueue` is `Open`, `DeleteRun` is `Purge`.

*The graph.*  The invariant says which nodes are completed when the walk is at a
given node (`InOrder`), that nothing is partitioned, decided or written before
its time (`NotYet`), what a
bucket says about its claim's verdict and a decision about its item
(`BucketsAreMeant`), and what was written about the buckets and decisions
(`WrittenIsMeant`).  `NoClaimIsLost` then needs a case split over the buckets.  That a
claim is written both ways only after a repeated partition needs that until then every
item is of an escalated claim (`ItemsAreMeant`), for `human_review` alone opens items.

*The review page.*  `ShownIsReal` needs that every list on its way and every
refreshed item is real, too (`Truth`); they stay so because the server keeps its
verdicts: `Open` opens, `Accept` and `OtherDecides` settle, and no other step
touches the server, so it is a ledger.  A visible page polls its selection
because a page without one has no timer (`NothingToPoll`).

*The resumable executor.*  Its two stores keep one promise for two reasons: in
the one the lock lets a single call inside (`LockHeld`), in the other a call that
starts a node knows that no call started it before, because it could insert the
row, and that every node before it was written (`StoreInOrder`, `Placed`).  Either
way the rows below a working call are final, and its state has passed what they
stand for, each node once (`Carried`).

*Incremental updates.*  The properties speak of deliverables and items that any
worker may have written, so the invariant ties them to document numbers: each is
drawn once and used by one worker (`DocsAreOwn`), and while its update is under way
nothing says anything of it about a section still to be processed (`NotYetSaid`).  A
processed section is settled by its claims, by items for each of its values, or is
not there and will be made at the end (`Progress`); a value that equals the last
claim's is kept because a section's last value is one of its claims
(`SectionsAreWhole`).  A conflict stays out because the document of an update is
never the one whose run its deliverable was rebuilt from (`DocsAreOwn`), claims of a
deliverable's base are those of a run (`BaseIsOfRuns`), and in a deliverable of
another base no claim is what an item says (`ConflictsStayApart`).  What a step of
the engine leaves to the other workers is stated once (`Grown`).

*Event streams.*  A stream that is not subscribed has an empty queue
(`QueuesAreOpen`), so counting starts right.  An end the page shows is real
because every end on its way, in a queue or in an answer, is (`NewsIsTrue`), and
because the executor broadcasts an end only after the row holds it
(`ExecutorKnows`).

*Piles and uploads.*  That an answer is true when it is given needs that nobody
else removes or records the files of an open session: document numbers only grow
(`Numbered`), the documents of a session have files but no records, belong to one
unanswered upload, and are what it will name (`SessionsAreOwn`).  A clean-up
removes only files of its own session, so recorded documents keep theirs
(`Recorded`), and runs are made of recorded documents (`RunsAreOfRecords`).
`ServiceProofs` extends `RunStream` and `PileRuns`, which share no name; the
theorems about one say nothing of the other.

*Evidence.*  The invariant follows the answer of the claim check through the
stages: nothing is judged before it (`NotYet`), after it each verdict is that of
the answer (`SaidIsKept`) or, without an answer, one for review
(`SilenceIsForReview`), and from scoring on the findings are those of both checks
(`FindingsAreMerged`).  A second attempt to write the rows may meet those of the
first; past the attempts the rows are the claims unless the gap is recorded
(`RowsAreWritten`).

*Citations.*  Of the two halves of `CitationsAreReal`, findings against the
document are grounded because clamping is bounded and the first rate above the
limit exists (`FindingsCiteChunks`).  The other half (`SnippetsSayTheClaims`) holds
for texts over any characters.  A claim that is there word for word is shown word
for word.  For the normalized search, places are compared by rank: the normalized
text has each kept character at its rank among the kept ones (`NormalizeByRank`,
since a finite set of numbers has a member of every rank); walking `n` characters
ends at the kept character of rank `n` if all spaces are plain
(`MapPositionByRank`); and a slice between two such places keeps what the text
keeps there, less the rank before it (`SliceKeeps`, `RankShift`), so that
normalizing the slice gives the claim again (`NormalizedSays`).  For the search by
tokens, the best window exists because "denser, then more hits, then earlier" is a
total order of finitely many windows (`BestExists`); its first and last word are
words of the claim, also after stretching outward, and its hits are as many
different words, so the slice holds the required share (`AnchorSays`).  Where an
argument runs over numbers or over the members of a finite set it takes the least
exception, as the naturals are well ordered; the library's induction theorems
cannot be used (see below).

*Only model-checked.*  The liveness properties (`RunningComesToRest`,
`DecidedRunResumes`, `CancelIsHonoured`, `EveryCallAnswered`,
`EndsWhenServicesRecover`, `CatchesUp`, `EveryCallEnds`,
`StableFileIsProcessed`, `EveryRunGetsItsTurn`, `EndIsShown`): liveness under
fairness, and `ENABLED`, are out of the prover's reach.  So are the library's
induction theorems, which take an operator as a parameter; every invariant the
runs check is proved without them.  No modelled definition needs a recursive
operator; `MCEvidence` uses one to enumerate texts.  `GateHolds` is refuted by TLC.

## 6. Checking it

    tlc -config RunLifecycle_safety.cfg MCRunLifecycle      (about 3 minutes)
    tlc -config RunLifecycle_live.cfg MCRunLifecycle
    tlc -config RunLifecycle_gate.cfg MCRunLifecycle        (a counterexample)
    tlc -config ApprovalQueue.cfg MCApprovalQueue
    tlc -config PipelineGraph.cfg MCPipelineGraph
    tlc -config ReviewClient.cfg MCReviewClient             (about 3 minutes)
    tlc -config ResumableExecutor.cfg MCResumableExecutor
    tlc -config IncrementalUpdate_watch.cfg MCIncrementalUpdate
    tlc -config IncrementalUpdate_uploads.cfg MCIncrementalUpdate
    tlc -config PileRuns.cfg MCPileRuns
    tlc -config RunStream.cfg MCRunStream
    tlc -config Evidence.cfg MCEvidence
    tlapm RunProofs.tla        (then ApprovalProofs, GraphProofs, ReviewProofs,
                                ExecutorProofs, IncrementalProofs, ServiceProofs,
                                EvidenceProofs)

Definitions whose comment begins with "mutant:" are not part of the models: each
is a plausible mistake in the definition that follows it, and TLC finds the
property named in `PROJECT.json` violated when the mistake takes its place.

## 7. Where the code and its documentation disagree

Refuted by a run:

- `gate`: a manual resume of a run on hold runs `finalize` although items are
  pending (`api.py` 347-354); the comments call this the human gate.

Met while modelling; `PROJECT.json` quotes each with its lines.

*The run.*  Decisions taken while `human_review` is still enqueuing are missing
from the report when the last of them comes before its count
(`demo_executor.py` 1319, 1383).  When the event of completion is the one that is
lost, the run ends as `completed` (247-256).  A last decision taken through the
MCP server wakes nobody (`services.py` 318-330).  A run whose process died stays
`running`, and the resume endpoint does nothing for that status (`api.py`
331-345).  A cancelled run cannot be resumed (1087); an orphan clean-up for a
live run fails the row of its running node; a run whose deliverable could not be
written ends as `completed`; `clear_cancel` is called by nobody.

*The queue and the graph.*  An incremental update that chose its run before the run
was deleted puts its conflicts into the queue of a run that is gone
(`incremental_api.py` 408-418).  A document that is escalated before its claims are
extracted completes without a human; a repeated partition may reject a duplicate
that was approved before, and `finalize` writes it both ways (`human_review.py`
106); with `max_retries = 0` a failing `route_to_queue` loses every claim;
`state["retries"]` is written by nobody, so a transient error is retried for ever.

*The review page.*  A poll of the run shown before is merged into the queue of
the run shown now; a timer started in a hidden tab is never stopped; an
optimistic status is not shown as the item's status; a failed `GET /runs` is not
repeated.

*The resumable executor.*  `InMemoryExecutorStore` has no lock for a call to wait
for, so the call goes on unlocked, and its orphan clean-up does nothing; a node
that ends in error is checkpointed, and a later resume takes it as done.

*Incremental updates.*  Claims of a run that are named by number are filed under
`generic.<id>`, so no new claim ever meets them; of several claims of a type only
the last is compared, also when it says "not_found"; what the endpoint computes
is stored nowhere, so two uploads never meet; a file that cannot be read ends every
scan, and the files after it are never processed (`watcher.py` 187).

*Piles and starts.*  Overrides that `load_config` refuses strand the run and all
later runs of its start in `pending` (`main.py` 411); a start of one document
records the documents of the whole pile; an upload outside a pile makes a
document of no pile.

*Event streaming.*  The status in the event "connected" is ignored; an answer to
`GET /state` overwrites what newer events said; a client that leaves before the
first event leaves its queue behind; a resume that raises tells no page.

*Claims and report.*  Indeterminate claims with a confidence of 0.7 are approved
by themselves; the report of a run with a gap, or of a cancelled one, is never
ready, and that of a run that failed early says COMPLIANT; a finding
against the document with another word for its verdict than the report knows leaves
it COMPLIANT (`demo_executor.py` 1156); findings against the document
share one key, so the queue's overview lists one of them; the text of a cited
span is the model's own; after white space
other than blanks, tabs and line ends, such as a form feed or a no-break space in a
run, a claim found by the normalized search is cited from the wrong place
(`span_resolution.py` 95); `load_playbook` is not awaited, so a reviewer
never sees the text of a rule.

## 8. What is not modelled

- *Polling reminders* (`polling.py`): only tests create the service, over four
  interfaces that nothing implements, and its reminders depend on the clock.
- *Extractors and the language model client*: prompts, regular expressions and
  network calls.  Their results are inputs of `Evidence`, `IncrementalUpdate` and
  `PipelineGraph`, where any result and any failure is tried.
- *Queries that only read* (history, cost, facts) but for the citation of a fact,
  and the scripts that seed demonstrations.
- *Machinery*: FastAPI, LangGraph, SQLAlchemy and Postgres are taken at their
  documented behaviour.
- *Left out of modelled parts*: chunk boundaries and embeddings, the risk score
  and the wording of a report, the endpoint that stores whether a pile is
  watched, the in-memory approval store, the progress store, filters and canvas
  of the client, the contents of states and payloads, reviewer identities and
  justifications, time stamps.
