---------------------------- MODULE RunInvariant ----------------------------
(***************************************************************************)
(* The inductive invariant of RunLifecycle: what must hold between any two *)
(* transactions for the safety properties to survive every step.           *)
(***************************************************************************)
EXTENDS RunLifecycle

\* between two nodes, about to run the one at pos[t]
Between(t) ==
  \/ pc[t] \in {"unpause", "enrich", "loop", "create"}
  \/ (pc[t] = "emit" /\ next[t] \in {"enrich", "loop"})

\* the row of the step at pos[t] exists and is not yet written
InNode(t) == pc[t] \in {"node", "review", "enqueue", "persist", "checkpoint"}

\* the transaction that puts the run on hold is next
Holding(t) == pc[t] = "pause" \/ (pc[t] = "emit" /\ next[t] = "pause")

\* working before the gate, with human_review still to be entered
BeforeGate(t) ==
  \/ (Between(t) /\ pos[t] <= HumanReview)
  \/ pc[t] \in {"node", "review"}
  \/ (pc[t] = "checkpoint" /\ pos[t] < HumanReview)

Queued(c)  == items[c] # "absent"
NothingQueued == \A c \in Claims : ~Queued(c)

\* someone acts on a decision that was taken through the REST interface
Deciding(u) == client[u] \in {"decide", "recount", "wake"}
NobodyDecides ==
  /\ \A u \in Clients : ~Deciding(u)
  /\ \A t \in Tasks : kind[t] # "decide"

-----------------------------------------------------------------------------
(* Its parts *)

\* Executing tasks hold the entry of _active_runs, one at a time; idle tasks
\* have no kind, and only run_pipeline is found at "begin".
Executors ==
  /\ \A t \in Tasks : Executing(t) => active
  /\ SingleExecutor
  /\ \A t \in Tasks : pc[t] = "idle" <=> kind[t] = "none"
  /\ \A t \in Tasks : pc[t] = "idle" => next[t] = "exit"
  /\ \A t \in Tasks : pc[t] = "begin" => kind[t] = "start"
  /\ \A t \in Tasks :
       pc[t] \in {"reload", "unpause", "enrich"} \/ next[t] = "enrich" => kind[t] # "start"

\* A run is started once; before that nothing of it exists.
StartedOnce ==
  /\ \A t, u \in Tasks : kind[t] = "start" /\ kind[u] = "start" => t = u
  /\ status = "none" =>
       /\ \A t \in Tasks : pc[t] = "idle"
       /\ \A u \in Clients : client[u] = "idle"
  /\ status \in {"none", "pending"} =>
       /\ \A s \in Steps : steps[s] = "absent"
       /\ NothingQueued

\* The status a task relies on when it writes the next one.
StatusKnown ==
  \A t \in Tasks :
    /\ kind[t] = "start" /\ pc[t] \in {"queued", "begin"} => status = "pending"
    /\ pc[t] = "unpause" => status = "paused"
    /\ pc[t] \in Working => status = "running"
    /\ pc[t] = "emit" /\ next[t] \in Working => status = "running"
    /\ kind[t] = "start" /\ (pc[t] = "exit" \/ (pc[t] = "emit" /\ next[t] = "exit"))
         => status # "running"

\* Where the executing task stands in the sequence of steps.
RowsMatch ==
  \A t \in Tasks :
    /\ Between(t) =>
         /\ \A s \in Steps : steps[s] # "running"
         /\ \A s \in pos[t] .. Finalize :
              steps[s] = "absent" \/ (pos[t] = Finalize /\ steps[s] = "failed")
    /\ InNode(t) =>
         /\ pos[t] \in Steps
         /\ steps[pos[t]] \in {"running", "failed"}
         /\ \A s \in Steps : s # pos[t] => steps[s] # "running"
         /\ \A s \in pos[t] + 1 .. Finalize : steps[s] = "absent"
    /\ pc[t] = "create" => pos[t] \in Steps
    /\ pc[t] = "node" => pos[t] <= Prep
    /\ pc[t] \in {"review", "enqueue"} => pos[t] = HumanReview
    /\ pc[t] = "persist" => pos[t] = Finalize
    /\ pc[t] = "emit" => next[t] \in {"enrich", "loop", "pause", "exit"}

\* The gate: what is queued, and what must be before the run is put on hold.
GateKept ==
  \A t \in Tasks :
    /\ BeforeGate(t) => NothingQueued
    /\ pc[t] = "enqueue" =>
         /\ \A c \in escalated : Queued(c) \/ c \in todo[t]
         /\ \A c \in todo[t] : ~Queued(c)
         /\ NobodyDecides
    /\ pc[t] = "checkpoint" /\ outcome[t] = "held" =>
         /\ pos[t] = HumanReview
         /\ \A c \in escalated : Queued(c)
    /\ Holding(t) =>
         /\ \A c \in escalated : Queued(c)
         /\ steps[HumanReview] = "completed"
         /\ steps[Finalize] = "absent"

\* While human_review has no completed checkpoint the run is in the hands of
\* run_pipeline, or abandoned and out of reach of every resume.
BeforeTheGate ==
  status = "running" /\ steps[HumanReview] # "completed" =>
    \/ \E t \in Tasks : kind[t] = "start" /\ Executing(t)
    \/ /\ \A t \in Tasks : pc[t] = "idle"
       /\ \A u \in Clients : client[u] \notin {"mark", "dispatch"}

\* What the handlers know of the queue.
HandlersKnow ==
  /\ NothingQueued => NobodyDecides
  /\ \A u \in Clients : client[u] = "wake" => Pending = {}

\* What the tasks know of the decisions.
SeenFaithful ==
  \A t \in Tasks, c \in Claims : seen[t][c] # "none" => seen[t][c] = items[c]

\* The deliverable and the finalize step.
Delivery ==
  /\ steps[Finalize] = "absent" => deliverable = {}
  /\ \A t \in Tasks :
       /\ pc[t] = "persist" => deliverable = {}
       /\ pc[t] = "checkpoint" /\ pos[t] = Finalize /\ outcome[t] # "transient"
            => deliverable # {}

\* The conjunction is inductive: it implies every safety property of
\* RunLifecycle and no step of the executor, the handlers, the MCP server or a
\* crash leads out of it.
IInv ==
  /\ TypeOK
  /\ Executors
  /\ StartedOnce
  /\ StatusKnown
  /\ RowsMatch
  /\ GateKept
  /\ BeforeTheGate
  /\ HandlersKnow
  /\ SeenFaithful
  /\ Delivery
  /\ PausedAtTheGate
  /\ WokenWhenDecided
  /\ DeliverableFaithful
  /\ OneStepInProgress
  /\ FinalizedHasDeliverable
=============================================================================
