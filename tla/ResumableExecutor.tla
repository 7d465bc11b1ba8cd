-------------------------- MODULE ResumableExecutor --------------------------
(***************************************************************************)
(* ResumableExecutor.run, called by several threads, or again after a      *)
(* failure, for one run: executor.py, over either of the two stores it is  *)
(* used with.  "threadsafe" is the store of tests/test_concurrency.py,     *)
(* which has the optional lock methods; "inmemory" is                      *)
(* InMemoryExecutorStore of stores.py, which lacks _get_run_lock and keeps *)
(* its rows in the table run_steps, UNIQUE(run_id, step_order).            *)
(* A state keeps how often each node has been applied to it.               *)
(***************************************************************************)
EXTENDS Naturals

CONSTANTS
  Calls,       \* calls of run(): threads, and later attempts
  NodeCount,   \* the length of the list of nodes
  NoLock

ASSUME NodeAssumption == NodeCount \in Nat \ {0}
ASSUME LockAssumption == NoLock \notin Calls

VARIABLES
  store,      \* the store the calls share
  lock,       \* _locks[run_id]: the lock object, named after its creator
  held,       \* lock objects that are locked
  rows,       \* run_steps
  memory,     \* _checkpoints of the in-memory store
  cancelled,  \* whether run_id is in _cancelled_runs
  pc, at,     \* of each call: where it is, and step_order
  state,      \* the PipelineState it holds
  acquired,   \* lock_acquired
  result

vars == <<store, lock, held, rows, memory, cancelled,
          pc, at, state, acquired, result>>

Steps    == 1..NodeCount
Outcomes == {"completed", "skipped", "error"}
Done     == {"completed", "skipped"}
Applied  == [Steps -> Nat]
Fresh    == [n \in Steps |-> 0]
Row      == [status : {"none", "running", "failed"} \cup Outcomes, output : Applied]
NoRow    == [status |-> "none", output |-> Fresh]
State    == [status : {"pending", "cancelled"} \cup Outcomes, applied : Applied]
Working  == {"node", "write", "remember"}
Inside   == {"clean", "read", "loop", "create", "leave"} \cup Working
PCs      == {"idle", "look", "make", "try", "wait", "over"} \cup Inside

TypeOK ==
  /\ store \in {"threadsafe", "inmemory"}
  /\ lock \in Calls \cup {NoLock}
  /\ held \subseteq Calls
  /\ rows \in [Steps -> Row] /\ memory \in [Steps -> Row]
  /\ cancelled \in BOOLEAN
  /\ pc \in [Calls -> PCs] /\ at \in [Calls -> 1..NodeCount + 1]
  /\ state \in [Calls -> State]
  /\ acquired \in [Calls -> BOOLEAN]
  /\ result \in [Calls -> {"none", "done", "cancelled", "raised"}]

Init ==
  /\ store \in {"threadsafe", "inmemory"}
  /\ lock = NoLock /\ held = {}
  /\ rows = [n \in Steps |-> NoRow] /\ memory = [n \in Steps |-> NoRow]
  /\ cancelled = FALSE
  /\ pc = [c \in Calls |-> "idle"] /\ at = [c \in Calls |-> 1]
  /\ state = [c \in Calls |-> [status |-> "pending", applied |-> Fresh]]
  /\ acquired = [c \in Calls |-> FALSE]
  /\ result = [c \in Calls |-> "none"]

Goto(c, from, to) == pc[c] = from /\ pc' = [pc EXCEPT ![c] = to]
Return(c, from, r) == Goto(c, from, "leave") /\ result' = [result EXCEPT ![c] = r]

-----------------------------------------------------------------------------
(* The lock of the run *)

Call(c) == /\ Goto(c, "idle", "look")
           /\ UNCHANGED <<store, lock, held, rows, memory, cancelled, at, state,
                          acquired, result>>

\* the thread-safe store looks and creates under its mutex, the other does not
Look(c) ==
  /\ \/ lock # NoLock /\ Goto(c, "look", "try") /\ UNCHANGED lock
     \/ /\ lock = NoLock /\ store = "threadsafe"
        /\ Goto(c, "look", "try") /\ lock' = c
     \/ /\ lock = NoLock /\ store = "inmemory"
        /\ Goto(c, "look", "make") /\ UNCHANGED lock
  /\ UNCHANGED <<store, held, rows, memory, cancelled, at, state, acquired, result>>

Make(c) == /\ Goto(c, "make", "try")
           /\ lock' = c
           /\ UNCHANGED <<store, held, rows, memory, cancelled, at, state,
                          acquired, result>>

Take(c) == /\ lock \notin held
           /\ held' = held \cup {lock}
           /\ acquired' = [acquired EXCEPT ![c] = TRUE]

\* mutant: a busy lock is not waited for
TryOnce(c) ==
  /\ \/ Goto(c, "try", "clean") /\ Take(c)
     \/ /\ lock \in held
        /\ Goto(c, "try", "clean")
        /\ UNCHANGED <<held, acquired>>
  /\ UNCHANGED <<store, lock, rows, memory, cancelled, at, state, result>>

\* without _get_run_lock a busy lock is not waited for: the call goes on
Try(c) ==
  /\ \/ Goto(c, "try", "clean") /\ Take(c)
     \/ /\ lock \in held
        /\ Goto(c, "try", IF store = "threadsafe" THEN "wait" ELSE "clean")
        /\ UNCHANGED <<held, acquired>>
  /\ UNCHANGED <<store, lock, rows, memory, cancelled, at, state, result>>

Wait(c) == /\ Goto(c, "wait", "clean")
           /\ Take(c)
           /\ UNCHANGED <<store, lock, rows, memory, cancelled, at, state, result>>

-----------------------------------------------------------------------------
(* The resume point *)

\* mark_orphaned_running_as_failed
Clean(c) ==
  /\ Goto(c, "clean", "read")
  /\ rows' = IF store = "threadsafe"
               THEN [n \in Steps |-> IF rows[n].status = "running"
                                       THEN [rows[n] EXCEPT !.status = "failed"]
                                       ELSE rows[n]]
               ELSE rows
  /\ UNCHANGED <<store, lock, held, memory, cancelled, at, state, acquired, result>>

Checkpoints == IF store = "threadsafe" THEN rows ELSE memory

\* n is the last checkpoint, 0 if there is none
IsLast(n) ==
  /\ n # 0 => Checkpoints[n].status \in Done
  /\ \A m \in Steps : Checkpoints[m].status \in Done => m <= n

\* mutant: the checkpointed node is the first to run
ReadInclusive(c) ==
  /\ \E n \in 0..NodeCount :
       /\ IsLast(n)
       /\ at' = [at EXCEPT ![c] = IF n = 0 THEN 1 ELSE n]
       /\ state' = [state EXCEPT ![c] =
            IF n = 0 THEN @ ELSE [status  |-> Checkpoints[n].status,
                                  applied |-> Checkpoints[n].output]]
       /\ Goto(c, "read", "loop") /\ UNCHANGED result
  /\ UNCHANGED <<store, lock, held, rows, memory, cancelled, acquired>>

Read(c) ==
  /\ \E n \in 0..NodeCount :
       /\ IsLast(n)
       /\ at' = [at EXCEPT ![c] = n + 1]
       /\ state' = [state EXCEPT ![c] =
            IF n = 0 THEN @ ELSE [status  |-> Checkpoints[n].status,
                                  applied |-> Checkpoints[n].output]]
       /\ \/ n = NodeCount /\ Return(c, "read", "done")
          \/ n < NodeCount /\ Goto(c, "read", "loop") /\ UNCHANGED result
  /\ UNCHANGED <<store, lock, held, rows, memory, cancelled, acquired>>

-----------------------------------------------------------------------------
(* The nodes *)

Loop(c) ==
  /\ \/ ~cancelled /\ Goto(c, "loop", "create") /\ UNCHANGED <<state, result>>
     \/ /\ cancelled /\ Return(c, "loop", "cancelled")
        /\ state' = [state EXCEPT ![c].status = "cancelled"]
  /\ UNCHANGED <<store, lock, held, rows, memory, cancelled, at, acquired>>

\* the table refuses a second row for a step; the dictionary replaces it
Create(c) ==
  /\ Goto(c, "create", "node")
  /\ store = "threadsafe" \/ rows[at[c]].status = "none"
  /\ rows' = [rows EXCEPT ![at[c]] = [status |-> "running", output |-> Fresh]]
  /\ UNCHANGED <<store, lock, held, memory, cancelled, at, state, acquired, result>>

\* mutant: every node hands on the state it was given
RunNodeOnCopy(c) ==
  /\ Goto(c, "node", "write")
  /\ \E s \in Outcomes : state' = [state EXCEPT ![c].status = s]
  /\ UNCHANGED <<store, lock, held, rows, memory, cancelled, at, acquired, result>>

RunNode(c) ==
  /\ Goto(c, "node", "write")
  /\ \E s \in Outcomes :
       state' = [state EXCEPT ![c].status = s,
                   ![c].applied[at[c]] = IF s = "completed" THEN @ + 1 ELSE @]
  /\ UNCHANGED <<store, lock, held, rows, memory, cancelled, at, acquired, result>>

\* the statement, the insert or the node raised
Raise(c) ==
  /\ \E from \in {"create", "node", "write"} : Return(c, from, "raised")
  /\ UNCHANGED <<store, lock, held, rows, memory, cancelled, at, state, acquired>>

Output(c) == [status |-> state[c].status, output |-> state[c].applied]

\* after the checkpoint: crash_after, the end of the loop, or the next node
Advance(c, from) ==
  \/ Return(c, from, "raised") /\ UNCHANGED at
  \/ at[c] = NodeCount /\ Return(c, from, "done") /\ UNCHANGED at
  \/ /\ at[c] < NodeCount /\ Goto(c, from, "loop")
     /\ at' = [at EXCEPT ![c] = @ + 1]
     /\ UNCHANGED result

Write(c) ==
  /\ \/ store = "threadsafe" /\ Advance(c, "write")
     \/ store = "inmemory" /\ Goto(c, "write", "remember") /\ UNCHANGED <<at, result>>
  /\ rows' = [rows EXCEPT ![at[c]] = Output(c)]
  /\ UNCHANGED <<store, lock, held, memory, cancelled, state, acquired>>

\* max() returns the first of the entries of a step
Remember(c) ==
  /\ Advance(c, "remember")
  /\ memory' = [memory EXCEPT ![at[c]] = IF @.status \in Done THEN @ ELSE Output(c)]
  /\ UNCHANGED <<store, lock, held, rows, cancelled, state, acquired>>

\* mutant: an exception skips the release
LeaveUnlessRaised(c) ==
  /\ Goto(c, "leave", "over")
  /\ held' = IF acquired[c] /\ result[c] # "raised" THEN held \ {lock} ELSE held
  /\ UNCHANGED <<store, lock, rows, memory, cancelled, at, state, acquired, result>>

\* finally; releasing a lock that is not locked is ignored
Leave(c) ==
  /\ Goto(c, "leave", "over")
  /\ held' = IF acquired[c] THEN held \ {lock} ELSE held
  /\ UNCHANGED <<store, lock, rows, memory, cancelled, at, state, acquired, result>>

-----------------------------------------------------------------------------
\* request_cancel and clear_cancel
Signal == /\ cancelled' = ~cancelled
          /\ UNCHANGED <<store, lock, held, rows, memory, pc, at, state, acquired, result>>

Execute(c) == \/ Look(c) \/ Make(c) \/ Try(c) \/ Clean(c) \/ Read(c) \/ Loop(c)
              \/ Create(c) \/ RunNode(c) \/ Raise(c) \/ Write(c) \/ Remember(c)
              \/ Leave(c)

Next == Signal \/ \E c \in Calls : Call(c) \/ Wait(c) \/ Execute(c)

Spec == Init /\ [][Next]_vars

(* A thread that can run does, and a node returns or raises.  A waiting thread
   is overtaken only by calls that have not had the lock, and each has it once. *)
Fairness == \A c \in Calls : WF_vars(Wait(c) \/ Execute(c))
FairSpec == Spec /\ Fairness

-----------------------------------------------------------------------------
(* Properties *)

\* No two calls are in the same or in different nodes of the run at once,
\* whichever store they share (invariant 3: no window where two nodes are in
\* progress): the lock ensures it in one store, the unique key of run_steps
\* in the other, where calls go on without the lock.
OneNodeAtATime ==
  \A c, d \in Calls : pc[c] \in Working /\ pc[d] \in Working => c = d

\* A call that is about to return the final state hands back one in which
\* each node was applied exactly once, by whichever calls, except nodes whose
\* row says that they were skipped or ended in error.
ResultIsWhole ==
  \A c \in Calls : pc[c] = "leave" /\ result[c] = "done" =>
    \A n \in Steps : \/ state[c].applied[n] = 1
                     \/ state[c].applied[n] = 0 /\ rows[n].status \in {"skipped", "error"}

\* The table is the log of resumability: checkpoints are written once, in the
\* order of the nodes, and no node with a checkpoint, or before one, starts
\* again (invariant 1), across threads, failures and repeated calls.
Log == INSTANCE CheckpointLog WITH
         durable <- {n \in Steps : rows[n].status \in Done},
         active  <- {n \in Steps : \E c \in Calls : pc[c] \in {"node", "write"} /\ at[c] = n}
KeepsLog == Log!LogSpec

\* Every call returns or raises: a call that fails in a node, at a statement
\* or right after a checkpoint does not leave the others waiting for its lock.
EveryCallEnds == \A c \in Calls : pc[c] = "look" ~> pc[c] = "over"
=============================================================================
