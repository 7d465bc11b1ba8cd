----------------------------- MODULE RunProofs ------------------------------
(***************************************************************************)
(* IInv is an inductive invariant of RunLifecycle, for any number of       *)
(* claims, tasks, clients, nodes and faults.  One lemma per part of IInv,  *)
(* one step per action; an action that touches none of the variables of    *)
(* the part is found in the last step of its actor.  The safety properties *)
(* and the refinement of RunContract follow from it at the end.            *)
(***************************************************************************)
EXTENDS RunInvariant, TLAPS

USE PrepAssumption, FaultAssumption, McpAssumption

\* With a completed human_review the last checkpoint is that of human_review or
\* of finalize: the ORDER BY step_order DESC of get_last_checkpoint.
LEMMA LastDoneAtTheGate ==
  ASSUME TypeOK, steps[HumanReview] = "completed"
  PROVE  /\ LastDone \in {HumanReview, Finalize}
         /\ steps[LastDone] \in Done
         /\ LastDone = HumanReview => steps[Finalize] \notin Done
<1>1. DoneSteps \in SUBSET Steps /\ HumanReview \in DoneSteps
  BY DEF TypeOK, DoneSteps, Done, Steps, HumanReview, Finalize
<1>2. \E s \in DoneSteps : \A r \in DoneSteps : r <= s
  <2>1. CASE Finalize \in DoneSteps
    BY <1>1, <2>1 DEF Steps, Finalize
  <2>2. CASE Finalize \notin DoneSteps
    BY <1>1, <2>2 DEF Steps, Finalize, HumanReview
  <2> QED BY <2>1, <2>2
<1>3. LastDone \in DoneSteps /\ \A r \in DoneSteps : r <= LastDone
  BY <1>2 DEF LastDone
<1> QED
  BY <1>1, <1>3 DEF DoneSteps, Steps, HumanReview, Finalize

\* A task that is about to load the checkpoint finds human_review completed.
LEMMA ResumeAtTheGate ==
  ASSUME IInv PROVE ResumesAtTheGate
BY DEF IInv, ResumesAtTheGate, BeforeTheGate, PausedAtTheGate, Executors,
  SingleExecutor, Executing, Inside

\* A resumed task continues with finalize, or behind it when it is done.
LEMMA ReloadPosition ==
  ASSUME IInv, NEW t \in Tasks, Reload(t)
  PROVE  /\ pos' \in [Tasks -> 1 .. Finalize + 1]
         /\ pos'[t] \in {Finalize, Finalize + 1}
         /\ steps[HumanReview] = "completed"
         /\ pos'[t] = Finalize => steps[Finalize] \notin Done
         /\ gap' \in [Tasks -> BOOLEAN]
<1>1. TypeOK BY DEF IInv
<1>2. steps[HumanReview] = "completed"
  BY ResumeAtTheGate DEF ResumesAtTheGate, Reload, Goto
<1>3. pos' = [pos EXCEPT ![t] = NodeAfter(LastDone)]
  BY DEF Reload
<1>4. NodeAfter(LastDone) = LastDone + 1
  BY <1>1, <1>2, LastDoneAtTheGate DEF NodeAfter, HumanReview, Finalize
<1>5. gap' \in [Tasks -> BOOLEAN]
  BY <1>1, <1>2, LastDoneAtTheGate DEF Reload, TypeOK, Steps, HumanReview, Finalize
<1>6. pos'[t] = LastDone + 1
  BY <1>1, <1>3, <1>4 DEF TypeOK
<1>7. LastDone + 1 \in {Finalize, Finalize + 1}
  BY <1>1, <1>2, LastDoneAtTheGate DEF HumanReview, Finalize
<1>8. pos' \in [Tasks -> 1 .. Finalize + 1]
  BY <1>1, <1>3, <1>4, <1>7 DEF TypeOK, Finalize
<1>9. pos'[t] = Finalize => LastDone = HumanReview
  BY <1>1, <1>2, <1>6, LastDoneAtTheGate DEF HumanReview, Finalize
<1> QED
  BY <1>1, <1>2, <1>5, <1>6, <1>7, <1>8, <1>9, LastDoneAtTheGate

\* A task that returns leaves well-typed memory behind.
LEMMA ForgetTypes ==
  ASSUME TypeOK, NEW t \in Tasks, Forget(t)
  PROVE  /\ pc' \in [Tasks -> TaskPCs] /\ kind' \in [Tasks -> Kinds]
         /\ next' \in [Tasks -> Working \cup {"exit"}]
         /\ pos' \in [Tasks -> 1 .. Finalize + 1]
         /\ outcome' \in [Tasks -> Outcomes]
         /\ gap' \in [Tasks -> BOOLEAN]
         /\ todo' \in [Tasks -> SUBSET Claims]
         /\ seen' \in [Tasks -> Reports]
<1>1. /\ Unread \in Reports /\ 1 \in 1 .. Finalize + 1
      /\ "completed" \in Outcomes /\ "idle" \in TaskPCs /\ "none" \in Kinds
  BY DEF Unread, Reports, Finalize, Outcomes, TaskPCs, Kinds
<1> QED BY <1>1 DEF TypeOK, Forget

\* Every step of the system keeps the variables within their types.
LEMMA TypeOKKept ==
  ASSUME IInv, Next PROVE TypeOK'
<1> USE DEF TypeOK
<1>1. TypeOK
  BY DEF IInv
<1>2. RowsMatch
  BY DEF IInv
<1>3. ASSUME NEW t \in Tasks, TaskStep(t) \/ TaskFault(t) PROVE TypeOK'
  <2>1. CASE Enter(t)
    BY <1>1, <1>2, <2>1 DEF Enter, LoopFree, Goto, db, memory, TypeOK,
      ClientPCs, Decisions, Done, Inside, ItemStates, Kinds, Outcomes,
      Reports, RowStates, Settled, Statuses, Steps, TaskPCs, Working,
      HumanReview, Finalize
  <2>2. CASE Refuse(t)
    BY <1>1, <1>2, <2>2, ForgetTypes DEF TypeOK, Refuse, db, process
  <2>3. CASE BeginRun(t)
    BY <1>1, <1>2, <2>3 DEF BeginRun, Goto, SetStatus, process, CanMove,
      Settled, TypeOK, ClientPCs, Decisions, Done, Inside, ItemStates, Kinds,
      Outcomes, Reports, RowStates, Statuses, Steps, TaskPCs, Working,
      HumanReview, Finalize
  <2>4. CASE Reload(t)
    <3>1. steps' \in [Steps -> RowStates]
      BY <1>1, <1>2, <2>4 DEF Reload, MarkOrphans, TypeOK, RowStates
    <3>2. pc' \in [Tasks -> TaskPCs]
      BY <1>1, <1>2, <2>4 DEF Reload, Goto, TypeOK, TaskPCs, Inside, Working
    <3> QED BY <1>1, <1>2, <2>4, <3>1, <3>2, ReloadPosition DEF TypeOK, Reload, process
  <2>5. CASE CannotResume(t)
    BY <1>1, <1>2, <2>5 DEF CannotResume, Goto, db, memory, process, TypeOK,
      ClientPCs, Decisions, Done, Inside, ItemStates, Kinds, Outcomes,
      Reports, RowStates, Settled, Statuses, Steps, TaskPCs, Working,
      HumanReview, Finalize
  <2>6. CASE Unpause(t)
    BY <1>1, <1>2, <2>6 DEF Unpause, Goto, SetStatus, process, CanMove,
      Settled, TypeOK, ClientPCs, Decisions, Done, Inside, ItemStates, Kinds,
      Outcomes, Reports, RowStates, Statuses, Steps, TaskPCs, Working,
      HumanReview, Finalize
  <2>7. CASE Enrich(t)
    BY <1>1, <1>2, <2>7 DEF Enrich, Goto, AfterEnrich, Decided, db, process,
      Finalize, Decisions, TypeOK, ClientPCs, Done, Inside, ItemStates, Kinds,
      Outcomes, Reports, RowStates, Settled, Statuses, Steps, TaskPCs,
      Working, HumanReview
  <2>8. CASE StopCancelled(t)
    BY <1>1, <1>2, <2>8 DEF StopCancelled, Finalize, Goto, SetStatus, process,
      CanMove, Settled, TypeOK, ClientPCs, Decisions, Done, Inside,
      ItemStates, Kinds, Outcomes, Reports, RowStates, Statuses, Steps,
      TaskPCs, Working, HumanReview
  <2>9. CASE NotCancelled(t)
    BY <1>1, <1>2, <2>9 DEF NotCancelled, Finalize, Goto, db, memory, process,
      TypeOK, ClientPCs, Decisions, Done, Inside, ItemStates, Kinds, Outcomes,
      Reports, RowStates, Settled, Statuses, Steps, TaskPCs, Working,
      HumanReview
  <2>10. CASE Complete(t)
    BY <1>1, <1>2, <2>10 DEF Complete, Finalize, Goto, SetStatus, process,
      CanMove, Settled, TypeOK, ClientPCs, Decisions, Done, Inside,
      ItemStates, Kinds, Outcomes, Reports, RowStates, Statuses, Steps,
      TaskPCs, Working, HumanReview
  <2>11. CASE CreateStep(t)
    BY <1>1, <1>2, <2>11 DEF CreateStep, Goto, NodeBody, memory, process,
      Finalize, HumanReview, TypeOK, ClientPCs, Decisions, Done, Inside,
      ItemStates, Kinds, Outcomes, Reports, RowStates, Settled, Statuses,
      Steps, TaskPCs, Working
  <2>12. CASE RunNode(t)
    BY <1>1, <1>2, <2>12 DEF RunNode, Goto, Outcomes, process, TypeOK,
      ClientPCs, Decisions, Done, Inside, ItemStates, Kinds, Reports,
      RowStates, Settled, Statuses, Steps, TaskPCs, Working, HumanReview,
      Finalize
  <2>13. CASE ReviewStart(t)
    BY <1>1, <1>2, <2>13 DEF ReviewStart, Goto, db, process, TypeOK,
      ClientPCs, Decisions, Done, Inside, ItemStates, Kinds, Outcomes,
      Reports, RowStates, Settled, Statuses, Steps, TaskPCs, Working,
      HumanReview, Finalize
  <2>14. CASE Enqueue(t)
    BY <1>1, <1>2, <2>14 DEF Enqueue, process, TypeOK, ClientPCs, Decisions,
      Done, Inside, ItemStates, Kinds, Outcomes, Reports, RowStates, Settled,
      Statuses, Steps, TaskPCs, Working, HumanReview, Finalize
  <2>15. CASE CountPending(t)
    BY <1>1, <1>2, <2>15 DEF CountPending, Goto, Pending, db, process, TypeOK,
      ClientPCs, Decisions, Done, Inside, ItemStates, Kinds, Outcomes,
      Reports, RowStates, Settled, Statuses, Steps, TaskPCs, Working,
      HumanReview, Finalize
  <2>16. CASE PersistDeliverable(t)
    BY <1>1, <1>2, <2>16 DEF PersistDeliverable, Goto, process, TypeOK,
      ClientPCs, Decisions, Done, Inside, ItemStates, Kinds, Outcomes,
      Reports, RowStates, Settled, Statuses, Steps, TaskPCs, Working,
      HumanReview, Finalize
  <2>17. CASE WriteCheckpoint(t)
    BY <1>1, <1>2, <2>17 DEF WriteCheckpoint, Goto, AfterNode, process,
      TypeOK, RowsMatch, Between, Steps, Finalize, InNode, HumanReview,
      ClientPCs, Decisions, Done, Inside, ItemStates, Kinds, Outcomes,
      Reports, RowStates, Settled, Statuses, TaskPCs, Working
  <2>18. CASE Pause(t)
    BY <1>1, <1>2, <2>18 DEF Pause, Goto, SetStatus, process, CanMove,
      Settled, TypeOK, ClientPCs, Decisions, Done, Inside, ItemStates, Kinds,
      Outcomes, Reports, RowStates, Statuses, Steps, TaskPCs, Working,
      HumanReview, Finalize
  <2>19. CASE StopFailed(t)
    BY <1>1, <1>2, <2>19 DEF StopFailed, Goto, SetStatus, process, CanMove,
      Settled, TypeOK, ClientPCs, Decisions, Done, Inside, ItemStates, Kinds,
      Outcomes, Reports, RowStates, Statuses, Steps, TaskPCs, Working,
      HumanReview, Finalize
  <2>20. CASE Emit(t)
    BY <1>1, <1>2, <2>20 DEF Emit, Goto, db, memory, process, TypeOK,
      ClientPCs, Decisions, Done, Inside, ItemStates, Kinds, Outcomes,
      Reports, RowStates, Settled, Statuses, Steps, TaskPCs, Working,
      HumanReview, Finalize
  <2>21. CASE Exit(t)
    BY <1>1, <1>2, <2>21, ForgetTypes DEF TypeOK, Exit, db, process
  <2>22. CASE StepExists(t)
    <3>1. Abort(t) /\ faults' \in 0 .. MaxFaults
      BY <1>1, <1>2, <2>22 DEF StepExists, Fault, TypeOK
    <3>2. status' \in Statuses
      BY <1>1, <1>2, <3>1 DEF Abort, TypeOK, Statuses
    <3> QED BY <1>1, <1>2, <3>1, <3>2, ForgetTypes DEF TypeOK, Abort
  <2>23. CASE EnrichFails(t)
    BY <1>1, <1>2, <2>23 DEF EnrichFails, Goto, AfterEnrich, Fault, db,
      memory, Finalize, TypeOK, ClientPCs, Decisions, Done, Inside,
      ItemStates, Kinds, Outcomes, Reports, RowStates, Settled, Statuses,
      Steps, TaskPCs, Working, HumanReview
  <2>24. CASE ClaimsNotPersisted(t)
    BY <1>1, <1>2, <2>24 DEF ClaimsNotPersisted, Goto, Fault, db, TypeOK,
      ClientPCs, Decisions, Done, Inside, ItemStates, Kinds, Outcomes,
      Reports, RowStates, Settled, Statuses, Steps, TaskPCs, Working,
      HumanReview, Finalize
  <2>25. CASE NodeFails(t)
    BY <1>1, <1>2, <2>25 DEF NodeFails, Fault, db, TypeOK, ClientPCs,
      Decisions, Done, Inside, ItemStates, Kinds, Outcomes, Reports,
      RowStates, Settled, Statuses, Steps, TaskPCs, Working, HumanReview,
      Finalize
  <2>26. CASE EmitLost(t)
    BY <1>1, <1>2, <2>26 DEF EmitLost, Goto, Fault, TypeOK, ClientPCs,
      Decisions, Done, Inside, ItemStates, Kinds, Outcomes, Reports,
      RowStates, Settled, Statuses, Steps, TaskPCs, Working, HumanReview,
      Finalize
  <2>27. CASE TransactionFails(t)
    <3>1. Abort(t) /\ faults' \in 0 .. MaxFaults
      BY <1>1, <1>2, <2>27 DEF TransactionFails, Fault, TypeOK
    <3>2. status' \in Statuses
      BY <1>1, <1>2, <3>1 DEF Abort, TypeOK, Statuses
    <3> QED BY <1>1, <1>2, <3>1, <3>2, ForgetTypes DEF TypeOK, Abort
  <2> QED BY <1>3, <2>1, <2>2, <2>3, <2>4, <2>5, <2>6, <2>7, <2>8, <2>9,
    <2>10, <2>11, <2>12, <2>13, <2>14, <2>15, <2>16, <2>17, <2>18, <2>19,
    <2>20, <2>21, <2>22, <2>23, <2>24, <2>25, <2>26, <2>27 DEF TaskStep,
    TaskFault
<1>4. ASSUME NEW u \in Clients, Request(u) \/ HandlerStep(u) \/ HandlerFails(u)
      PROVE TypeOK'
  <2>1. CASE DecideCall(u)
    BY <1>1, <1>2, <2>1 DEF DecideCall, LoopFree, Reply, handlerOnly, db,
      memory, TypeOK, ClientPCs, Decisions, Done, Inside, ItemStates, Kinds,
      Outcomes, Reports, RowStates, Settled, Statuses, Steps, TaskPCs,
      Working, HumanReview, Finalize
  <2>2. CASE ResumeCall(u)
    BY <1>1, <1>2, <2>2 DEF ResumeCall, LoopFree, Reply, handlerOnly, db,
      memory, TypeOK, ClientPCs, Decisions, Done, Inside, ItemStates, Kinds,
      Outcomes, Reports, RowStates, Settled, Statuses, Steps, TaskPCs,
      Working, HumanReview, Finalize
  <2>3. CASE Decide(u)
    BY <1>1, <1>2, <2>3 DEF Decide, Reply, Decisions, memory, TypeOK,
      ClientPCs, Done, Inside, ItemStates, Kinds, Outcomes, Reports,
      RowStates, Settled, Statuses, Steps, TaskPCs, Working, HumanReview,
      Finalize
  <2>4. CASE DecideConflict(u)
    BY <1>1, <1>2, <2>4 DEF DecideConflict, Reply, handlerOnly, db, memory,
      TypeOK, ClientPCs, Decisions, Done, Inside, ItemStates, Kinds, Outcomes,
      Reports, RowStates, Settled, Statuses, Steps, TaskPCs, Working,
      HumanReview, Finalize
  <2>5. CASE Recount(u)
    BY <1>1, <1>2, <2>5 DEF Recount, Reply, Pending, handlerOnly, db, memory,
      TypeOK, ClientPCs, Decisions, Done, Inside, ItemStates, Kinds, Outcomes,
      Reports, RowStates, Settled, Statuses, Steps, TaskPCs, Working,
      HumanReview, Finalize
  <2>6. CASE WakeUp(u)
    <3>1. pc' \in [Tasks -> TaskPCs] /\ kind' \in [Tasks -> Kinds]
      BY <1>1, <1>2, <2>6 DEF WakeUp, Submit, Goto, TypeOK, TaskPCs, Kinds
    <3>2. client' \in [Clients -> ClientPCs]
      BY <1>1, <1>2, <2>6 DEF WakeUp, Reply, TypeOK, ClientPCs
    <3> QED BY <1>1, <1>2, <2>6, <3>1, <3>2 DEF TypeOK, WakeUp, db
  <2>7. CASE ResumeRead(u)
    BY <1>1, <1>2, <2>7 DEF ResumeRead, Reply, Settled, handlerOnly, db,
      memory, TypeOK, ClientPCs, Decisions, Done, Inside, ItemStates, Kinds,
      Outcomes, Reports, RowStates, Statuses, Steps, TaskPCs, Working,
      HumanReview, Finalize
  <2>8. CASE ResumeMark(u)
    <3>1. steps' \in [Steps -> RowStates]
      BY <1>1, <1>2, <2>8 DEF ResumeMark, MarkOrphans, TypeOK, RowStates
    <3>2. client' \in [Clients -> ClientPCs]
      BY <1>1, <1>2, <2>8 DEF ResumeMark, Reply, TypeOK, ClientPCs
    <3> QED BY <1>1, <1>2, <2>8, <3>1, <3>2 DEF TypeOK, ResumeMark, memory
  <2>9. CASE ResumeDispatch(u)
    <3>1. pc' \in [Tasks -> TaskPCs] /\ kind' \in [Tasks -> Kinds]
      BY <1>1, <1>2, <2>9 DEF ResumeDispatch, Submit, Goto, TypeOK, TaskPCs, Kinds
    <3>2. client' \in [Clients -> ClientPCs]
      BY <1>1, <1>2, <2>9 DEF ResumeDispatch, Reply, TypeOK, ClientPCs
    <3> QED BY <1>1, <1>2, <2>9, <3>1, <3>2 DEF TypeOK, ResumeDispatch, db
  <2>10. CASE HandlerFails(u)
    BY <1>1, <1>2, <2>10 DEF HandlerFails, Fault, db, memory, TypeOK,
      ClientPCs, Decisions, Done, Inside, ItemStates, Kinds, Outcomes,
      Reports, RowStates, Settled, Statuses, Steps, TaskPCs, Working,
      HumanReview, Finalize
  <2> QED BY <1>4, <2>1, <2>2, <2>3, <2>4, <2>5, <2>6, <2>7, <2>8, <2>9, <2>10
    DEF Request, HandlerStep
<1>5. CASE StartPipeline
  BY <1>1, <1>2, <1>5 DEF StartPipeline, Submit, process, Goto, TypeOK,
    ClientPCs, Decisions, Done, Inside, ItemStates, Kinds, Outcomes, Reports,
    RowStates, Settled, Statuses, Steps, TaskPCs, Working, HumanReview,
    Finalize
<1>6. CASE Cancel
  BY <1>1, <1>2, <1>6 DEF Cancel, db, memory, TypeOK, ClientPCs, Decisions,
    Done, Inside, ItemStates, Kinds, Outcomes, Reports, RowStates, Settled,
    Statuses, Steps, TaskPCs, Working, HumanReview, Finalize
<1>7. CASE McpStatus
  BY <1>1, <1>2, <1>7 DEF McpStatus, MarkOrphans, memory, process, Steps,
    Finalize, TypeOK, ClientPCs, Decisions, Done, Inside, ItemStates, Kinds,
    Outcomes, Reports, RowStates, Settled, Statuses, TaskPCs, Working,
    HumanReview
<1>8. ASSUME NEW c \in Claims, McpDecide(c) PROVE TypeOK'
  BY <1>1, <1>2, <1>8 DEF McpDecide, Decisions, memory, process, TypeOK,
    ClientPCs, Done, Inside, ItemStates, Kinds, Outcomes, Reports, RowStates,
    Settled, Statuses, Steps, TaskPCs, Working, HumanReview, Finalize
<1>9. CASE Crash
  <2>1. /\ Unread \in Reports /\ 1 \in 1 .. Finalize + 1
        /\ "completed" \in Outcomes /\ "idle" \in TaskPCs /\ "none" \in Kinds
        /\ "idle" \in ClientPCs
    BY DEF Unread, Reports, Finalize, Outcomes, TaskPCs, Kinds, ClientPCs
  <2>2. faults' \in 0 .. MaxFaults
    BY <1>1, <1>2, <1>9 DEF Crash, Fault, TypeOK
  <2> QED BY <1>1, <1>2, <1>9, <2>1, <2>2 DEF TypeOK, Crash, db
<1> QED BY <1>3, <1>4, <1>5, <1>6, <1>7, <1>8, <1>9 DEF Next

\* No step lets a second task into the executor, and the executing task holds
\* the entry of _active_runs.
LEMMA ExecutorsKept ==
  ASSUME IInv, Next PROVE Executors'
<1> USE DEF TypeOK, Executors, Executing, SingleExecutor, Inside, Working
<1>1. TypeOK /\ Executors
  BY DEF IInv
<1>2. ASSUME NEW t \in Tasks, TaskStep(t) \/ TaskFault(t) PROVE Executors'
  <2>1. CASE Enter(t)
    BY <1>1, <2>1 DEF Enter, LoopFree, Goto, db, memory
  <2>2. CASE Refuse(t)
    BY <1>1, <2>2 DEF Refuse, LoopFree, Forget, db, process, Unread
  <2>3. CASE BeginRun(t)
    BY <1>1, <2>3 DEF BeginRun, Goto, SetStatus, process, CanMove, Settled
  <2>4. CASE Reload(t)
    BY <1>1, <2>4 DEF Reload, DoneSteps, Goto, MarkOrphans, NodeAfter,
      LastDone, process, Steps, Done, Finalize
  <2>5. CASE CannotResume(t)
    BY <1>1, <2>5 DEF CannotResume, Goto, db, memory, process
  <2>6. CASE Unpause(t)
    BY <1>1, <2>6 DEF Unpause, Goto, SetStatus, process, CanMove, Settled
  <2>7. CASE Enrich(t)
    BY <1>1, <2>7 DEF Enrich, Goto, AfterEnrich, Decided, db, process,
      Finalize, Decisions
  <2>8. CASE StopCancelled(t)
    BY <1>1, <2>8 DEF StopCancelled, Finalize, Goto, SetStatus, process,
      CanMove, Settled
  <2>9. CASE NotCancelled(t)
    BY <1>1, <2>9 DEF NotCancelled, Finalize, Goto, db, memory, process
  <2>10. CASE Complete(t)
    BY <1>1, <2>10 DEF Complete, Finalize, Goto, SetStatus, process, CanMove,
      Settled
  <2>11. CASE CreateStep(t)
    BY <1>1, <2>11 DEF CreateStep, Goto, NodeBody, memory, process, Finalize,
      HumanReview
  <2>12. CASE RunNode(t)
    BY <1>1, <2>12 DEF RunNode, Goto, Outcomes, process
  <2>13. CASE ReviewStart(t)
    BY <1>1, <2>13 DEF ReviewStart, Goto, db, process
  <2>14. CASE CountPending(t)
    BY <1>1, <2>14 DEF CountPending, Goto, Pending, db, process
  <2>15. CASE PersistDeliverable(t)
    BY <1>1, <2>15 DEF PersistDeliverable, Goto, process
  <2>16. CASE WriteCheckpoint(t)
    BY <1>1, <2>16 DEF WriteCheckpoint, Goto, AfterNode, process
  <2>17. CASE Pause(t)
    BY <1>1, <2>17 DEF Pause, Goto, SetStatus, process, CanMove, Settled
  <2>18. CASE StopFailed(t)
    BY <1>1, <2>18 DEF StopFailed, Goto, SetStatus, process, CanMove, Settled
  <2>19. CASE Emit(t)
    BY <1>1, <2>19 DEF Emit, Goto, db, memory, process
  <2>20. CASE Exit(t)
    BY <1>1, <2>20 DEF Exit, Forget, db, Unread
  <2>21. CASE StepExists(t)
    BY <1>1, <2>21 DEF StepExists, Abort, Forget, CanMove, Unread, Settled
  <2>22. CASE EnrichFails(t)
    BY <1>1, <2>22 DEF EnrichFails, Goto, AfterEnrich, Fault, db, memory,
      Finalize
  <2>23. CASE ClaimsNotPersisted(t)
    BY <1>1, <2>23 DEF ClaimsNotPersisted, Goto, Fault, db
  <2>24. CASE NodeFails(t)
    BY <1>1, <2>24 DEF NodeFails, Fault, db
  <2>25. CASE EmitLost(t)
    BY <1>1, <2>25 DEF EmitLost, Goto, Fault
  <2>26. CASE TransactionFails(t)
    BY <1>1, <2>26 DEF TransactionFails, Finalize, Fault, Abort, Forget,
      CanMove, Unread, Settled
  <2>27. CASE Enqueue(t)
    BY <1>1, <2>27 DEF Enqueue, process
  <2> QED BY <1>2, <2>1, <2>2, <2>3, <2>4, <2>5, <2>6, <2>7, <2>8, <2>9,
    <2>10, <2>11, <2>12, <2>13, <2>14, <2>15, <2>16, <2>17, <2>18, <2>19,
    <2>20, <2>21, <2>22, <2>23, <2>24, <2>25, <2>26, <2>27 DEF TaskStep,
    TaskFault
<1>3. ASSUME NEW u \in Clients, Request(u) \/ HandlerStep(u) \/ HandlerFails(u)
      PROVE Executors'
  <2>1. CASE WakeUp(u)
    BY <1>1, <2>1 DEF WakeUp, Reply, Submit, db, Goto
  <2>2. CASE ResumeDispatch(u)
    BY <1>1, <2>2 DEF ResumeDispatch, Reply, Submit, db, Goto
  <2>3. CASE DecideCall(u) \/ ResumeCall(u) \/ Decide(u) \/ DecideConflict(u)
    \/ Recount(u) \/ ResumeRead(u) \/ ResumeMark(u) \/ HandlerFails(u)
    BY <1>1, <2>3 DEF DecideCall, Reply, handlerOnly, db, memory, ResumeCall,
      Decide, DecideConflict, Recount, ResumeRead, ResumeMark, MarkOrphans,
      HandlerFails, Fault
  <2> QED BY <1>3, <2>1, <2>2, <2>3 DEF Request, HandlerStep
<1>4. CASE StartPipeline
  BY <1>1, <1>4 DEF StartPipeline, Submit, process, Goto
<1>5. ASSUME NEW c \in Claims, McpDecide(c) PROVE Executors'
  BY <1>1, <1>5 DEF McpDecide, Decisions, memory, process
<1>6. CASE Crash
  BY <1>1, <1>6 DEF Crash, Fault, Unread, db
<1>7. CASE Cancel \/ McpStatus
  BY <1>1, <1>7 DEF Cancel, db, memory, McpStatus, MarkOrphans, process
<1> QED BY <1>2, <1>3, <1>4, <1>5, <1>6, <1>7 DEF Next

\* A run is started once, and nothing of it exists before it runs.
LEMMA StartedOnceKept ==
  ASSUME IInv, Next PROVE StartedOnce'
<1> USE DEF TypeOK, StartedOnce, Steps, NothingQueued, Finalize, Queued
<1>1. TypeOK /\ StartedOnce
  BY DEF IInv
<1>2. Executors /\ StatusKnown /\ HandlersKnow
  BY DEF IInv
<1>3. ASSUME NEW t \in Tasks, TaskStep(t) \/ TaskFault(t) PROVE StartedOnce'
  <2>1. CASE Enter(t)
    BY <1>1, <2>1 DEF Enter, LoopFree, Goto, db, memory
  <2>2. CASE Refuse(t)
    BY <1>1, <2>2 DEF Refuse, LoopFree, Forget, db, process, Unread
  <2>3. CASE BeginRun(t)
    BY <1>1, <2>3 DEF BeginRun, Goto, SetStatus, process, CanMove, Settled
  <2>4. CASE Reload(t)
    BY <1>1, <2>4 DEF Reload, DoneSteps, Goto, MarkOrphans, NodeAfter,
      LastDone, process, Done
  <2>5. CASE CannotResume(t)
    BY <1>1, <2>5 DEF CannotResume, Goto, db, memory, process
  <2>6. CASE Unpause(t)
    BY <1>1, <2>6 DEF Unpause, Goto, SetStatus, process, CanMove, Settled
  <2>7. CASE Enrich(t)
    BY <1>1, <2>7 DEF Enrich, Goto, AfterEnrich, Decided, db, process,
      Decisions
  <2>8. CASE StopCancelled(t)
    BY <1>1, <2>8 DEF StopCancelled, Goto, SetStatus, process, CanMove,
      Settled
  <2>9. CASE NotCancelled(t)
    BY <1>1, <2>9 DEF NotCancelled, Goto, db, memory, process
  <2>10. CASE Complete(t)
    BY <1>1, <2>10 DEF Complete, Goto, SetStatus, process, CanMove, Settled
  <2>11. CASE CreateStep(t)
    BY <1>1, <1>2, <2>11 DEF CreateStep, Goto, NodeBody, memory, process,
      HumanReview, Executors, Executing, SingleExecutor, Inside, Working,
      StatusKnown, HandlersKnow, NobodyDecides, Pending, Deciding
  <2>12. CASE RunNode(t)
    BY <1>1, <2>12 DEF RunNode, Goto, Outcomes, process
  <2>13. CASE ReviewStart(t)
    BY <1>1, <2>13 DEF ReviewStart, Goto, db, process
  <2>14. CASE Enqueue(t)
    BY <1>1, <1>2, <2>14 DEF Enqueue, process, Executors, Executing,
      SingleExecutor, Inside, Working, StatusKnown, HandlersKnow,
      NobodyDecides, Pending, Deciding
  <2>15. CASE CountPending(t)
    BY <1>1, <2>15 DEF CountPending, Goto, Pending, db, process
  <2>16. CASE PersistDeliverable(t)
    BY <1>1, <2>16 DEF PersistDeliverable, Goto, process
  <2>17. CASE WriteCheckpoint(t)
    BY <1>1, <1>2, <2>17 DEF WriteCheckpoint, Goto, AfterNode, process,
      Executors, Executing, SingleExecutor, Inside, Working, StatusKnown,
      HandlersKnow, NobodyDecides, Pending, Deciding
  <2>18. CASE Pause(t)
    BY <1>1, <2>18 DEF Pause, Goto, SetStatus, process, CanMove, Settled
  <2>19. CASE StopFailed(t)
    BY <1>1, <2>19 DEF StopFailed, Goto, SetStatus, process, CanMove, Settled
  <2>20. CASE Emit(t)
    BY <1>1, <2>20 DEF Emit, Goto, db, memory, process
  <2>21. CASE Exit(t)
    BY <1>1, <2>21 DEF Exit, Forget, db, Unread
  <2>22. CASE StepExists(t)
    BY <1>1, <2>22 DEF StepExists, Abort, Forget, CanMove, Unread, Settled
  <2>23. CASE EnrichFails(t)
    BY <1>1, <2>23 DEF EnrichFails, Goto, AfterEnrich, Fault, db, memory
  <2>24. CASE ClaimsNotPersisted(t)
    BY <1>1, <2>24 DEF ClaimsNotPersisted, Goto, Fault, db
  <2>25. CASE NodeFails(t)
    BY <1>1, <2>25 DEF NodeFails, Fault, db
  <2>26. CASE EmitLost(t)
    BY <1>1, <2>26 DEF EmitLost, Goto, Fault
  <2>27. CASE TransactionFails(t)
    BY <1>1, <2>27 DEF TransactionFails, Fault, Abort, Forget, CanMove,
      Unread, Settled
  <2> QED BY <1>3, <2>1, <2>2, <2>3, <2>4, <2>5, <2>6, <2>7, <2>8, <2>9,
    <2>10, <2>11, <2>12, <2>13, <2>14, <2>15, <2>16, <2>17, <2>18, <2>19,
    <2>20, <2>21, <2>22, <2>23, <2>24, <2>25, <2>26, <2>27 DEF TaskStep,
    TaskFault
<1>4. ASSUME NEW u \in Clients, Request(u) \/ HandlerStep(u) \/ HandlerFails(u)
      PROVE StartedOnce'
  <2>1. CASE DecideCall(u)
    BY <1>1, <2>1 DEF DecideCall, LoopFree, Reply, handlerOnly, db, memory
  <2>2. CASE ResumeCall(u)
    BY <1>1, <2>2 DEF ResumeCall, LoopFree, Reply, handlerOnly, db, memory
  <2>3. CASE Decide(u)
    BY <1>1, <2>3 DEF Decide, Reply, Decisions, memory
  <2>4. CASE DecideConflict(u)
    BY <1>1, <2>4 DEF DecideConflict, Reply, handlerOnly, db, memory
  <2>5. CASE Recount(u)
    BY <1>1, <2>5 DEF Recount, Reply, Pending, handlerOnly, db, memory
  <2>6. CASE WakeUp(u)
    <3>1. status # "none" /\ UNCHANGED <<status, steps, items>>
      BY <1>1, <1>2, <2>6 DEF WakeUp, Reply, TypeOK, StartedOnce, db
    <3>2. \A t \in Tasks : kind'[t] = "start" => kind[t] = "start"
      BY <1>1, <1>2, <2>6 DEF WakeUp, Submit, TypeOK
    <3> QED BY <1>1, <1>2, <3>1, <3>2 DEF StartedOnce, NothingQueued, Queued
  <2>7. CASE ResumeRead(u)
    BY <1>1, <2>7 DEF ResumeRead, Reply, Settled, handlerOnly, db, memory
  <2>8. CASE ResumeMark(u)
    BY <1>1, <2>8 DEF ResumeMark, Reply, MarkOrphans, memory
  <2>9. CASE ResumeDispatch(u)
    <3>1. status # "none" /\ UNCHANGED <<status, steps, items>>
      BY <1>1, <1>2, <2>9 DEF ResumeDispatch, Reply, TypeOK, StartedOnce, db
    <3>2. \A t \in Tasks : kind'[t] = "start" => kind[t] = "start"
      BY <1>1, <1>2, <2>9 DEF ResumeDispatch, Submit, TypeOK
    <3> QED BY <1>1, <1>2, <3>1, <3>2 DEF StartedOnce, NothingQueued, Queued
  <2>10. CASE HandlerFails(u)
    BY <1>1, <2>10 DEF HandlerFails, Fault, db, memory
  <2> QED BY <1>4, <2>1, <2>2, <2>3, <2>4, <2>5, <2>6, <2>7, <2>8, <2>9, <2>10
    DEF Request, HandlerStep
<1>5. CASE StartPipeline
  BY <1>1, <1>2, <1>5 DEF StartPipeline, Submit, process, Goto, Executors,
    Executing, SingleExecutor, Inside, Working, StatusKnown, HandlersKnow,
    NobodyDecides, Pending, Deciding
<1>6. CASE McpStatus
  BY <1>1, <1>6 DEF McpStatus, MarkOrphans, memory, process
<1>7. ASSUME NEW c \in Claims, McpDecide(c) PROVE StartedOnce'
  BY <1>1, <1>7 DEF McpDecide, Decisions, memory, process
<1>8. CASE Crash
  BY <1>1, <1>8 DEF Crash, Fault, Unread, db
<1>9. CASE Cancel
  BY <1>1, <1>9 DEF Cancel, db, memory
<1> QED BY <1>3, <1>4, <1>5, <1>6, <1>7, <1>8, <1>9 DEF Next

\* Nobody changes the status a task relies on for its next update.
LEMMA StatusKnownKept ==
  ASSUME IInv, Next PROVE StatusKnown'
<1> USE DEF TypeOK, StatusKnown, Working
<1>1. TypeOK /\ StatusKnown
  BY DEF IInv
<1>2. Executors /\ StartedOnce
  BY DEF IInv
<1>3. ASSUME NEW t \in Tasks, TaskStep(t) \/ TaskFault(t) PROVE StatusKnown'
  <2>1. CASE Enter(t)
    BY <1>1, <2>1 DEF Enter, LoopFree, Goto, db, memory
  <2>2. CASE Refuse(t)
    BY <1>1, <2>2 DEF Refuse, LoopFree, Forget, db, process, Unread
  <2>3. CASE BeginRun(t)
    BY <1>1, <1>2, <2>3 DEF BeginRun, Goto, SetStatus, process, CanMove,
      Settled, Executors, Executing, SingleExecutor, Inside, StartedOnce,
      Steps, NothingQueued, Finalize, Queued
  <2>4. CASE Reload(t)
    BY <1>1, <2>4 DEF Reload, DoneSteps, Goto, MarkOrphans, NodeAfter,
      LastDone, process, Steps, Done, Finalize
  <2>5. CASE CannotResume(t)
    BY <1>1, <2>5 DEF CannotResume, Goto, db, memory, process
  <2>6. CASE Unpause(t)
    BY <1>1, <1>2, <2>6 DEF Unpause, Goto, SetStatus, process, CanMove,
      Settled, Executors, Executing, SingleExecutor, Inside, StartedOnce,
      Steps, NothingQueued, Finalize, Queued
  <2>7. CASE Enrich(t)
    BY <1>1, <1>2, <2>7 DEF Enrich, Goto, AfterEnrich, Decided, db, process,
      Finalize, Decisions, Executors, Executing, SingleExecutor, Inside,
      StartedOnce, Steps, NothingQueued, Queued
  <2>8. CASE StopCancelled(t)
    BY <1>1, <1>2, <2>8 DEF StopCancelled, Finalize, Goto, SetStatus, process,
      CanMove, Settled, Executors, Executing, SingleExecutor, Inside,
      StartedOnce, Steps, NothingQueued, Queued
  <2>9. CASE NotCancelled(t)
    BY <1>1, <2>9 DEF NotCancelled, Finalize, Goto, db, memory, process
  <2>10. CASE Complete(t)
    BY <1>1, <1>2, <2>10 DEF Complete, Finalize, Goto, SetStatus, process,
      CanMove, Settled, Executors, Executing, SingleExecutor, Inside,
      StartedOnce, Steps, NothingQueued, Queued
  <2>11. CASE CreateStep(t)
    BY <1>1, <2>11 DEF CreateStep, Goto, NodeBody, memory, process, Finalize,
      HumanReview
  <2>12. CASE RunNode(t)
    BY <1>1, <2>12 DEF RunNode, Goto, Outcomes, process
  <2>13. CASE ReviewStart(t)
    BY <1>1, <2>13 DEF ReviewStart, Goto, db, process
  <2>14. CASE CountPending(t)
    BY <1>1, <2>14 DEF CountPending, Goto, Pending, db, process
  <2>15. CASE PersistDeliverable(t)
    BY <1>1, <2>15 DEF PersistDeliverable, Goto, process
  <2>16. CASE WriteCheckpoint(t)
    BY <1>1, <2>16 DEF WriteCheckpoint, Goto, AfterNode, process
  <2>17. CASE Pause(t)
    BY <1>1, <1>2, <2>17 DEF Pause, Goto, SetStatus, process, CanMove,
      Settled, Executors, Executing, SingleExecutor, Inside, StartedOnce,
      Steps, NothingQueued, Finalize, Queued
  <2>18. CASE StopFailed(t)
    BY <1>1, <1>2, <2>18 DEF StopFailed, Goto, SetStatus, process, CanMove,
      Settled, Executors, Executing, SingleExecutor, Inside, StartedOnce,
      Steps, NothingQueued, Finalize, Queued
  <2>19. CASE Emit(t)
    BY <1>1, <2>19 DEF Emit, Goto, db, memory, process
  <2>20. CASE Exit(t)
    BY <1>1, <2>20 DEF Exit, Forget, db, Unread
  <2>21. CASE StepExists(t)
    BY <1>1, <1>2, <2>21 DEF StepExists, Abort, Forget, CanMove, Unread,
      Settled, Executors, Executing, SingleExecutor, Inside, StartedOnce,
      Steps, NothingQueued, Finalize, Queued
  <2>22. CASE EnrichFails(t)
    BY <1>1, <1>2, <2>22 DEF EnrichFails, Goto, AfterEnrich, Fault, db,
      memory, Finalize, Executors, Executing, SingleExecutor, Inside,
      StartedOnce, Steps, NothingQueued, Queued
  <2>23. CASE ClaimsNotPersisted(t)
    BY <1>1, <2>23 DEF ClaimsNotPersisted, Goto, Fault, db
  <2>24. CASE NodeFails(t)
    BY <1>1, <2>24 DEF NodeFails, Fault, db
  <2>25. CASE EmitLost(t)
    BY <1>1, <2>25 DEF EmitLost, Goto, Fault
  <2>26. CASE TransactionFails(t)
    BY <1>1, <1>2, <2>26 DEF TransactionFails, Finalize, Fault, Abort, Forget,
      CanMove, Unread, Settled, Executors, Executing, SingleExecutor, Inside,
      StartedOnce, Steps, NothingQueued, Queued
  <2>27. CASE Enqueue(t)
    BY <1>1, <2>27 DEF Enqueue, process
  <2> QED BY <1>3, <2>1, <2>2, <2>3, <2>4, <2>5, <2>6, <2>7, <2>8, <2>9,
    <2>10, <2>11, <2>12, <2>13, <2>14, <2>15, <2>16, <2>17, <2>18, <2>19,
    <2>20, <2>21, <2>22, <2>23, <2>24, <2>25, <2>26, <2>27 DEF TaskStep,
    TaskFault
<1>4. ASSUME NEW u \in Clients, Request(u) \/ HandlerStep(u) \/ HandlerFails(u)
      PROVE StatusKnown'
  <2>1. CASE WakeUp(u)
    BY <1>1, <2>1 DEF WakeUp, Reply, Submit, db, Goto
  <2>2. CASE ResumeDispatch(u)
    BY <1>1, <2>2 DEF ResumeDispatch, Reply, Submit, db, Goto
  <2>3. CASE DecideCall(u) \/ ResumeCall(u) \/ Decide(u) \/ DecideConflict(u)
    \/ Recount(u) \/ ResumeRead(u) \/ ResumeMark(u) \/ HandlerFails(u)
    BY <1>1, <2>3 DEF DecideCall, Reply, handlerOnly, db, memory, ResumeCall,
      Decide, DecideConflict, Recount, ResumeRead, ResumeMark, MarkOrphans,
      HandlerFails, Fault
  <2> QED BY <1>4, <2>1, <2>2, <2>3 DEF Request, HandlerStep
<1>5. CASE StartPipeline
  BY <1>1, <1>5 DEF StartPipeline, Submit, process, Goto
<1>6. ASSUME NEW c \in Claims, McpDecide(c) PROVE StatusKnown'
  BY <1>1, <1>6 DEF McpDecide, Decisions, memory, process
<1>7. CASE Crash
  BY <1>1, <1>7 DEF Crash, Fault, Unread, db
<1>8. CASE Cancel \/ McpStatus
  BY <1>1, <1>8 DEF Cancel, db, memory, McpStatus, MarkOrphans, process
<1> QED BY <1>3, <1>4, <1>5, <1>6, <1>7, <1>8 DEF Next

\* The rows of run_steps agree with where the executing task stands.
LEMMA RowsMatchKept ==
  ASSUME IInv, Next PROVE RowsMatch'
<1> USE DEF TypeOK, RowsMatch, Between, Steps, Finalize, InNode, HumanReview
<1>1. TypeOK /\ RowsMatch
  BY DEF IInv
<1>2. Executors /\ StartedOnce /\ StatusKnown
  BY DEF IInv
<1>3. ASSUME NEW t \in Tasks, TaskStep(t) \/ TaskFault(t) PROVE RowsMatch'
  <2>1. CASE Enter(t)
    BY <1>1, <2>1 DEF Enter, LoopFree, Goto, db, memory
  <2>2. CASE Refuse(t)
    BY <1>1, <2>2 DEF Refuse, LoopFree, Forget, db, process, Unread
  <2>3. CASE BeginRun(t)
    BY <1>1, <1>2, <2>3 DEF BeginRun, Goto, SetStatus, process, CanMove,
      Settled, Executors, Executing, SingleExecutor, Inside, Working,
      StartedOnce, NothingQueued, Queued, StatusKnown
  <2>4. CASE Reload(t)
    <3>1. \A s \in Steps :
            /\ steps'[s] # "running"
            /\ steps[s] # "running" => steps'[s] = steps[s]
            /\ steps[s] = "running" => steps'[s] = "failed"
      BY <1>1, <1>2, <2>4 DEF Reload, MarkOrphans, TypeOK
    <3>2. \A s \in pos'[t] .. Finalize :
            steps'[s] = "absent" \/ (pos'[t] = Finalize /\ steps'[s] = "failed")
      BY <1>1, <1>2, <2>4, <3>1, ReloadPosition DEF TypeOK, Steps, Finalize, RowStates, Done
    <3>3. \A u \in Tasks : u # t => ~Executing(u) /\ pc'[u] = pc[u]
      BY <1>1, <1>2, <2>4 DEF Reload, Goto, TypeOK, Executors, SingleExecutor, Executing, Inside
    <3>4. pc'[t] \in {"unpause", "enrich"} /\ UNCHANGED next
      BY <1>1, <1>2, <2>4 DEF Reload, Goto, TypeOK
    <3> QED BY <1>1, <1>2, <3>1, <3>2, <3>3, <3>4 DEF RowsMatch, Between, InNode,
      Executing, Inside, Working
  <2>5. CASE CannotResume(t)
    BY <1>1, <2>5 DEF CannotResume, Goto, db, memory, process
  <2>6. CASE Unpause(t)
    BY <1>1, <2>6 DEF Unpause, Goto, SetStatus, process, CanMove, Settled
  <2>7. CASE Enrich(t)
    BY <1>1, <2>7 DEF Enrich, Goto, AfterEnrich, Decided, db, process,
      Decisions
  <2>8. CASE StopCancelled(t)
    BY <1>1, <2>8 DEF StopCancelled, Goto, SetStatus, process, CanMove,
      Settled
  <2>9. CASE NotCancelled(t)
    BY <1>1, <2>9 DEF NotCancelled, Goto, db, memory, process
  <2>10. CASE Complete(t)
    BY <1>1, <2>10 DEF Complete, Goto, SetStatus, process, CanMove, Settled
  <2>11. CASE CreateStep(t)
    BY <1>1, <1>2, <2>11 DEF CreateStep, Goto, NodeBody, memory, process,
      Executors, Executing, SingleExecutor, Inside, Working, StartedOnce,
      NothingQueued, Queued, StatusKnown
  <2>12. CASE RunNode(t)
    BY <1>1, <2>12 DEF RunNode, Goto, Outcomes, process
  <2>13. CASE ReviewStart(t)
    BY <1>1, <2>13 DEF ReviewStart, Goto, db, process
  <2>14. CASE CountPending(t)
    BY <1>1, <2>14 DEF CountPending, Goto, Pending, db, process
  <2>15. CASE PersistDeliverable(t)
    BY <1>1, <2>15 DEF PersistDeliverable, Goto, process
  <2>16. CASE WriteCheckpoint(t)
    BY <1>1, <1>2, <2>16 DEF WriteCheckpoint, Goto, AfterNode, process,
      Executors, Executing, SingleExecutor, Inside, Working, StartedOnce,
      NothingQueued, Queued, StatusKnown
  <2>17. CASE Pause(t)
    BY <1>1, <2>17 DEF Pause, Goto, SetStatus, process, CanMove, Settled
  <2>18. CASE StopFailed(t)
    BY <1>1, <2>18 DEF StopFailed, Goto, SetStatus, process, CanMove, Settled
  <2>19. CASE Emit(t)
    BY <1>1, <2>19 DEF Emit, Goto, db, memory, process
  <2>20. CASE Exit(t)
    BY <1>1, <2>20 DEF Exit, Forget, db, Unread
  <2>21. CASE StepExists(t)
    BY <1>1, <2>21 DEF StepExists, Abort, Forget, CanMove, Unread, Settled
  <2>22. CASE EnrichFails(t)
    BY <1>1, <2>22 DEF EnrichFails, Goto, AfterEnrich, Fault, db, memory
  <2>23. CASE ClaimsNotPersisted(t)
    BY <1>1, <2>23 DEF ClaimsNotPersisted, Goto, Fault, db
  <2>24. CASE NodeFails(t)
    BY <1>1, <2>24 DEF NodeFails, Fault, db
  <2>25. CASE EmitLost(t)
    BY <1>1, <2>25 DEF EmitLost, Goto, Fault
  <2>26. CASE TransactionFails(t)
    BY <1>1, <2>26 DEF TransactionFails, Fault, Abort, Forget, CanMove,
      Unread, Settled
  <2>27. CASE Enqueue(t)
    BY <1>1, <2>27 DEF Enqueue, process
  <2> QED BY <1>3, <2>1, <2>2, <2>3, <2>4, <2>5, <2>6, <2>7, <2>8, <2>9,
    <2>10, <2>11, <2>12, <2>13, <2>14, <2>15, <2>16, <2>17, <2>18, <2>19,
    <2>20, <2>21, <2>22, <2>23, <2>24, <2>25, <2>26, <2>27 DEF TaskStep,
    TaskFault
<1>4. ASSUME NEW u \in Clients, Request(u) \/ HandlerStep(u) \/ HandlerFails(u)
      PROVE RowsMatch'
  <2>1. CASE WakeUp(u)
    BY <1>1, <2>1 DEF WakeUp, Reply, Submit, db, Goto
  <2>2. CASE ResumeMark(u)
    BY <1>1, <2>2 DEF ResumeMark, Reply, MarkOrphans, memory
  <2>3. CASE ResumeDispatch(u)
    BY <1>1, <2>3 DEF ResumeDispatch, Reply, Submit, db, Goto
  <2>4. CASE DecideCall(u) \/ ResumeCall(u) \/ Decide(u) \/ DecideConflict(u)
    \/ Recount(u) \/ ResumeRead(u) \/ HandlerFails(u)
    BY <1>1, <2>4 DEF DecideCall, Reply, handlerOnly, db, memory, ResumeCall,
      Decide, DecideConflict, Recount, ResumeRead, HandlerFails, Fault
  <2> QED BY <1>4, <2>1, <2>2, <2>3, <2>4 DEF Request, HandlerStep
<1>5. CASE StartPipeline
  BY <1>1, <1>5 DEF StartPipeline, Submit, process, Goto
<1>6. CASE McpStatus
  BY <1>1, <1>6 DEF McpStatus, MarkOrphans, memory, process
<1>7. ASSUME NEW c \in Claims, McpDecide(c) PROVE RowsMatch'
  BY <1>1, <1>7 DEF McpDecide, Decisions, memory, process
<1>8. CASE Crash
  BY <1>1, <1>8 DEF Crash, Fault, Unread, db
<1>9. CASE Cancel
  BY <1>1, <1>9 DEF Cancel, db, memory
<1> QED BY <1>3, <1>4, <1>5, <1>6, <1>7, <1>8, <1>9 DEF Next

\* Before the gate nothing is queued; at the gate everything escalated is,
\* before the run is put on hold.
LEMMA GateKeptKept ==
  ASSUME IInv, Next PROVE GateKept'
<1> USE DEF TypeOK, GateKept, BeforeGate, NothingQueued, Queued,
  NobodyDecides, HumanReview, Holding, Finalize, Between, Deciding
<1>1. TypeOK /\ GateKept
  BY DEF IInv
<1>2. Executors /\ StartedOnce /\ StatusKnown /\ RowsMatch /\ HandlersKnow
  BY DEF IInv
<1>3. ASSUME NEW t \in Tasks, TaskStep(t) \/ TaskFault(t) PROVE GateKept'
  <2>1. CASE Enter(t)
    BY <1>1, <2>1 DEF Enter, LoopFree, Goto, db, memory
  <2>2. CASE Refuse(t)
    BY <1>1, <2>2 DEF Refuse, LoopFree, Forget, db, process, Unread
  <2>3. CASE BeginRun(t)
    BY <1>1, <1>2, <2>3 DEF BeginRun, Goto, SetStatus, process, CanMove,
      Settled, Executors, Executing, SingleExecutor, Inside, Working,
      StartedOnce, Steps, StatusKnown, RowsMatch, InNode, HandlersKnow,
      Pending
  <2>4. CASE Reload(t)
    <3>1. pos'[t] > HumanReview
      BY <1>1, <1>2, <2>4, ReloadPosition DEF HumanReview, Finalize
    <3>2. pc'[t] \in {"unpause", "enrich"}
      BY <1>1, <1>2, <2>4 DEF Reload, Goto, TypeOK
    <3>3. \A u \in Tasks : u # t => ~Executing(u) /\ pc'[u] = pc[u]
      BY <1>1, <1>2, <2>4 DEF Reload, Goto, TypeOK, Executors, SingleExecutor, Executing, Inside
    <3>4. pos'[t] \in Nat
      BY <2>4, ReloadPosition DEF Finalize
    <3>5. ~BeforeGate(t)'
      BY <3>1, <3>2, <3>4 DEF BeforeGate, Between, HumanReview
    <3>6. \A u \in Tasks : u # t =>
            /\ ~BeforeGate(u)'
            /\ ~Holding(u)' /\ pc'[u] \notin {"enqueue", "checkpoint"}
      BY <3>3 DEF BeforeGate, Between, Holding, Executing, Inside, Working
    <3> QED BY <3>2, <3>5, <3>6 DEF GateKept, Holding
  <2>5. CASE CannotResume(t)
    BY <1>1, <2>5 DEF CannotResume, Goto, db, memory, process
  <2>6. CASE Unpause(t)
    BY <1>1, <2>6 DEF Unpause, Goto, SetStatus, process, CanMove, Settled
  <2>7. CASE Enrich(t)
    BY <1>1, <2>7 DEF Enrich, Goto, AfterEnrich, Decided, db, process,
      Decisions
  <2>8. CASE StopCancelled(t)
    BY <1>1, <2>8 DEF StopCancelled, Goto, SetStatus, process, CanMove,
      Settled
  <2>9. CASE NotCancelled(t)
    BY <1>1, <2>9 DEF NotCancelled, Goto, db, memory, process
  <2>10. CASE Complete(t)
    BY <1>1, <2>10 DEF Complete, Goto, SetStatus, process, CanMove, Settled
  <2>11. CASE CreateStep(t)
    BY <1>1, <1>2, <2>11 DEF CreateStep, Goto, NodeBody, memory, process,
      Executors, Executing, SingleExecutor, Inside, Working, StartedOnce,
      Steps, StatusKnown, RowsMatch, InNode, HandlersKnow, Pending
  <2>12. CASE RunNode(t)
    BY <1>1, <1>2, <2>12 DEF RunNode, Goto, Outcomes, process, Executors,
      Executing, SingleExecutor, Inside, Working, StartedOnce, Steps,
      StatusKnown, RowsMatch, InNode, HandlersKnow, Pending
  <2>13. CASE ReviewStart(t)
    BY <1>1, <1>2, <2>13 DEF ReviewStart, Goto, db, process, Executors,
      Executing, SingleExecutor, Inside, Working, StartedOnce, Steps,
      StatusKnown, RowsMatch, InNode, HandlersKnow, Pending
  <2>14. CASE Enqueue(t)
    BY <1>1, <1>2, <2>14 DEF Enqueue, process, Executors, Executing,
      SingleExecutor, Inside, Working, StartedOnce, Steps, StatusKnown,
      RowsMatch, InNode, HandlersKnow, Pending
  <2>15. CASE CountPending(t)
    BY <1>1, <1>2, <2>15 DEF CountPending, Goto, Pending, db, process,
      Executors, Executing, SingleExecutor, Inside, Working, StartedOnce,
      Steps, StatusKnown, RowsMatch, InNode, HandlersKnow
  <2>16. CASE PersistDeliverable(t)
    BY <1>1, <1>2, <2>16 DEF PersistDeliverable, Goto, process, Executors,
      Executing, SingleExecutor, Inside, Working, StartedOnce, Steps,
      StatusKnown, RowsMatch, InNode, HandlersKnow, Pending
  <2>17. CASE WriteCheckpoint(t)
    BY <1>1, <1>2, <2>17 DEF WriteCheckpoint, Goto, AfterNode, process,
      Executors, Executing, SingleExecutor, Inside, Working, StartedOnce,
      Steps, StatusKnown, RowsMatch, InNode, HandlersKnow, Pending
  <2>18. CASE Pause(t)
    BY <1>1, <2>18 DEF Pause, Goto, SetStatus, process, CanMove, Settled
  <2>19. CASE StopFailed(t)
    BY <1>1, <2>19 DEF StopFailed, Goto, SetStatus, process, CanMove, Settled
  <2>20. CASE Emit(t)
    BY <1>1, <1>2, <2>20 DEF Emit, Goto, db, memory, process, Executors,
      Executing, SingleExecutor, Inside, Working, StartedOnce, Steps,
      StatusKnown, RowsMatch, InNode, HandlersKnow, Pending
  <2>21. CASE Exit(t)
    BY <1>1, <2>21 DEF Exit, Forget, db, Unread
  <2>22. CASE StepExists(t)
    BY <1>1, <2>22 DEF StepExists, Abort, Forget, CanMove, Unread, Settled
  <2>23. CASE EnrichFails(t)
    BY <1>1, <2>23 DEF EnrichFails, Goto, AfterEnrich, Fault, db, memory
  <2>24. CASE ClaimsNotPersisted(t)
    BY <1>1, <2>24 DEF ClaimsNotPersisted, Goto, Fault, db
  <2>25. CASE NodeFails(t)
    BY <1>1, <1>2, <2>25 DEF NodeFails, Fault, db, Executors, Executing,
      SingleExecutor, Inside, Working, StartedOnce, Steps, StatusKnown,
      RowsMatch, InNode, HandlersKnow, Pending
  <2>26. CASE EmitLost(t)
    BY <1>1, <1>2, <2>26 DEF EmitLost, Goto, Fault, Executors, Executing,
      SingleExecutor, Inside, Working, StartedOnce, Steps, StatusKnown,
      RowsMatch, InNode, HandlersKnow, Pending
  <2>27. CASE TransactionFails(t)
    BY <1>1, <2>27 DEF TransactionFails, Fault, Abort, Forget, CanMove,
      Unread, Settled
  <2> QED BY <1>3, <2>1, <2>2, <2>3, <2>4, <2>5, <2>6, <2>7, <2>8, <2>9,
    <2>10, <2>11, <2>12, <2>13, <2>14, <2>15, <2>16, <2>17, <2>18, <2>19,
    <2>20, <2>21, <2>22, <2>23, <2>24, <2>25, <2>26, <2>27 DEF TaskStep,
    TaskFault
<1>4. ASSUME NEW u \in Clients, Request(u) \/ HandlerStep(u) \/ HandlerFails(u)
      PROVE GateKept'
  <2>1. CASE DecideCall(u)
    BY <1>1, <2>1 DEF DecideCall, LoopFree, Reply, handlerOnly, db, memory
  <2>2. CASE ResumeCall(u)
    BY <1>1, <2>2 DEF ResumeCall, LoopFree, Reply, handlerOnly, db, memory
  <2>3. CASE Decide(u)
    BY <1>1, <2>3 DEF Decide, Reply, Decisions, memory
  <2>4. CASE DecideConflict(u)
    BY <1>1, <2>4 DEF DecideConflict, Reply, handlerOnly, db, memory
  <2>5. CASE Recount(u)
    BY <1>1, <2>5 DEF Recount, Reply, Pending, handlerOnly, db, memory
  <2>6. CASE WakeUp(u)
    BY <1>1, <2>6 DEF WakeUp, Reply, Submit, db, Goto
  <2>7. CASE ResumeRead(u)
    BY <1>1, <2>7 DEF ResumeRead, Reply, Settled, handlerOnly, db, memory
  <2>8. CASE ResumeMark(u)
    BY <1>1, <2>8 DEF ResumeMark, Reply, MarkOrphans, memory, Steps
  <2>9. CASE ResumeDispatch(u)
    BY <1>1, <2>9 DEF ResumeDispatch, Reply, Submit, db, Goto
  <2>10. CASE HandlerFails(u)
    BY <1>1, <2>10 DEF HandlerFails, Fault, db, memory
  <2> QED BY <1>4, <2>1, <2>2, <2>3, <2>4, <2>5, <2>6, <2>7, <2>8, <2>9, <2>10
    DEF Request, HandlerStep
<1>5. CASE StartPipeline
  BY <1>1, <1>5 DEF StartPipeline, Submit, process, Goto
<1>6. CASE McpStatus
  BY <1>1, <1>6 DEF McpStatus, MarkOrphans, memory, process, Steps
<1>7. ASSUME NEW c \in Claims, McpDecide(c) PROVE GateKept'
  BY <1>1, <1>7 DEF McpDecide, Decisions, memory, process
<1>8. CASE Crash
  BY <1>1, <1>8 DEF Crash, Fault, Unread, db
<1>9. CASE Cancel
  BY <1>1, <1>9 DEF Cancel, db, memory
<1> QED BY <1>3, <1>4, <1>5, <1>6, <1>7, <1>8, <1>9 DEF Next

\* A running run without a completed human_review is in the hands of
\* run_pipeline or out of reach of every resume.
LEMMA BeforeTheGateKept ==
  ASSUME IInv, Next PROVE BeforeTheGate'
<1> USE DEF TypeOK, BeforeTheGate, HumanReview, Executing, Inside, Working
<1>1. TypeOK /\ BeforeTheGate
  BY DEF IInv
<1>2. Executors /\ StartedOnce /\ StatusKnown /\ RowsMatch /\ PausedAtTheGate
  BY DEF IInv
<1>3. ASSUME NEW t \in Tasks, TaskStep(t) \/ TaskFault(t) PROVE BeforeTheGate'
  <2>1. CASE Enter(t)
    BY <1>1, <2>1 DEF Enter, LoopFree, Goto, db, memory
  <2>2. CASE Refuse(t)
    BY <1>1, <2>2 DEF Refuse, LoopFree, Forget, db, process, Unread
  <2>3. CASE BeginRun(t)
    BY <1>1, <1>2, <2>3 DEF BeginRun, Goto, SetStatus, process, CanMove,
      Settled, Executors, SingleExecutor, StartedOnce, Steps, NothingQueued,
      Finalize, Queued, StatusKnown, RowsMatch, Between, InNode,
      PausedAtTheGate
  <2>4. CASE Reload(t)
    BY <1>1, <2>4 DEF Reload, DoneSteps, Goto, MarkOrphans, NodeAfter,
      LastDone, process, Steps, Done, Finalize
  <2>5. CASE CannotResume(t)
    BY <1>1, <2>5 DEF CannotResume, Goto, db, memory, process
  <2>6. CASE Unpause(t)
    BY <1>1, <1>2, <2>6 DEF Unpause, Goto, SetStatus, process, CanMove,
      Settled, Executors, SingleExecutor, StartedOnce, Steps, NothingQueued,
      Finalize, Queued, StatusKnown, RowsMatch, Between, InNode,
      PausedAtTheGate
  <2>7. CASE Enrich(t)
    BY <1>1, <2>7 DEF Enrich, Goto, AfterEnrich, Decided, db, process,
      Finalize, Decisions
  <2>8. CASE StopCancelled(t)
    BY <1>1, <2>8 DEF StopCancelled, Finalize, Goto, SetStatus, process,
      CanMove, Settled
  <2>9. CASE NotCancelled(t)
    BY <1>1, <2>9 DEF NotCancelled, Finalize, Goto, db, memory, process
  <2>10. CASE Complete(t)
    BY <1>1, <2>10 DEF Complete, Finalize, Goto, SetStatus, process, CanMove,
      Settled
  <2>11. CASE CreateStep(t)
    BY <1>1, <2>11 DEF CreateStep, Goto, NodeBody, memory, process, Finalize
  <2>12. CASE RunNode(t)
    BY <1>1, <2>12 DEF RunNode, Goto, Outcomes, process
  <2>13. CASE ReviewStart(t)
    BY <1>1, <2>13 DEF ReviewStart, Goto, db, process
  <2>14. CASE CountPending(t)
    BY <1>1, <2>14 DEF CountPending, Goto, Pending, db, process
  <2>15. CASE PersistDeliverable(t)
    BY <1>1, <2>15 DEF PersistDeliverable, Goto, process
  <2>16. CASE WriteCheckpoint(t)
    <3>1. pos[t] \in Steps /\ steps[pos[t]] # "completed"
      BY <1>1, <1>2, <2>16 DEF WriteCheckpoint, Goto, RowsMatch, InNode
    <3>2. steps'[HumanReview] # "completed" => steps[HumanReview] # "completed"
      BY <1>1, <1>2, <2>16, <3>1 DEF WriteCheckpoint, TypeOK, Steps, HumanReview, Finalize
    <3>3. pc'[t] \in Inside /\ \A u \in Tasks : u # t => pc'[u] = pc[u]
      BY <1>1, <1>2, <2>16 DEF WriteCheckpoint, Goto, AfterNode, TypeOK, Inside, Working
    <3>4. pc[t] # "idle" /\ UNCHANGED <<status, kind, client>>
      BY <2>16 DEF WriteCheckpoint, Goto, process
    <3> QED BY <1>1, <1>2, <3>2, <3>3, <3>4 DEF BeforeTheGate, Executing
  <2>17. CASE Pause(t)
    BY <1>1, <2>17 DEF Pause, Goto, SetStatus, process, CanMove, Settled
  <2>18. CASE StopFailed(t)
    BY <1>1, <2>18 DEF StopFailed, Goto, SetStatus, process, CanMove, Settled
  <2>19. CASE Emit(t)
    BY <1>1, <2>19 DEF Emit, Goto, db, memory, process
  <2>20. CASE Exit(t)
    BY <1>1, <1>2, <2>20 DEF Exit, Forget, db, Unread, Executors,
      SingleExecutor, StartedOnce, Steps, NothingQueued, Finalize, Queued,
      StatusKnown, RowsMatch, Between, InNode, PausedAtTheGate
  <2>21. CASE StepExists(t)
    BY <1>1, <2>21 DEF StepExists, Abort, Forget, CanMove, Unread, Settled
  <2>22. CASE EnrichFails(t)
    BY <1>1, <2>22 DEF EnrichFails, Goto, AfterEnrich, Fault, db, memory,
      Finalize
  <2>23. CASE ClaimsNotPersisted(t)
    BY <1>1, <2>23 DEF ClaimsNotPersisted, Goto, Fault, db
  <2>24. CASE NodeFails(t)
    BY <1>1, <2>24 DEF NodeFails, Fault, db
  <2>25. CASE EmitLost(t)
    BY <1>1, <2>25 DEF EmitLost, Goto, Fault
  <2>26. CASE TransactionFails(t)
    BY <1>1, <2>26 DEF TransactionFails, Finalize, Fault, Abort, Forget,
      CanMove, Unread, Settled
  <2>27. CASE Enqueue(t)
    BY <1>1, <2>27 DEF Enqueue, process
  <2> QED BY <1>3, <2>1, <2>2, <2>3, <2>4, <2>5, <2>6, <2>7, <2>8, <2>9,
    <2>10, <2>11, <2>12, <2>13, <2>14, <2>15, <2>16, <2>17, <2>18, <2>19,
    <2>20, <2>21, <2>22, <2>23, <2>24, <2>25, <2>26, <2>27 DEF TaskStep,
    TaskFault
<1>4. ASSUME NEW u \in Clients, Request(u) \/ HandlerStep(u) \/ HandlerFails(u)
      PROVE BeforeTheGate'
  <2>1. CASE DecideCall(u)
    BY <1>1, <2>1 DEF DecideCall, LoopFree, Reply, handlerOnly, db, memory
  <2>2. CASE ResumeCall(u)
    BY <1>1, <2>2 DEF ResumeCall, LoopFree, Reply, handlerOnly, db, memory
  <2>3. CASE Decide(u)
    BY <1>1, <2>3 DEF Decide, Reply, Decisions, memory
  <2>4. CASE DecideConflict(u)
    BY <1>1, <2>4 DEF DecideConflict, Reply, handlerOnly, db, memory
  <2>5. CASE Recount(u)
    BY <1>1, <2>5 DEF Recount, Reply, Pending, handlerOnly, db, memory
  <2>6. CASE WakeUp(u)
    BY <1>1, <2>6 DEF WakeUp, Reply, Submit, db, Goto
  <2>7. CASE ResumeRead(u)
    BY <1>1, <2>7 DEF ResumeRead, Reply, Settled, handlerOnly, db, memory
  <2>8. CASE ResumeMark(u)
    BY <1>1, <2>8 DEF ResumeMark, Reply, MarkOrphans, memory, Steps, Finalize
  <2>9. CASE ResumeDispatch(u)
    BY <1>1, <2>9 DEF ResumeDispatch, Reply, Submit, db, Goto
  <2>10. CASE HandlerFails(u)
    BY <1>1, <2>10 DEF HandlerFails, Fault, db, memory
  <2> QED BY <1>4, <2>1, <2>2, <2>3, <2>4, <2>5, <2>6, <2>7, <2>8, <2>9, <2>10
    DEF Request, HandlerStep
<1>5. CASE StartPipeline
  BY <1>1, <1>5 DEF StartPipeline, Submit, process, Goto
<1>6. CASE McpStatus
  BY <1>1, <1>6 DEF McpStatus, MarkOrphans, memory, process, Steps, Finalize
<1>7. ASSUME NEW c \in Claims, McpDecide(c) PROVE BeforeTheGate'
  BY <1>1, <1>7 DEF McpDecide, Decisions, memory, process
<1>8. CASE Crash
  BY <1>1, <1>8 DEF Crash, Fault, Unread, db
<1>9. CASE Cancel
  BY <1>1, <1>9 DEF Cancel, db, memory
<1> QED BY <1>3, <1>4, <1>5, <1>6, <1>7, <1>8, <1>9 DEF Next

\* Nobody decides while nothing is queued, and a handler that is about to
\* wake the run has seen the last item decided.
LEMMA HandlersKnowKept ==
  ASSUME IInv, Next PROVE HandlersKnow'
<1> USE DEF TypeOK, HandlersKnow, NothingQueued, NobodyDecides, Pending,
  Queued, Deciding
<1>1. TypeOK /\ HandlersKnow
  BY DEF IInv
<1>2. GateKept /\ WokenWhenDecided
  BY DEF IInv
<1>3. ASSUME NEW t \in Tasks, TaskStep(t) \/ TaskFault(t) PROVE HandlersKnow'
  <2>1. CASE Refuse(t)
    BY <1>1, <2>1 DEF Refuse, LoopFree, Forget, db, process, Unread
  <2>2. CASE Enqueue(t)
    BY <1>1, <1>2, <2>2 DEF Enqueue, process, GateKept, BeforeGate,
      HumanReview, Holding, Finalize, Between, WokenWhenDecided
  <2>3. CASE Exit(t)
    BY <1>1, <2>3 DEF Exit, Forget, db, Unread
  <2>4. CASE StepExists(t)
    BY <1>1, <2>4 DEF StepExists, Abort, Forget, CanMove, Unread, Settled
  <2>5. CASE TransactionFails(t)
    BY <1>1, <2>5 DEF TransactionFails, Finalize, Fault, Abort, Forget,
      CanMove, Unread, Settled
  <2>6. CASE Enter(t) \/ BeginRun(t) \/ Reload(t) \/ CannotResume(t) \/
    Unpause(t) \/ Enrich(t) \/ StopCancelled(t) \/ NotCancelled(t) \/
    Complete(t) \/ CreateStep(t) \/ RunNode(t) \/ ReviewStart(t) \/
    CountPending(t) \/ PersistDeliverable(t) \/ WriteCheckpoint(t) \/ Pause(t)
    \/ StopFailed(t) \/ Emit(t) \/ EnrichFails(t) \/ ClaimsNotPersisted(t) \/
    NodeFails(t) \/ EmitLost(t)
    BY <1>1, <2>6 DEF Enter, Goto, db, memory, BeginRun, SetStatus, process,
      Reload, MarkOrphans, CannotResume, Unpause, Enrich, StopCancelled,
      NotCancelled, Complete, CreateStep, RunNode, ReviewStart, CountPending,
      PersistDeliverable, WriteCheckpoint, Pause, StopFailed, Emit,
      EnrichFails, Fault, ClaimsNotPersisted, NodeFails, EmitLost
  <2> QED BY <1>3, <2>1, <2>2, <2>3, <2>4, <2>5, <2>6 DEF TaskStep, TaskFault
<1>4. ASSUME NEW u \in Clients, Request(u) \/ HandlerStep(u) \/ HandlerFails(u)
      PROVE HandlersKnow'
  <2>1. CASE DecideCall(u)
    BY <1>1, <2>1 DEF DecideCall, LoopFree, Reply, handlerOnly, db, memory
  <2>2. CASE ResumeCall(u)
    BY <1>1, <2>2 DEF ResumeCall, LoopFree, Reply, handlerOnly, db, memory
  <2>3. CASE Decide(u)
    BY <1>1, <2>3 DEF Decide, Reply, Decisions, memory
  <2>4. CASE DecideConflict(u)
    BY <1>1, <2>4 DEF DecideConflict, Reply, handlerOnly, db, memory
  <2>5. CASE Recount(u)
    BY <1>1, <2>5 DEF Recount, Reply, handlerOnly, db, memory
  <2>6. CASE WakeUp(u)
    BY <1>1, <2>6 DEF WakeUp, Reply, Submit, db, Goto
  <2>7. CASE ResumeRead(u)
    BY <1>1, <2>7 DEF ResumeRead, Reply, Settled, handlerOnly, db, memory
  <2>8. CASE ResumeMark(u)
    BY <1>1, <2>8 DEF ResumeMark, Reply, MarkOrphans, memory, Steps, Finalize
  <2>9. CASE ResumeDispatch(u)
    BY <1>1, <2>9 DEF ResumeDispatch, Reply, Submit, db, Goto
  <2>10. CASE HandlerFails(u)
    BY <1>1, <2>10 DEF HandlerFails, Fault, db, memory
  <2> QED BY <1>4, <2>1, <2>2, <2>3, <2>4, <2>5, <2>6, <2>7, <2>8, <2>9, <2>10
    DEF Request, HandlerStep
<1>5. CASE StartPipeline
  BY <1>1, <1>5 DEF StartPipeline, Submit, process, Goto
<1>6. ASSUME NEW c \in Claims, McpDecide(c) PROVE HandlersKnow'
  BY <1>1, <1>6 DEF McpDecide, Decisions, memory, process
<1>7. CASE Crash
  BY <1>1, <1>7 DEF Crash, Fault, Unread, db
<1>8. CASE Cancel \/ McpStatus
  BY <1>1, <1>8 DEF Cancel, db, memory, McpStatus, MarkOrphans, process
<1> QED BY <1>3, <1>4, <1>5, <1>6, <1>7, <1>8 DEF Next

\* What a task has read of the decisions stays what the queue says.
LEMMA SeenFaithfulKept ==
  ASSUME IInv, Next PROVE SeenFaithful'
<1> USE DEF TypeOK, SeenFaithful
<1>1. TypeOK /\ SeenFaithful
  BY DEF IInv
<1>2. GateKept
  BY DEF IInv
<1>3. ASSUME NEW t \in Tasks, TaskStep(t) \/ TaskFault(t) PROVE SeenFaithful'
  <2>1. CASE Refuse(t)
    BY <1>1, <2>1 DEF Refuse, LoopFree, Forget, db, process, Unread, Decisions
  <2>2. CASE Enrich(t)
    BY <1>1, <2>2 DEF Enrich, Goto, AfterEnrich, Decided, db, process,
      Finalize, Decisions
  <2>3. CASE Enqueue(t)
    <3>1. PICK c \in todo[t] : items' = [items EXCEPT ![c] = "pending"]
      BY <2>3 DEF Enqueue
    <3>2. c \in Claims /\ items[c] = "absent"
      BY <1>1, <1>2, <2>3, <3>1 DEF TypeOK, Enqueue, GateKept, Queued
    <3>3. \A u \in Tasks : seen[u][c] \in Decisions \cup {"none"}
      BY <1>1, <1>2, <3>2 DEF TypeOK, Reports
    <3>4. \A u \in Tasks : seen[u][c] = "none"
      BY <1>1, <1>2, <3>2, <3>3 DEF SeenFaithful, Decisions
    <3>5. UNCHANGED seen
      BY <2>3 DEF Enqueue
    <3> QED BY <1>1, <1>2, <3>1, <3>2, <3>4, <3>5 DEF SeenFaithful, TypeOK
  <2>4. CASE Exit(t)
    BY <1>1, <2>4 DEF Exit, Forget, db, Unread, Decisions
  <2>5. CASE StepExists(t)
    BY <1>1, <2>5 DEF StepExists, Abort, Forget, CanMove, Unread, Settled,
      Decisions
  <2>6. CASE TransactionFails(t)
    BY <1>1, <2>6 DEF TransactionFails, Finalize, Fault, Abort, Forget,
      CanMove, Unread, Settled, Decisions
  <2>7. CASE Enter(t) \/ BeginRun(t) \/ Reload(t) \/ CannotResume(t) \/
    Unpause(t) \/ StopCancelled(t) \/ NotCancelled(t) \/ Complete(t) \/
    CreateStep(t) \/ RunNode(t) \/ ReviewStart(t) \/ CountPending(t) \/
    PersistDeliverable(t) \/ WriteCheckpoint(t) \/ Pause(t) \/ StopFailed(t)
    \/ Emit(t) \/ EnrichFails(t) \/ ClaimsNotPersisted(t) \/ NodeFails(t) \/
    EmitLost(t)
    BY <1>1, <2>7 DEF Enter, Goto, db, memory, BeginRun, SetStatus, process,
      Reload, MarkOrphans, CannotResume, Unpause, StopCancelled, NotCancelled,
      Complete, CreateStep, RunNode, ReviewStart, CountPending,
      PersistDeliverable, WriteCheckpoint, Pause, StopFailed, Emit,
      EnrichFails, Fault, ClaimsNotPersisted, NodeFails, EmitLost
  <2> QED BY <1>3, <2>1, <2>2, <2>3, <2>4, <2>5, <2>6, <2>7 DEF TaskStep,
    TaskFault
<1>4. ASSUME NEW u \in Clients, Request(u) \/ HandlerStep(u) \/ HandlerFails(u)
      PROVE SeenFaithful'
  <2>1. CASE Decide(u)
    <3>1. \A d \in Claims : items'[d] = items[d] \/ items[d] = "pending"
      BY <1>1, <1>2, <2>1 DEF Decide, TypeOK
    <3>2. \A t \in Tasks, d \in Claims : seen[t][d] # "pending"
      <4>1. \A t \in Tasks, d \in Claims : seen[t][d] \in Decisions \cup {"none"}
        BY <1>1, <1>2 DEF TypeOK, Reports
      <4> QED BY <4>1 DEF Decisions
    <3> QED BY <1>1, <1>2, <2>1, <3>1, <3>2 DEF Decide, SeenFaithful, memory
  <2>2. CASE DecideCall(u) \/ ResumeCall(u) \/ DecideConflict(u) \/ Recount(u)
    \/ WakeUp(u) \/ ResumeRead(u) \/ ResumeMark(u) \/ ResumeDispatch(u) \/
    HandlerFails(u)
    BY <1>1, <2>2 DEF DecideCall, Reply, handlerOnly, db, memory, ResumeCall,
      DecideConflict, Recount, WakeUp, Submit, Goto, ResumeRead, ResumeMark,
      MarkOrphans, ResumeDispatch, HandlerFails, Fault
  <2> QED BY <1>4, <2>1, <2>2 DEF Request, HandlerStep
<1>5. ASSUME NEW c \in Claims, McpDecide(c) PROVE SeenFaithful'
  <2>1. \A d \in Claims : items'[d] = items[d] \/ items[d] = "pending"
    BY <1>1, <1>2, <1>5 DEF McpDecide, TypeOK
  <2>2. \A t \in Tasks, d \in Claims : seen[t][d] # "pending"
    <3>1. \A t \in Tasks, d \in Claims : seen[t][d] \in Decisions \cup {"none"}
      BY <1>1, <1>2 DEF TypeOK, Reports
    <3> QED BY <3>1 DEF Decisions
  <2> QED BY <1>1, <1>2, <1>5, <2>1, <2>2 DEF McpDecide, SeenFaithful, memory
<1>6. CASE Crash
  BY <1>1, <1>6 DEF Crash, Fault, Unread, db, Decisions
<1>7. CASE StartPipeline \/ Cancel \/ McpStatus
  BY <1>1, <1>7 DEF StartPipeline, process, Goto, Cancel, db, memory,
    McpStatus, MarkOrphans
<1> QED BY <1>3, <1>4, <1>5, <1>6, <1>7 DEF Next

\* The deliverable exists when its checkpoint is about to be written, and not
\* before finalize.
LEMMA DeliveryKept ==
  ASSUME IInv, Next PROVE Delivery'
<1> USE DEF TypeOK, Delivery, Finalize
<1>1. TypeOK /\ Delivery
  BY DEF IInv
<1>2. Executors /\ RowsMatch /\ StartedOnce
  BY DEF IInv
<1>3. ASSUME NEW t \in Tasks, TaskStep(t) \/ TaskFault(t) PROVE Delivery'
  <2>1. CASE Enter(t)
    BY <1>1, <2>1 DEF Enter, LoopFree, Goto, db, memory
  <2>2. CASE Refuse(t)
    BY <1>1, <2>2 DEF Refuse, LoopFree, Forget, db, process, Unread
  <2>3. CASE BeginRun(t)
    BY <1>1, <2>3 DEF BeginRun, Goto, SetStatus, process, CanMove, Settled
  <2>4. CASE Reload(t)
    BY <1>1, <2>4 DEF Reload, DoneSteps, Goto, MarkOrphans, NodeAfter,
      LastDone, process, Steps, Done
  <2>5. CASE CannotResume(t)
    BY <1>1, <2>5 DEF CannotResume, Goto, db, memory, process
  <2>6. CASE Unpause(t)
    BY <1>1, <2>6 DEF Unpause, Goto, SetStatus, process, CanMove, Settled
  <2>7. CASE Enrich(t)
    BY <1>1, <2>7 DEF Enrich, Goto, AfterEnrich, Decided, db, process,
      Decisions
  <2>8. CASE StopCancelled(t)
    BY <1>1, <2>8 DEF StopCancelled, Goto, SetStatus, process, CanMove,
      Settled
  <2>9. CASE NotCancelled(t)
    BY <1>1, <2>9 DEF NotCancelled, Goto, db, memory, process
  <2>10. CASE Complete(t)
    BY <1>1, <2>10 DEF Complete, Goto, SetStatus, process, CanMove, Settled
  <2>11. CASE CreateStep(t)
    BY <1>1, <2>11 DEF CreateStep, Goto, NodeBody, memory, process,
      HumanReview
  <2>12. CASE RunNode(t)
    BY <1>1, <1>2, <2>12 DEF RunNode, Goto, Outcomes, process, Executors,
      Executing, SingleExecutor, Inside, Working, RowsMatch, Between, Steps,
      InNode, HumanReview, StartedOnce, NothingQueued, Queued
  <2>13. CASE ReviewStart(t)
    BY <1>1, <2>13 DEF ReviewStart, Goto, db, process
  <2>14. CASE CountPending(t)
    BY <1>1, <1>2, <2>14 DEF CountPending, Goto, Pending, db, process,
      Executors, Executing, SingleExecutor, Inside, Working, RowsMatch,
      Between, Steps, InNode, HumanReview, StartedOnce, NothingQueued, Queued
  <2>15. CASE PersistDeliverable(t)
    <3>1. pc[t] = "persist" /\ pos[t] = Finalize /\ steps[Finalize] # "absent"
      BY <1>1, <1>2, <2>15 DEF PersistDeliverable, Goto, RowsMatch, InNode
    <3>2. deliverable' # {} /\ UNCHANGED steps
      BY <2>15 DEF PersistDeliverable
    <3>3. \A u \in Tasks : u # t => pc[u] # "persist"
      BY <1>1, <1>2, <3>1 DEF Executors, SingleExecutor, Executing, Inside, Working
    <3>4. \A u \in Tasks : pc'[u] # "persist"
      BY <1>1, <1>2, <2>15, <3>3 DEF PersistDeliverable, Goto, TypeOK
    <3> QED BY <3>1, <3>2, <3>4 DEF Delivery
  <2>16. CASE WriteCheckpoint(t)
    BY <1>1, <2>16 DEF WriteCheckpoint, Goto, AfterNode, process
  <2>17. CASE Pause(t)
    BY <1>1, <2>17 DEF Pause, Goto, SetStatus, process, CanMove, Settled
  <2>18. CASE StopFailed(t)
    BY <1>1, <2>18 DEF StopFailed, Goto, SetStatus, process, CanMove, Settled
  <2>19. CASE Emit(t)
    <3>1. next[t] \in {"enrich", "loop", "pause", "exit"} /\ pc' = [pc EXCEPT ![t] = next[t]]
      BY <1>1, <1>2, <2>19 DEF Emit, Goto, RowsMatch
    <3>2. UNCHANGED <<steps, deliverable, pos, outcome>>
      BY <2>19 DEF Emit, db, memory
    <3> QED BY <1>1, <1>2, <3>1, <3>2 DEF Delivery, TypeOK
  <2>20. CASE Exit(t)
    BY <1>1, <2>20 DEF Exit, Forget, db, Unread
  <2>21. CASE StepExists(t)
    BY <1>1, <2>21 DEF StepExists, Abort, Forget, CanMove, Unread, Settled
  <2>22. CASE EnrichFails(t)
    BY <1>1, <2>22 DEF EnrichFails, Goto, AfterEnrich, Fault, db, memory
  <2>23. CASE ClaimsNotPersisted(t)
    BY <1>1, <2>23 DEF ClaimsNotPersisted, Goto, Fault, db
  <2>24. CASE NodeFails(t)
    BY <1>1, <2>24 DEF NodeFails, Fault, db
  <2>25. CASE EmitLost(t)
    <3>1. next[t] \in {"enrich", "loop", "pause", "exit"} /\ pc' = [pc EXCEPT ![t] = next[t]]
      BY <1>1, <1>2, <2>25 DEF EmitLost, Goto, RowsMatch
    <3>2. UNCHANGED <<steps, deliverable, pos, outcome>>
      BY <2>25 DEF EmitLost, db, memory
    <3> QED BY <1>1, <1>2, <3>1, <3>2 DEF Delivery, TypeOK
  <2>26. CASE TransactionFails(t)
    BY <1>1, <2>26 DEF TransactionFails, Fault, Abort, Forget, CanMove,
      Unread, Settled
  <2>27. CASE Enqueue(t)
    BY <1>1, <2>27 DEF Enqueue, process
  <2> QED BY <1>3, <2>1, <2>2, <2>3, <2>4, <2>5, <2>6, <2>7, <2>8, <2>9,
    <2>10, <2>11, <2>12, <2>13, <2>14, <2>15, <2>16, <2>17, <2>18, <2>19,
    <2>20, <2>21, <2>22, <2>23, <2>24, <2>25, <2>26, <2>27 DEF TaskStep,
    TaskFault
<1>4. ASSUME NEW u \in Clients, Request(u) \/ HandlerStep(u) \/ HandlerFails(u)
      PROVE Delivery'
  <2>1. CASE WakeUp(u)
    BY <1>1, <2>1 DEF WakeUp, Reply, Submit, db, Goto
  <2>2. CASE ResumeMark(u)
    BY <1>1, <2>2 DEF ResumeMark, Reply, MarkOrphans, memory, Steps
  <2>3. CASE ResumeDispatch(u)
    BY <1>1, <2>3 DEF ResumeDispatch, Reply, Submit, db, Goto
  <2>4. CASE DecideCall(u) \/ ResumeCall(u) \/ Decide(u) \/ DecideConflict(u)
    \/ Recount(u) \/ ResumeRead(u) \/ HandlerFails(u)
    BY <1>1, <2>4 DEF DecideCall, Reply, handlerOnly, db, memory, ResumeCall,
      Decide, DecideConflict, Recount, ResumeRead, HandlerFails, Fault
  <2> QED BY <1>4, <2>1, <2>2, <2>3, <2>4 DEF Request, HandlerStep
<1>5. CASE StartPipeline
  BY <1>1, <1>5 DEF StartPipeline, Submit, process, Goto
<1>6. CASE McpStatus
  BY <1>1, <1>6 DEF McpStatus, MarkOrphans, memory, process, Steps
<1>7. ASSUME NEW c \in Claims, McpDecide(c) PROVE Delivery'
  BY <1>1, <1>7 DEF McpDecide, Decisions, memory, process
<1>8. CASE Crash
  BY <1>1, <1>8 DEF Crash, Fault, Unread, db
<1>9. CASE Cancel
  BY <1>1, <1>9 DEF Cancel, db, memory
<1> QED BY <1>3, <1>4, <1>5, <1>6, <1>7, <1>8, <1>9 DEF Next

\* A run is on hold only at the gate (Pause of demo_executor.py 207-224).
LEMMA PausedAtTheGateKept ==
  ASSUME IInv, Next PROVE PausedAtTheGate'
<1> USE DEF TypeOK, PausedAtTheGate, HumanReview, Finalize
<1>1. TypeOK /\ PausedAtTheGate
  BY DEF IInv
<1>2. Executors /\ GateKept /\ StatusKnown /\ Delivery /\ RowsMatch
  BY DEF IInv
<1>3. ASSUME NEW t \in Tasks, TaskStep(t) \/ TaskFault(t) PROVE PausedAtTheGate'
  <2>1. CASE BeginRun(t)
    BY <1>1, <2>1 DEF BeginRun, Goto, SetStatus, process, CanMove, Settled
  <2>2. CASE Reload(t)
    BY <1>1, <2>2 DEF Reload, DoneSteps, Goto, MarkOrphans, NodeAfter,
      LastDone, process, Steps, Done
  <2>3. CASE Unpause(t)
    BY <1>1, <2>3 DEF Unpause, Goto, SetStatus, process, CanMove, Settled
  <2>4. CASE StopCancelled(t)
    BY <1>1, <2>4 DEF StopCancelled, Goto, SetStatus, process, CanMove,
      Settled
  <2>5. CASE Complete(t)
    BY <1>1, <2>5 DEF Complete, Goto, SetStatus, process, CanMove, Settled
  <2>6. CASE CreateStep(t)
    BY <1>1, <1>2, <2>6 DEF CreateStep, Goto, NodeBody, memory, process,
      Executors, Executing, SingleExecutor, Inside, Working, GateKept,
      BeforeGate, NothingQueued, Queued, NobodyDecides, Holding, Between,
      Deciding, StatusKnown, Delivery, RowsMatch, Steps, InNode
  <2>7. CASE RunNode(t)
    BY <1>1, <1>2, <2>7 DEF RunNode, Goto, Outcomes, process, Executors,
      Executing, SingleExecutor, Inside, Working, GateKept, BeforeGate,
      NothingQueued, Queued, NobodyDecides, Holding, Between, Deciding,
      StatusKnown, Delivery, RowsMatch, Steps, InNode
  <2>8. CASE Enqueue(t)
    BY <1>1, <2>8 DEF Enqueue, process
  <2>9. CASE PersistDeliverable(t)
    BY <1>1, <1>2, <2>9 DEF PersistDeliverable, Goto, process, Executors,
      Executing, SingleExecutor, Inside, Working, GateKept, BeforeGate,
      NothingQueued, Queued, NobodyDecides, Holding, Between, Deciding,
      StatusKnown, Delivery, RowsMatch, Steps, InNode
  <2>10. CASE WriteCheckpoint(t)
    BY <1>1, <1>2, <2>10 DEF WriteCheckpoint, Goto, AfterNode, process,
      Executors, Executing, SingleExecutor, Inside, Working, GateKept,
      BeforeGate, NothingQueued, Queued, NobodyDecides, Holding, Between,
      Deciding, StatusKnown, Delivery, RowsMatch, Steps, InNode
  <2>11. CASE Pause(t)
    BY <1>1, <1>2, <2>11 DEF Pause, Goto, SetStatus, process, CanMove,
      Settled, Executors, Executing, SingleExecutor, Inside, Working,
      GateKept, BeforeGate, NothingQueued, Queued, NobodyDecides, Holding,
      Between, Deciding, StatusKnown, Delivery, RowsMatch, Steps, InNode
  <2>12. CASE StopFailed(t)
    BY <1>1, <2>12 DEF StopFailed, Goto, SetStatus, process, CanMove, Settled
  <2>13. CASE StepExists(t)
    BY <1>1, <2>13 DEF StepExists, Abort, Forget, CanMove, Unread, Settled
  <2>14. CASE TransactionFails(t)
    BY <1>1, <2>14 DEF TransactionFails, Fault, Abort, Forget, CanMove,
      Unread, Settled
  <2>15. CASE Enter(t) \/ Refuse(t) \/ CannotResume(t) \/ Enrich(t) \/
    NotCancelled(t) \/ ReviewStart(t) \/ CountPending(t) \/ Emit(t) \/ Exit(t)
    \/ EnrichFails(t) \/ ClaimsNotPersisted(t) \/ NodeFails(t) \/ EmitLost(t)
    BY <1>1, <2>15 DEF Enter, Goto, db, memory, Refuse, Forget, process,
      CannotResume, Enrich, NotCancelled, ReviewStart, CountPending, Emit,
      Exit, EnrichFails, Fault, ClaimsNotPersisted, NodeFails, EmitLost
  <2> QED BY <1>3, <2>1, <2>2, <2>3, <2>4, <2>5, <2>6, <2>7, <2>8, <2>9,
    <2>10, <2>11, <2>12, <2>13, <2>14, <2>15 DEF TaskStep, TaskFault
<1>4. ASSUME NEW u \in Clients, Request(u) \/ HandlerStep(u) \/ HandlerFails(u)
      PROVE PausedAtTheGate'
  <2>1. CASE Decide(u)
    BY <1>1, <2>1 DEF Decide, Reply, Decisions, memory
  <2>2. CASE ResumeMark(u)
    BY <1>1, <2>2 DEF ResumeMark, Reply, MarkOrphans, memory, Steps
  <2>3. CASE DecideCall(u) \/ ResumeCall(u) \/ DecideConflict(u) \/ Recount(u)
    \/ WakeUp(u) \/ ResumeRead(u) \/ ResumeDispatch(u) \/ HandlerFails(u)
    BY <1>1, <2>3 DEF DecideCall, Reply, handlerOnly, db, memory, ResumeCall,
      DecideConflict, Recount, WakeUp, Submit, Goto, ResumeRead,
      ResumeDispatch, HandlerFails, Fault
  <2> QED BY <1>4, <2>1, <2>2, <2>3 DEF Request, HandlerStep
<1>5. CASE StartPipeline
  BY <1>1, <1>5 DEF StartPipeline, Submit, process, Goto
<1>6. CASE McpStatus
  BY <1>1, <1>6 DEF McpStatus, MarkOrphans, memory, process, Steps
<1>7. ASSUME NEW c \in Claims, McpDecide(c) PROVE PausedAtTheGate'
  BY <1>1, <1>7 DEF McpDecide, Decisions, memory, process
<1>8. CASE Cancel \/ Crash
  BY <1>1, <1>8 DEF Cancel, db, memory, Crash, Fault
<1> QED BY <1>3, <1>4, <1>5, <1>6, <1>7, <1>8 DEF Next

\* A task woken by the last decision has no pending item ahead of it.
LEMMA WokenWhenDecidedKept ==
  ASSUME IInv, Next PROVE WokenWhenDecided'
<1> USE DEF TypeOK, WokenWhenDecided, Pending
<1>1. TypeOK /\ WokenWhenDecided
  BY DEF IInv
<1>2. HandlersKnow /\ GateKept /\ Executors
  BY DEF IInv
<1>3. ASSUME NEW t \in Tasks, TaskStep(t) \/ TaskFault(t) PROVE WokenWhenDecided'
  <2>1. CASE Enter(t)
    BY <1>1, <2>1 DEF Enter, LoopFree, Goto, db, memory
  <2>2. CASE Refuse(t)
    BY <1>1, <2>2 DEF Refuse, LoopFree, Forget, db, process, Unread
  <2>3. CASE BeginRun(t)
    BY <1>1, <2>3 DEF BeginRun, Goto, SetStatus, process, CanMove, Settled
  <2>4. CASE Reload(t)
    BY <1>1, <2>4 DEF Reload, DoneSteps, Goto, MarkOrphans, NodeAfter,
      LastDone, process, Steps, Done, Finalize
  <2>5. CASE CannotResume(t)
    BY <1>1, <2>5 DEF CannotResume, Goto, db, memory, process
  <2>6. CASE Unpause(t)
    BY <1>1, <2>6 DEF Unpause, Goto, SetStatus, process, CanMove, Settled
  <2>7. CASE Enrich(t)
    BY <1>1, <2>7 DEF Enrich, Goto, AfterEnrich, Decided, db, process,
      Finalize, Decisions
  <2>8. CASE StopCancelled(t)
    BY <1>1, <2>8 DEF StopCancelled, Finalize, Goto, SetStatus, process,
      CanMove, Settled
  <2>9. CASE NotCancelled(t)
    BY <1>1, <2>9 DEF NotCancelled, Finalize, Goto, db, memory, process
  <2>10. CASE Complete(t)
    BY <1>1, <2>10 DEF Complete, Finalize, Goto, SetStatus, process, CanMove,
      Settled
  <2>11. CASE CreateStep(t)
    BY <1>1, <2>11 DEF CreateStep, Goto, NodeBody, memory, process, Finalize,
      HumanReview
  <2>12. CASE RunNode(t)
    BY <1>1, <2>12 DEF RunNode, Goto, Outcomes, process
  <2>13. CASE ReviewStart(t)
    BY <1>1, <2>13 DEF ReviewStart, Goto, db, process
  <2>14. CASE Enqueue(t)
    BY <1>1, <1>2, <2>14 DEF Enqueue, process, HandlersKnow, NothingQueued,
      NobodyDecides, Queued, Deciding, GateKept, BeforeGate, HumanReview,
      Holding, Finalize, Between, Executors, Executing, SingleExecutor,
      Inside, Working
  <2>15. CASE CountPending(t)
    BY <1>1, <2>15 DEF CountPending, Goto, db, process
  <2>16. CASE PersistDeliverable(t)
    BY <1>1, <2>16 DEF PersistDeliverable, Goto, process
  <2>17. CASE WriteCheckpoint(t)
    BY <1>1, <2>17 DEF WriteCheckpoint, Goto, AfterNode, process
  <2>18. CASE Pause(t)
    BY <1>1, <2>18 DEF Pause, Goto, SetStatus, process, CanMove, Settled
  <2>19. CASE StopFailed(t)
    BY <1>1, <2>19 DEF StopFailed, Goto, SetStatus, process, CanMove, Settled
  <2>20. CASE Emit(t)
    BY <1>1, <2>20 DEF Emit, Goto, db, memory, process
  <2>21. CASE Exit(t)
    BY <1>1, <2>21 DEF Exit, Forget, db, Unread
  <2>22. CASE StepExists(t)
    BY <1>1, <2>22 DEF StepExists, Abort, Forget, CanMove, Unread, Settled
  <2>23. CASE EnrichFails(t)
    BY <1>1, <2>23 DEF EnrichFails, Goto, AfterEnrich, Fault, db, memory,
      Finalize
  <2>24. CASE ClaimsNotPersisted(t)
    BY <1>1, <2>24 DEF ClaimsNotPersisted, Goto, Fault, db
  <2>25. CASE NodeFails(t)
    BY <1>1, <2>25 DEF NodeFails, Fault, db
  <2>26. CASE EmitLost(t)
    BY <1>1, <2>26 DEF EmitLost, Goto, Fault
  <2>27. CASE TransactionFails(t)
    BY <1>1, <2>27 DEF TransactionFails, Finalize, Fault, Abort, Forget,
      CanMove, Unread, Settled
  <2> QED BY <1>3, <2>1, <2>2, <2>3, <2>4, <2>5, <2>6, <2>7, <2>8, <2>9,
    <2>10, <2>11, <2>12, <2>13, <2>14, <2>15, <2>16, <2>17, <2>18, <2>19,
    <2>20, <2>21, <2>22, <2>23, <2>24, <2>25, <2>26, <2>27 DEF TaskStep,
    TaskFault
<1>4. ASSUME NEW u \in Clients, Request(u) \/ HandlerStep(u) \/ HandlerFails(u)
      PROVE WokenWhenDecided'
  <2>1. CASE Decide(u)
    BY <1>1, <2>1 DEF Decide, Reply, Decisions, memory
  <2>2. CASE WakeUp(u)
    BY <1>1, <1>2, <2>2 DEF WakeUp, Reply, Submit, db, Goto, HandlersKnow,
      NothingQueued, NobodyDecides, Queued, Deciding, GateKept, BeforeGate,
      HumanReview, Holding, Finalize, Between, Executors, Executing,
      SingleExecutor, Inside, Working
  <2>3. CASE ResumeDispatch(u)
    BY <1>1, <2>3 DEF ResumeDispatch, Reply, Submit, db, Goto
  <2>4. CASE DecideCall(u) \/ ResumeCall(u) \/ DecideConflict(u) \/ Recount(u)
    \/ ResumeRead(u) \/ ResumeMark(u) \/ HandlerFails(u)
    BY <1>1, <2>4 DEF DecideCall, Reply, handlerOnly, db, memory, ResumeCall,
      DecideConflict, Recount, ResumeRead, ResumeMark, MarkOrphans,
      HandlerFails, Fault
  <2> QED BY <1>4, <2>1, <2>2, <2>3, <2>4 DEF Request, HandlerStep
<1>5. CASE StartPipeline
  BY <1>1, <1>5 DEF StartPipeline, Submit, process, Goto
<1>6. ASSUME NEW c \in Claims, McpDecide(c) PROVE WokenWhenDecided'
  BY <1>1, <1>6 DEF McpDecide, Decisions, memory, process
<1>7. CASE Crash
  BY <1>1, <1>7 DEF Crash, Fault, Unread, db
<1>8. CASE Cancel \/ McpStatus
  BY <1>1, <1>8 DEF Cancel, db, memory, McpStatus, MarkOrphans, process
<1> QED BY <1>3, <1>4, <1>5, <1>6, <1>7, <1>8 DEF Next

\* The stored report agrees with the decisions of the queue.
LEMMA DeliverableFaithfulKept ==
  ASSUME IInv, Next PROVE DeliverableFaithful'
<1> USE DEF TypeOK, DeliverableFaithful
<1>1. TypeOK /\ DeliverableFaithful
  BY DEF IInv
<1>2. SeenFaithful /\ GateKept
  BY DEF IInv
<1>3. ASSUME NEW t \in Tasks, TaskStep(t) \/ TaskFault(t) PROVE DeliverableFaithful'
  <2>1. CASE Enqueue(t)
    <3>1. PICK c \in todo[t] : items' = [items EXCEPT ![c] = "pending"]
      BY <2>1 DEF Enqueue
    <3>2. c \in Claims /\ items[c] = "absent"
      BY <1>1, <1>2, <2>1, <3>1 DEF TypeOK, Enqueue, GateKept, Queued
    <3>3. \A report \in deliverable : report[c] \in Decisions \cup {"none"}
      BY <1>1, <1>2, <3>2 DEF TypeOK, Reports
    <3>4. \A report \in deliverable : report[c] = "none"
      BY <1>1, <1>2, <3>2, <3>3 DEF DeliverableFaithful, Decisions
    <3>5. UNCHANGED deliverable
      BY <2>1 DEF Enqueue
    <3> QED BY <1>1, <1>2, <3>1, <3>2, <3>4, <3>5 DEF DeliverableFaithful, TypeOK
  <2>2. CASE PersistDeliverable(t)
    BY <1>1, <1>2, <2>2 DEF PersistDeliverable, Goto, process, SeenFaithful,
      GateKept, BeforeGate, NothingQueued, Queued, NobodyDecides, HumanReview,
      Holding, Finalize, Between, Deciding, Decisions
  <2>3. CASE Enter(t) \/ Refuse(t) \/ BeginRun(t) \/ Reload(t) \/
    CannotResume(t) \/ Unpause(t) \/ Enrich(t) \/ StopCancelled(t) \/
    NotCancelled(t) \/ Complete(t) \/ CreateStep(t) \/ RunNode(t) \/
    ReviewStart(t) \/ CountPending(t) \/ WriteCheckpoint(t) \/ Pause(t) \/
    StopFailed(t) \/ Emit(t) \/ Exit(t) \/ StepExists(t) \/ EnrichFails(t) \/
    ClaimsNotPersisted(t) \/ NodeFails(t) \/ EmitLost(t) \/
    TransactionFails(t)
    BY <1>1, <2>3 DEF Enter, Goto, db, memory, Refuse, Forget, process,
      BeginRun, SetStatus, Reload, MarkOrphans, CannotResume, Unpause, Enrich,
      StopCancelled, NotCancelled, Complete, CreateStep, RunNode, ReviewStart,
      CountPending, WriteCheckpoint, Pause, StopFailed, Emit, Exit,
      StepExists, Abort, EnrichFails, Fault, ClaimsNotPersisted, NodeFails,
      EmitLost, TransactionFails
  <2> QED BY <1>3, <2>1, <2>2, <2>3 DEF TaskStep, TaskFault
<1>4. ASSUME NEW u \in Clients, Request(u) \/ HandlerStep(u) \/ HandlerFails(u)
      PROVE DeliverableFaithful'
  <2>1. CASE Decide(u)
    <3>1. \A d \in Claims : items'[d] = items[d] \/ items[d] = "pending"
      BY <1>1, <1>2, <2>1 DEF Decide, TypeOK
    <3>2. \A report \in deliverable, d \in Claims : report[d] # "pending"
      <4>1. \A report \in deliverable, d \in Claims : report[d] \in Decisions \cup {"none"}
        BY <1>1, <1>2 DEF TypeOK, Reports
      <4> QED BY <4>1 DEF Decisions
    <3> QED BY <1>1, <1>2, <2>1, <3>1, <3>2 DEF Decide, DeliverableFaithful
  <2>2. CASE DecideCall(u) \/ ResumeCall(u) \/ DecideConflict(u) \/ Recount(u)
    \/ WakeUp(u) \/ ResumeRead(u) \/ ResumeMark(u) \/ ResumeDispatch(u) \/
    HandlerFails(u)
    BY <1>1, <2>2 DEF DecideCall, Reply, handlerOnly, db, memory, ResumeCall,
      DecideConflict, Recount, WakeUp, Submit, Goto, ResumeRead, ResumeMark,
      MarkOrphans, ResumeDispatch, HandlerFails, Fault
  <2> QED BY <1>4, <2>1, <2>2 DEF Request, HandlerStep
<1>5. ASSUME NEW c \in Claims, McpDecide(c) PROVE DeliverableFaithful'
  <2>1. \A d \in Claims : items'[d] = items[d] \/ items[d] = "pending"
    BY <1>1, <1>2, <1>5 DEF McpDecide, TypeOK
  <2>2. \A report \in deliverable, d \in Claims : report[d] # "pending"
    <3>1. \A report \in deliverable, d \in Claims : report[d] \in Decisions \cup {"none"}
      BY <1>1, <1>2 DEF TypeOK, Reports
    <3> QED BY <3>1 DEF Decisions
  <2> QED BY <1>1, <1>2, <1>5, <2>1, <2>2 DEF McpDecide, DeliverableFaithful
<1>6. CASE StartPipeline \/ Cancel \/ McpStatus \/ Crash
  BY <1>1, <1>6 DEF StartPipeline, process, Goto, Cancel, db, memory,
    McpStatus, MarkOrphans, Crash, Fault
<1> QED BY <1>3, <1>4, <1>5, <1>6 DEF Next

\* One step is in progress, and it is the last one that exists.
LEMMA OneStepInProgressKept ==
  ASSUME IInv, Next PROVE OneStepInProgress'
<1> USE DEF TypeOK, OneStepInProgress, Steps, Finalize
<1>1. TypeOK /\ OneStepInProgress
  BY DEF IInv
<1>2. RowsMatch
  BY DEF IInv
<1>3. ASSUME NEW t \in Tasks, TaskStep(t) \/ TaskFault(t) PROVE OneStepInProgress'
  <2>1. CASE Reload(t)
    BY <1>1, <2>1 DEF Reload, DoneSteps, Goto, MarkOrphans, NodeAfter,
      LastDone, process, Done
  <2>2. CASE CreateStep(t)
    BY <1>1, <1>2, <2>2 DEF CreateStep, Goto, NodeBody, memory, process,
      HumanReview, RowsMatch, Between, InNode
  <2>3. CASE WriteCheckpoint(t)
    BY <1>1, <1>2, <2>3 DEF WriteCheckpoint, Goto, AfterNode, process,
      RowsMatch, Between, InNode, HumanReview
  <2>4. CASE Enter(t) \/ Refuse(t) \/ BeginRun(t) \/ CannotResume(t) \/
    Unpause(t) \/ Enrich(t) \/ StopCancelled(t) \/ NotCancelled(t) \/
    Complete(t) \/ RunNode(t) \/ ReviewStart(t) \/ Enqueue(t) \/
    CountPending(t) \/ PersistDeliverable(t) \/ Pause(t) \/ StopFailed(t) \/
    Emit(t) \/ Exit(t) \/ StepExists(t) \/ EnrichFails(t) \/
    ClaimsNotPersisted(t) \/ NodeFails(t) \/ EmitLost(t) \/
    TransactionFails(t)
    BY <1>1, <2>4 DEF Enter, Goto, db, memory, Refuse, Forget, process,
      BeginRun, SetStatus, CannotResume, Unpause, Enrich, StopCancelled,
      NotCancelled, Complete, RunNode, ReviewStart, Enqueue, CountPending,
      PersistDeliverable, Pause, StopFailed, Emit, Exit, StepExists, Abort,
      EnrichFails, Fault, ClaimsNotPersisted, NodeFails, EmitLost,
      TransactionFails
  <2> QED BY <1>3, <2>1, <2>2, <2>3, <2>4 DEF TaskStep, TaskFault
<1>4. ASSUME NEW u \in Clients, Request(u) \/ HandlerStep(u) \/ HandlerFails(u)
      PROVE OneStepInProgress'
  <2>1. CASE ResumeMark(u)
    BY <1>1, <2>1 DEF ResumeMark, Reply, MarkOrphans, memory
  <2>2. CASE DecideCall(u) \/ ResumeCall(u) \/ Decide(u) \/ DecideConflict(u)
    \/ Recount(u) \/ WakeUp(u) \/ ResumeRead(u) \/ ResumeDispatch(u) \/
    HandlerFails(u)
    BY <1>1, <2>2 DEF DecideCall, Reply, handlerOnly, db, memory, ResumeCall,
      Decide, DecideConflict, Recount, WakeUp, Submit, Goto, ResumeRead,
      ResumeDispatch, HandlerFails, Fault
  <2> QED BY <1>4, <2>1, <2>2 DEF Request, HandlerStep
<1>5. CASE McpStatus
  BY <1>1, <1>5 DEF McpStatus, MarkOrphans, memory, process
<1>6. ASSUME NEW c \in Claims, McpDecide(c) PROVE OneStepInProgress'
  BY <1>1, <1>6 DEF McpDecide, Decisions, memory, process
<1>7. CASE StartPipeline \/ Cancel \/ Crash
  BY <1>1, <1>7 DEF StartPipeline, process, Goto, Cancel, db, memory, Crash,
    Fault
<1> QED BY <1>3, <1>4, <1>5, <1>6, <1>7 DEF Next

\* A completed finalize step has its deliverable.
LEMMA FinalizedHasDeliverableKept ==
  ASSUME IInv, Next PROVE FinalizedHasDeliverable'
<1> USE DEF TypeOK, FinalizedHasDeliverable, Finalize
<1>1. TypeOK /\ FinalizedHasDeliverable
  BY DEF IInv
<1>2. Delivery /\ RowsMatch
  BY DEF IInv
<1>3. ASSUME NEW t \in Tasks, TaskStep(t) \/ TaskFault(t) PROVE FinalizedHasDeliverable'
  <2>1. CASE Reload(t)
    BY <1>1, <2>1 DEF Reload, DoneSteps, Goto, MarkOrphans, NodeAfter,
      LastDone, process, Steps, Done
  <2>2. CASE CreateStep(t)
    BY <1>1, <2>2 DEF CreateStep, Goto, NodeBody, memory, process, HumanReview
  <2>3. CASE PersistDeliverable(t)
    BY <1>1, <2>3 DEF PersistDeliverable, Goto, process
  <2>4. CASE WriteCheckpoint(t)
    <3>1. steps'[Finalize] = "completed" /\ steps[Finalize] # "completed"
          => pos[t] = Finalize /\ outcome[t] # "transient"
      BY <1>1, <1>2, <2>4 DEF WriteCheckpoint, Goto, TypeOK, Steps, Finalize
    <3>2. pc[t] = "checkpoint" /\ UNCHANGED deliverable
      BY <2>4 DEF WriteCheckpoint, Goto
    <3> QED BY <1>1, <1>2, <3>1, <3>2 DEF FinalizedHasDeliverable, Delivery
  <2>5. CASE Enter(t) \/ Refuse(t) \/ BeginRun(t) \/ CannotResume(t) \/
    Unpause(t) \/ Enrich(t) \/ StopCancelled(t) \/ NotCancelled(t) \/
    Complete(t) \/ RunNode(t) \/ ReviewStart(t) \/ Enqueue(t) \/
    CountPending(t) \/ Pause(t) \/ StopFailed(t) \/ Emit(t) \/ Exit(t) \/
    StepExists(t) \/ EnrichFails(t) \/ ClaimsNotPersisted(t) \/ NodeFails(t)
    \/ EmitLost(t) \/ TransactionFails(t)
    BY <1>1, <2>5 DEF Enter, Goto, db, memory, Refuse, Forget, process,
      BeginRun, SetStatus, CannotResume, Unpause, Enrich, StopCancelled,
      NotCancelled, Complete, RunNode, ReviewStart, Enqueue, CountPending,
      Pause, StopFailed, Emit, Exit, StepExists, Abort, EnrichFails, Fault,
      ClaimsNotPersisted, NodeFails, EmitLost, TransactionFails
  <2> QED BY <1>3, <2>1, <2>2, <2>3, <2>4, <2>5 DEF TaskStep, TaskFault
<1>4. ASSUME NEW u \in Clients, Request(u) \/ HandlerStep(u) \/ HandlerFails(u)
      PROVE FinalizedHasDeliverable'
  <2>1. CASE ResumeMark(u)
    BY <1>1, <2>1 DEF ResumeMark, Reply, MarkOrphans, memory, Steps
  <2>2. CASE DecideCall(u) \/ ResumeCall(u) \/ Decide(u) \/ DecideConflict(u)
    \/ Recount(u) \/ WakeUp(u) \/ ResumeRead(u) \/ ResumeDispatch(u) \/
    HandlerFails(u)
    BY <1>1, <2>2 DEF DecideCall, Reply, handlerOnly, db, memory, ResumeCall,
      Decide, DecideConflict, Recount, WakeUp, Submit, Goto, ResumeRead,
      ResumeDispatch, HandlerFails, Fault
  <2> QED BY <1>4, <2>1, <2>2 DEF Request, HandlerStep
<1>5. CASE McpStatus
  BY <1>1, <1>5 DEF McpStatus, MarkOrphans, memory, process, Steps
<1>6. ASSUME NEW c \in Claims, McpDecide(c) PROVE FinalizedHasDeliverable'
  BY <1>1, <1>6 DEF McpDecide, Decisions, memory, process
<1>7. CASE StartPipeline \/ Cancel \/ Crash
  BY <1>1, <1>7 DEF StartPipeline, process, Goto, Cancel, db, memory, Crash,
    Fault
<1> QED BY <1>3, <1>4, <1>5, <1>6, <1>7 DEF Next

\* The invariant holds before a run is started.
LEMMA InitInv == Init => IInv
<1> SUFFICES ASSUME Init PROVE IInv
  OBVIOUS
<1>1. TypeOK
  <2>1. Unread \in Reports /\ 1 \in 1 .. Finalize + 1
    BY DEF Unread, Reports, Finalize
  <2>2. steps \in [Steps -> RowStates] /\ savedGap \in [Steps -> BOOLEAN]
    BY DEF Init, RowStates
  <2>3. /\ pc \in [Tasks -> TaskPCs] /\ kind \in [Tasks -> Kinds]
        /\ next \in [Tasks -> Working \cup {"exit"}]
        /\ outcome \in [Tasks -> Outcomes]
    BY DEF Init, TaskPCs, Kinds, Outcomes
  <2>4. client \in [Clients -> ClientPCs] /\ items \in [Claims -> ItemStates]
    BY DEF Init, ClientPCs, ItemStates
  <2>5. deliverable \in SUBSET Reports /\ status \in Statuses /\ faults \in 0 .. MaxFaults
    BY DEF Init, Statuses
  <2> QED BY <2>1, <2>2, <2>3, <2>4, <2>5 DEF Init, TypeOK
<1>2. Executors /\ StartedOnce /\ StatusKnown
  BY DEF Init, Executors, SingleExecutor, Executing, Inside, Working, StartedOnce,
    NothingQueued, Queued, StatusKnown
<1>3. RowsMatch /\ GateKept /\ BeforeTheGate
  BY DEF Init, RowsMatch, Between, InNode, GateKept, BeforeGate, Holding,
    BeforeTheGate
<1>4. HandlersKnow /\ Delivery
  BY DEF Init, HandlersKnow, NothingQueued, NobodyDecides, Deciding, Queued, Pending,
    Delivery
<1>5. SeenFaithful
  BY DEF Init, SeenFaithful, Unread
<1>6. PausedAtTheGate /\ WokenWhenDecided /\ DeliverableFaithful
  BY DEF Init, PausedAtTheGate, WokenWhenDecided, DeliverableFaithful
<1>7. OneStepInProgress /\ FinalizedHasDeliverable
  BY DEF Init, OneStepInProgress, FinalizedHasDeliverable, Steps, Finalize
<1> QED BY <1>1, <1>2, <1>3, <1>4, <1>5, <1>6, <1>7 DEF IInv

\* The invariant depends on the variables of the specification only.
LEMMA StutterInv == IInv /\ UNCHANGED vars => IInv'
<1> SUFFICES ASSUME IInv, UNCHANGED vars PROVE IInv'
  OBVIOUS
<1> USE DEF IInv, vars, db, memory, process
<1>1. TypeOK' /\ Executors' /\ StartedOnce'
  BY DEF TypeOK, Executors, SingleExecutor, Executing, StartedOnce, NothingQueued, Queued
<1>2. StatusKnown' /\ RowsMatch' /\ GateKept'
  BY DEF StatusKnown, RowsMatch, Between, InNode, GateKept, BeforeGate, Holding,
    NothingQueued, Queued, NobodyDecides, Deciding
<1>3. BeforeTheGate' /\ HandlersKnow' /\ SeenFaithful' /\ Delivery'
  BY DEF BeforeTheGate, Executing, HandlersKnow, NothingQueued, Queued, NobodyDecides,
    Deciding, Pending, SeenFaithful, Delivery
<1>4. PausedAtTheGate' /\ WokenWhenDecided' /\ DeliverableFaithful'
  BY DEF PausedAtTheGate, WokenWhenDecided, Pending, DeliverableFaithful
<1>5. OneStepInProgress' /\ FinalizedHasDeliverable'
  BY DEF OneStepInProgress, FinalizedHasDeliverable
<1> QED BY <1>1, <1>2, <1>3, <1>4, <1>5

\* No step of the executor, the handlers, the MCP server or a crash leads out
\* of the invariant.
LEMMA StepInv == IInv /\ [Next]_vars => IInv'
<1>1. ASSUME IInv, Next PROVE IInv'
  BY <1>1, TypeOKKept, ExecutorsKept, StartedOnceKept, StatusKnownKept,
    RowsMatchKept, GateKeptKept, BeforeTheGateKept, HandlersKnowKept,
    SeenFaithfulKept, DeliveryKept, PausedAtTheGateKept, WokenWhenDecidedKept,
    DeliverableFaithfulKept, OneStepInProgressKept,
    FinalizedHasDeliverableKept DEF IInv
<1> QED BY <1>1, StutterInv

\* The inductive invariant holds in every reachable state.
THEOREM Invariance == Spec => []IInv
<1> QED BY InitInv, StepInv, PTL DEF Spec
-----------------------------------------------------------------------------
(* The properties *)

\* The status of the run where a task is about to change it or to store the
\* deliverable.
LEMMA StatusAt ==
  ASSUME IInv, NEW t \in Tasks
  PROVE  /\ pc[t] = "begin" => status = "pending"
         /\ pc[t] = "unpause" => status = "paused"
         /\ pc[t] \in {"loop", "pause", "fail", "persist"} => status = "running"
BY DEF IInv, StatusKnown, Executors, Working

\* The variables keep their types.
THEOREM TypesKept == Spec => []TypeOK
<1>1. IInv => TypeOK
  BY DEF IInv
<1> QED BY <1>1, Invariance, PTL

\* At most one background task executes the run (_active_runs).
THEOREM OneExecutor == Spec => []SingleExecutor
<1>1. IInv => SingleExecutor
  BY DEF IInv, Executors
<1> QED BY <1>1, Invariance, PTL

\* The status trigger of migration 016 accepts every update the executor
\* makes.
THEOREM UpdatesAccepted == Spec => []StatusUpdatesAccepted
<1>1. IInv => StatusUpdatesAccepted
  <2> SUFFICES ASSUME IInv, NEW t \in Tasks PROVE CanMove(status, TargetStatus(t))
    BY DEF StatusUpdatesAccepted
  <2> QED BY StatusAt DEF CanMove, TargetStatus, Settled
<1> QED BY <1>1, Invariance, PTL

\* A settled run has no task left that could still write.
THEOREM SettledStaysQuiet == Spec => []SettledIsQuiet
<1>1. IInv => SettledIsQuiet
  BY DEF IInv, StatusKnown, Executors, SettledIsQuiet, Settled, Working
<1> QED BY <1>1, Invariance, PTL

\* A paused run stands at the gate, with every escalated claim queued.
THEOREM HeldAtTheGate == Spec => []PausedAtTheGate
<1>1. IInv => PausedAtTheGate
  BY DEF IInv
<1> QED BY <1>1, Invariance, PTL

\* The last decision wakes the run only when nothing is pending.
THEOREM WokenDecided == Spec => []WokenWhenDecided
<1>1. IInv => WokenWhenDecided
  BY DEF IInv
<1> QED BY <1>1, Invariance, PTL

\* The deliverable shows no decision the queue does not record.
THEOREM ReportFaithful == Spec => []DeliverableFaithful
<1>1. IInv => DeliverableFaithful
  BY DEF IInv
<1> QED BY <1>1, Invariance, PTL

\* One step at a time is in progress, the last one that exists.
THEOREM OneStep == Spec => []OneStepInProgress
<1>1. IInv => OneStepInProgress
  BY DEF IInv
<1> QED BY <1>1, Invariance, PTL

\* A completed finalize step has stored its deliverable.
THEOREM FinalizedDelivered == Spec => []FinalizedHasDeliverable
<1>1. IInv => FinalizedHasDeliverable
  BY DEF IInv
<1> QED BY <1>1, Invariance, PTL

\* Every accepted resume finds the checkpoint of human_review.
THEOREM ResumedAtTheGate == Spec => []ResumesAtTheGate
<1>1. IInv => ResumesAtTheGate
  BY ResumeAtTheGate
<1> QED BY <1>1, Invariance, PTL

\* A step of the system leaves every durable checkpoint as it is: rows are only
\* written by the task whose step is in progress, and the orphan clean-up
\* touches running rows only.
LEMMA CheckpointStep ==
  ASSUME IInv, Next
  PROVE  \A s \in Steps : steps[s] \in Done => steps'[s] = steps[s]
<1> DEFINE Goal == \A s \in Steps : steps[s] \in Done => steps'[s] = steps[s]
<1>1. TypeOK BY DEF IInv
<1>2. ASSUME MarkOrphans PROVE Goal
  BY <1>1, <1>2 DEF MarkOrphans, Done
<1>3. ASSUME NEW t \in Tasks, TaskStep(t) \/ TaskFault(t) PROVE Goal
  <2>1. CASE Reload(t)
    BY <1>2, <2>1 DEF Reload
  <2>2. CASE CreateStep(t)
    BY <1>1, <2>2 DEF CreateStep, TypeOK, Done
  <2>3. CASE WriteCheckpoint(t)
    <3>1. pos[t] \in Steps /\ steps[pos[t]] \notin Done
      BY <2>3 DEF IInv, RowsMatch, InNode, WriteCheckpoint, Goto, Done
    <3> QED BY <1>1, <2>3, <3>1 DEF WriteCheckpoint, TypeOK
  <2>4. CASE Enter(t) \/ Refuse(t) \/ BeginRun(t) \/ CannotResume(t) \/
    Unpause(t) \/ Enrich(t) \/ StopCancelled(t) \/ NotCancelled(t) \/
    Complete(t) \/ RunNode(t) \/ ReviewStart(t) \/ Enqueue(t) \/
    CountPending(t) \/ PersistDeliverable(t) \/ Pause(t) \/ StopFailed(t) \/
    Emit(t) \/ Exit(t) \/ StepExists(t) \/ EnrichFails(t) \/
    ClaimsNotPersisted(t) \/ NodeFails(t) \/ EmitLost(t) \/
    TransactionFails(t)
    BY <2>4 DEF Enter, db, memory, Refuse, process, BeginRun, CannotResume,
      Unpause, Enrich, StopCancelled, NotCancelled, Complete, RunNode,
      ReviewStart, Enqueue, CountPending, PersistDeliverable, Pause,
      StopFailed, Emit, Exit, StepExists, Abort, EnrichFails,
      ClaimsNotPersisted, NodeFails, EmitLost, TransactionFails
  <2> QED BY <1>3, <2>1, <2>2, <2>3, <2>4 DEF TaskStep, TaskFault
<1>4. ASSUME NEW u \in Clients, Request(u) \/ HandlerStep(u) \/ HandlerFails(u)
      PROVE Goal
  <2>1. CASE ResumeMark(u)
    BY <1>2, <2>1 DEF ResumeMark
  <2>2. CASE DecideCall(u) \/ ResumeCall(u) \/ Decide(u) \/ DecideConflict(u)
    \/ Recount(u) \/ WakeUp(u) \/ ResumeRead(u) \/ ResumeDispatch(u) \/
    HandlerFails(u)
    BY <2>2 DEF DecideCall, handlerOnly, db, memory, ResumeCall, Decide,
      DecideConflict, Recount, WakeUp, ResumeRead, ResumeDispatch,
      HandlerFails
  <2> QED BY <1>4, <2>1, <2>2 DEF Request, HandlerStep
<1>5. CASE StartPipeline
  BY <1>5 DEF StartPipeline
<1>6. CASE McpStatus
  BY <1>2, <1>6 DEF McpStatus
<1>7. ASSUME NEW c \in Claims, McpDecide(c) PROVE Goal
  BY <1>7 DEF McpDecide
<1>8. CASE Cancel \/ Crash
  BY <1>8 DEF Cancel, Crash, db
<1> QED BY <1>3, <1>4, <1>5, <1>6, <1>7, <1>8 DEF Next

\* A durable checkpoint is never executed again and never loses its status.
THEOREM CheckpointsKept == Spec => CheckpointsAreFinal
<1>1. IInv /\ [Next]_vars =>
        [\A s \in Steps : steps[s] \in Done => steps'[s] = steps[s]]_vars
  BY CheckpointStep
<1> QED BY <1>1, Invariance, PTL DEF Spec, CheckpointsAreFinal

\* Seen through the status and the deliverable, a step of the system is a step
\* of RunContract or changes neither.
LEMMA ContractStep ==
  ASSUME IInv, Next
  PROVE  Contract!Next \/ UNCHANGED <<status, deliverable>>
<1> DEFINE Goal == Contract!Next \/ UNCHANGED <<status, deliverable>>
<1>1. TypeOK BY DEF IInv
<1>2. ASSUME NEW t \in Tasks, TaskStep(t) \/ TaskFault(t) PROVE Goal
  <2> USE DEF Goto, SetStatus, Contract!Next
  <2>1. CASE BeginRun(t)
    BY <2>1, StatusAt DEF BeginRun, Contract!Begin
  <2>2. CASE Unpause(t)
    BY <2>2, StatusAt DEF Unpause, Contract!Release
  <2>3. CASE Pause(t)
    <3>1. deliverable = {}
      BY <2>3 DEF IInv, GateKept, Holding, Delivery, Pause
    <3> QED BY <2>3, <3>1, StatusAt DEF Pause, Contract!Hold
  <2>4. CASE PersistDeliverable(t)
    <3>1. deliverable = {}
      BY <2>4 DEF IInv, Delivery, PersistDeliverable
    <3>2. seen[t] \in Reports
      BY <1>1 DEF TypeOK
    <3> QED BY <2>4, <3>1, <3>2, StatusAt DEF PersistDeliverable, Contract!Deliver
  <2>5. CASE StopCancelled(t) \/ Complete(t) \/ StopFailed(t)
    BY <2>5, StatusAt DEF StopCancelled, Complete, StopFailed, Contract!Settle,
      Contract!Settled
  <2>6. CASE StepExists(t) \/ TransactionFails(t)
    <3>1. status' # status => status = "running" /\ status' = "failed"
      BY <2>6 DEF StepExists, TransactionFails, Abort, CanMove, Settled
    <3> QED BY <2>6, <3>1 DEF StepExists, TransactionFails, Abort, Contract!Settle,
      Contract!Settled
  <2>7. CASE Enter(t) \/ Refuse(t) \/ Reload(t) \/ CannotResume(t) \/
    Enrich(t) \/ NotCancelled(t) \/ CreateStep(t) \/ RunNode(t) \/
    ReviewStart(t) \/ Enqueue(t) \/ CountPending(t) \/ WriteCheckpoint(t) \/
    Emit(t) \/ Exit(t) \/ EnrichFails(t) \/ ClaimsNotPersisted(t) \/
    NodeFails(t) \/ EmitLost(t)
    BY <2>7 DEF Enter, db, memory, Refuse, process, Reload, CannotResume,
      Enrich, NotCancelled, CreateStep, RunNode, ReviewStart, Enqueue,
      CountPending, WriteCheckpoint, Emit, Exit, EnrichFails,
      ClaimsNotPersisted, NodeFails, EmitLost
  <2> QED BY <1>2, <2>1, <2>2, <2>3, <2>4, <2>5, <2>6, <2>7 DEF TaskStep, TaskFault
<1>3. ASSUME NEW u \in Clients, Request(u) \/ HandlerStep(u) \/ HandlerFails(u)
      PROVE Goal
  <2>1. CASE DecideCall(u) \/ ResumeCall(u) \/ Decide(u) \/ DecideConflict(u)
    \/ Recount(u) \/ WakeUp(u) \/ ResumeRead(u) \/ ResumeMark(u) \/
    ResumeDispatch(u) \/ HandlerFails(u)
    BY <2>1 DEF DecideCall, handlerOnly, db, memory, ResumeCall, Decide,
      DecideConflict, Recount, WakeUp, ResumeRead, ResumeMark, ResumeDispatch,
      HandlerFails
  <2> QED BY <1>3, <2>1 DEF Request, HandlerStep
<1>4. CASE StartPipeline
  BY <1>4 DEF StartPipeline, Contract!Next, Contract!Register
<1>5. ASSUME NEW c \in Claims, McpDecide(c) PROVE Goal
  BY <1>5 DEF McpDecide
<1>6. CASE Cancel \/ McpStatus \/ Crash
  BY <1>6 DEF Cancel, McpStatus, Crash, db
<1> QED BY <1>2, <1>3, <1>4, <1>5, <1>6 DEF Next

\* The system implements RunContract, with the rows of runs and deliverables as
\* the refinement mapping.
THEOREM Refinement == Spec => KeepsContract
<1>1. Init => Contract!Init
  BY DEF Init, Contract!Init
<1>2. IInv /\ [Next]_vars => [Contract!Next]_<<status, deliverable>>
  BY ContractStep DEF vars, db
<1> QED BY <1>1, <1>2, Invariance, PTL DEF Spec, KeepsContract, Contract!Spec

-----------------------------------------------------------------------------
(* The run keeps the log of resumability and the ledger of decisions *)

\* Only the executing task can be in a node, so its step is all that is in progress.
LEMMA OneInProgress ==
  ASSUME IInv, NEW t \in Tasks, Executing(t)
  PROVE  InProgress = IF InNode(t) THEN {pos[t]} ELSE {}
<1>1. \A u \in Tasks : InNode(u) => u = t
  BY DEF IInv, Executors, SingleExecutor, Executing, Inside, Working, InNode
<1> QED BY <1>1 DEF InProgress, InNode

\* What is in progress changes only with the tasks that are in a node.
LEMMA InProgressKept ==
  ASSUME \A u \in Tasks : /\ InNode(u) <=> InNode(u)'
                          /\ InNode(u) => pos'[u] = pos[u]
  PROVE  InProgress' = InProgress
BY DEF InProgress, InNode

\* The steps done depend on the rows alone, and the orphan clean-up keeps them.
LEMMA DoneStepsKept ==
  /\ steps' = steps => DoneSteps' = DoneSteps
  /\ MarkOrphans => DoneSteps' = DoneSteps
BY DEF DoneSteps, MarkOrphans, Done

\* A node starts when none is in progress, after every step that is done.
LEMMA CreateStarts ==
  ASSUME IInv, NEW t \in Tasks, CreateStep(t)
  PROVE  Log!Start
<1>1. TypeOK /\ pc[t] = "create" /\ pos[t] \in Steps
  BY DEF IInv, RowsMatch, CreateStep, Goto
<1>2. InProgress = {}
  BY <1>1, OneInProgress DEF Executing, Inside, Working, InNode
<1>3. \A s \in DoneSteps : s < pos[t]
  <2>1. \A s \in pos[t] .. Finalize : steps[s] \notin Done
    BY <1>1 DEF IInv, RowsMatch, Between, Done
  <2> QED BY <1>1, <2>1, PrepAssumption DEF DoneSteps, Steps, Finalize
<1>4. InProgress' = {pos[t]}
  <2>1. \A u \in Tasks : u # t => ~InNode(u)
    BY <1>1 DEF IInv, Executors, SingleExecutor, Executing, Inside, Working, InNode
  <2>2. pc' = [pc EXCEPT ![t] = NodeBody(pos[t])] /\ pos' = pos
    BY DEF CreateStep, Goto, memory
  <2>3. \A u \in Tasks : InNode(u)' <=> u = t
    BY <1>1, <2>1, <2>2 DEF InNode, TypeOK, NodeBody
  <2> QED BY <2>2, <2>3 DEF InProgress, InNode
<1>5. DoneSteps' = DoneSteps
  BY <1>1 DEF CreateStep, DoneSteps, TypeOK, Done
<1> QED BY <1>1, <1>2, <1>3, <1>4, <1>5 DEF Log!Start, Log!Steps, Steps

\* The end of a node is a checkpoint of the step in progress, or a failure that
\* leaves none.
LEMMA CheckpointCommits ==
  ASSUME IInv, NEW t \in Tasks, WriteCheckpoint(t)
  PROVE  Log!Commit \/ Log!Fail
<1>1. /\ TypeOK /\ InNode(t) /\ Executing(t)
      /\ pos[t] \in Steps /\ steps[pos[t]] \notin Done
  BY DEF IInv, RowsMatch, InNode, WriteCheckpoint, Goto, Executing, Inside, Working, Done
<1>2. InProgress = {pos[t]}
  BY <1>1, OneInProgress
<1>3. InProgress' = {}
  <2>1. \A u \in Tasks : u # t => ~InNode(u)
    BY <1>1 DEF IInv, Executors, SingleExecutor, Executing, Inside, Working, InNode
  <2>2. \A u \in Tasks : ~InNode(u)'
    BY <1>1, <2>1 DEF InNode, TypeOK, WriteCheckpoint, Goto, AfterNode
  <2> QED BY <2>2 DEF InProgress, InNode
<1>4. DoneSteps' \in {DoneSteps, DoneSteps \cup {pos[t]}}
  <2>1. \A s \in Steps : s # pos[t] => steps'[s] = steps[s]
    BY <1>1 DEF TypeOK, WriteCheckpoint
  <2>2. CASE steps'[pos[t]] \in Done
    BY <1>1, <2>1, <2>2 DEF DoneSteps
  <2>3. CASE steps'[pos[t]] \notin Done
    BY <1>1, <2>1, <2>3 DEF DoneSteps
  <2> QED BY <2>2, <2>3
<1> QED BY <1>2, <1>3, <1>4 DEF Log!Commit, Log!Fail

\* A task that is given up leaves no node in progress.
LEMMA AbortFails ==
  ASSUME IInv, NEW t \in Tasks, Executing(t), Abort(t)
  PROVE  Log!Fail
<1>1. TypeOK BY DEF IInv
<1>2. \A u \in Tasks : ~InNode(u)'
  BY <1>1 DEF IInv, Executors, SingleExecutor, Executing, Inside, Working, InNode,
    Abort, Forget, TypeOK
<1>3. InProgress' = {}
  BY <1>2 DEF InProgress, InNode
<1>4. DoneSteps' = DoneSteps
  BY DoneStepsKept DEF Abort
<1> QED BY <1>3, <1>4 DEF Log!Fail

\* A step of a task is a step of the log or does not concern it.
LEMMA TaskKeepsLog ==
  ASSUME IInv, NEW t \in Tasks, TaskStep(t) \/ TaskFault(t)
  PROVE  Log!LogNext \/ UNCHANGED <<DoneSteps, InProgress>>
<1> DEFINE Goal == Log!LogNext \/ UNCHANGED <<DoneSteps, InProgress>>
<1> DEFINE Kept == \A u \in Tasks : /\ InNode(u) <=> InNode(u)'
                                    /\ InNode(u) => pos'[u] = pos[u]
<1>1. TypeOK BY DEF IInv
<1>2. CASE CreateStep(t)
  BY <1>2, CreateStarts DEF Log!LogNext
<1>3. CASE WriteCheckpoint(t)
  BY <1>3, CheckpointCommits DEF Log!LogNext
<1>4. CASE StepExists(t) \/ TransactionFails(t)
  <2>1. Executing(t) /\ Abort(t)
    BY <1>4 DEF StepExists, TransactionFails, Executing, Inside, Working
  <2> QED BY <2>1, AbortFails DEF Log!LogNext
<1>5. CASE Reload(t)
  <2>1. Kept
    BY <1>1, <1>5 DEF Reload, Goto, InNode, TypeOK
  <2>2. DoneSteps' = DoneSteps
    BY <1>5, DoneStepsKept DEF Reload
  <2> QED BY <2>1, <2>2, InProgressKept
<1>6. CASE RunNode(t) \/ ReviewStart(t) \/ Enqueue(t) \/ CountPending(t) \/
    PersistDeliverable(t) \/ ClaimsNotPersisted(t) \/ NodeFails(t)
  <2>1. Kept
    BY <1>1, <1>6 DEF RunNode, ReviewStart, Enqueue, CountPending, PersistDeliverable,
      ClaimsNotPersisted, NodeFails, Goto, InNode, TypeOK
  <2>2. steps' = steps
    BY <1>6 DEF RunNode, ReviewStart, Enqueue, CountPending, PersistDeliverable,
      ClaimsNotPersisted, NodeFails, db
  <2> QED BY <2>1, <2>2, InProgressKept, DoneStepsKept
<1>7. CASE Enter(t) \/ BeginRun(t) \/ CannotResume(t) \/ Unpause(t) \/
    Enrich(t) \/ EnrichFails(t) \/ StopCancelled(t) \/ NotCancelled(t) \/
    Complete(t) \/ Pause(t) \/ StopFailed(t)
  <2>1. Kept
    BY <1>1, <1>7 DEF Enter, BeginRun, CannotResume, Unpause, Enrich, EnrichFails,
      AfterEnrich, StopCancelled, NotCancelled, Complete, Pause, StopFailed, Goto,
      InNode, TypeOK, memory
  <2>2. steps' = steps
    BY <1>7 DEF Enter, BeginRun, CannotResume, Unpause, Enrich, EnrichFails,
      StopCancelled, NotCancelled, Complete, Pause, StopFailed, db
  <2> QED BY <2>1, <2>2, InProgressKept, DoneStepsKept
<1>8. CASE Emit(t) \/ EmitLost(t)
  <2>1. pc[t] = "emit" /\ next[t] \in {"enrich", "loop", "pause", "exit"}
    BY <1>8 DEF IInv, RowsMatch, Emit, EmitLost, Goto
  <2>2. Kept
    BY <1>1, <1>8, <2>1 DEF Emit, EmitLost, Goto, InNode, TypeOK, memory
  <2>3. steps' = steps
    BY <1>8 DEF Emit, EmitLost, db
  <2> QED BY <2>2, <2>3, InProgressKept, DoneStepsKept
<1>9. CASE Refuse(t) \/ Exit(t)
  <2>1. Kept
    BY <1>1, <1>9 DEF Refuse, Exit, Forget, InNode, TypeOK
  <2>2. steps' = steps
    BY <1>9 DEF Refuse, Exit, db
  <2> QED BY <2>1, <2>2, InProgressKept, DoneStepsKept
<1> QED BY <1>2, <1>3, <1>4, <1>5, <1>6, <1>7, <1>8, <1>9 DEF TaskStep, TaskFault

\* So is every other step: handlers and status queries concern it not, although they
\* mark the row of a node in progress as failed; a crash ends what is in progress.
LEMMA LogStep ==
  ASSUME IInv, Next
  PROVE  Log!LogNext \/ UNCHANGED <<DoneSteps, InProgress>>
<1> DEFINE Goal == Log!LogNext \/ UNCHANGED <<DoneSteps, InProgress>>
<1>1. TypeOK BY DEF IInv
<1>2. ASSUME NEW t \in Tasks, TaskStep(t) \/ TaskFault(t) PROVE Goal
  BY <1>2, TaskKeepsLog
<1>3. ASSUME pos' = pos, steps' = steps \/ MarkOrphans, pc' = pc \/ \E k \in Kinds : Submit(k)
      PROVE  Goal
  <2>1. \A u \in Tasks : InNode(u) <=> InNode(u)'
    BY <1>1, <1>3 DEF Submit, Goto, InNode, TypeOK
  <2> QED BY <1>3, <2>1, InProgressKept, DoneStepsKept
<1>4. ASSUME NEW u \in Clients, Request(u) \/ HandlerStep(u) \/ HandlerFails(u)
      PROVE Goal
  <2>1. pos' = pos /\ (steps' = steps \/ MarkOrphans)
    BY <1>4 DEF Request, HandlerStep, DecideCall, handlerOnly, db, memory, ResumeCall,
      Decide, DecideConflict, Recount, WakeUp, ResumeRead, ResumeMark, ResumeDispatch,
      HandlerFails
  <2>2. pc' = pc \/ \E k \in Kinds : Submit(k)
    BY <1>4 DEF Request, HandlerStep, DecideCall, handlerOnly, db, memory, ResumeCall,
      Decide, DecideConflict, Recount, WakeUp, ResumeRead, ResumeMark, ResumeDispatch,
      HandlerFails, Kinds
  <2> QED BY <1>3, <2>1, <2>2
<1>5. CASE StartPipeline
  BY <1>3, <1>5 DEF StartPipeline, Kinds
<1>6. CASE Cancel \/ McpStatus \/ \E c \in Claims : McpDecide(c)
  BY <1>3, <1>6 DEF Cancel, McpStatus, McpDecide, db, memory
<1>7. CASE Crash
  <2>1. \A u \in Tasks : ~InNode(u)'
    BY <1>7 DEF Crash, InNode
  <2>2. InProgress' = {}
    BY <2>1 DEF InProgress, InNode
  <2>3. DoneSteps' = DoneSteps
    BY <1>7, DoneStepsKept DEF Crash, db
  <2> QED BY <2>2, <2>3 DEF Log!LogNext, Log!Fail
<1> QED BY <1>2, <1>4, <1>5, <1>6, <1>7 DEF Next

\* The executor of the service keeps the log of resumability that the executor with
\* a lock per run keeps (ExecutorKeepsLog), without its lock: nodes one at a time, in
\* order, none again once it or a later one is durable (invariants 1 and 3).
THEOREM RunKeepsLog == Spec => KeepsLog
<1>1. Init => Log!LogInit
  BY DEF Init, Log!LogInit, DoneSteps, InProgress, Done
<1>2. IInv /\ [Next]_vars => [Log!LogNext]_<<DoneSteps, InProgress>>
  <2>1. UNCHANGED vars => UNCHANGED <<DoneSteps, InProgress>>
    BY DEF vars, db, memory, DoneSteps, InProgress
  <2> QED BY LogStep, <2>1
<1> QED BY <1>1, <1>2, Invariance, PTL DEF Spec, KeepsLog, Log!LogSpec

\* Opening an item gives no verdict, settling one gives this verdict.
LEMMA OpenItem ==
  ASSUME TypeOK, NEW c \in Claims, items[c] = "absent",
         items' = [items EXCEPT ![c] = "pending"]
  PROVE  Ledger!Open(c)
BY DEF Ledger!Open, Verdicts, TypeOK, Decisions

LEMMA SettleItem ==
  ASSUME TypeOK, NEW c \in Claims, NEW d \in Decisions, items[c] = "pending",
         items' = [items EXCEPT ![c] = d]
  PROVE  Ledger!Settle(c, d)
<1>1. \A b \in Claims : items'[b] = IF b = c THEN d ELSE items[b]
  BY DEF TypeOK
<1>2. Verdicts' = Verdicts \cup {<<c, d>>}
  BY <1>1 DEF Verdicts, Decisions
<1> QED BY <1>2 DEF Ledger!Settle

\* Every step opens an item, settles one or leaves them alone.
LEMMA LedgerStep ==
  ASSUME IInv, Next
  PROVE  Ledger!Next \/ UNCHANGED <<items, Verdicts>>
<1> DEFINE Goal == Ledger!Next \/ UNCHANGED <<items, Verdicts>>
<1>1. TypeOK BY DEF IInv
<1>2. items' = items => Goal
  BY DEF Verdicts
<1>3. ASSUME NEW t \in Tasks, Enqueue(t) PROVE Goal
  <2>1. PICK c \in todo[t] : items' = [items EXCEPT ![c] = "pending"]
    BY <1>3 DEF Enqueue
  <2>2. c \in Claims /\ items[c] = "absent"
    BY <1>1, <1>3 DEF TypeOK, IInv, GateKept, Enqueue, Queued
  <2> QED BY <1>1, <2>1, <2>2, OpenItem DEF Ledger!Next
<1>4. ASSUME NEW c \in Claims, NEW d \in Decisions,
             items[c] = "pending" /\ items' = [items EXCEPT ![c] = d]
      PROVE  Goal
  BY <1>1, <1>4, SettleItem DEF Ledger!Next
<1>5. ASSUME NEW u \in Clients, Decide(u) PROVE Goal
  <2>1. PICK c \in target[u], d \in Decisions :
          items[c] = "pending" /\ items' = [items EXCEPT ![c] = d]
    BY <1>5 DEF Decide
  <2>2. c \in Claims
    BY <1>1 DEF TypeOK
  <2> QED BY <1>4, <2>1, <2>2
<1>6. ASSUME NEW c \in Claims, McpDecide(c) PROVE Goal
  BY <1>4, <1>6 DEF McpDecide
<1>7. ASSUME NEW t \in Tasks, TaskStep(t) \/ TaskFault(t) PROVE Goal
  <2>1. Enqueue(t) \/ items' = items
    BY <1>7 DEF TaskStep, TaskFault, Enter, db, Refuse, BeginRun, Reload, CannotResume,
      Unpause, Enrich, StopCancelled, NotCancelled, Complete, CreateStep, RunNode,
      ReviewStart, CountPending, PersistDeliverable, WriteCheckpoint, Pause,
      StopFailed, Emit, Exit, StepExists, Abort, EnrichFails, ClaimsNotPersisted,
      NodeFails, EmitLost, TransactionFails
  <2> QED BY <1>2, <1>3, <2>1
<1>8. ASSUME NEW u \in Clients, Request(u) \/ HandlerStep(u) \/ HandlerFails(u)
      PROVE Goal
  <2>1. Decide(u) \/ items' = items
    BY <1>8 DEF Request, HandlerStep, DecideCall, handlerOnly, db, ResumeCall,
      DecideConflict, Recount, WakeUp, ResumeRead, ResumeMark, ResumeDispatch,
      HandlerFails
  <2> QED BY <1>2, <1>5, <2>1
<1>9. CASE StartPipeline \/ Cancel \/ McpStatus \/ Crash
  BY <1>2, <1>9 DEF StartPipeline, Cancel, McpStatus, Crash, db
<1> QED BY <1>6, <1>7, <1>8, <1>9 DEF Next

\* The decisions a run waits for, reads and reports are those of a DecisionLedger:
\* whichever thread, process or crash comes between, an item is opened once and keeps
\* its first verdict (invariants 2 and 5).
THEOREM RunKeepsLedger == Spec => KeepsLedger
<1>1. Init => Ledger!Init
  BY DEF Init, Ledger!Init, Verdicts, Decisions
<1>2. IInv /\ [Next]_vars => [Ledger!Next]_<<items, Verdicts>>
  <2>1. UNCHANGED vars => UNCHANGED <<items, Verdicts>>
    BY DEF vars, db, Verdicts
  <2> QED BY LedgerStep, <2>1
<1> QED BY <1>1, <1>2, Invariance, PTL DEF Spec, KeepsLedger, Ledger!Spec
=============================================================================
