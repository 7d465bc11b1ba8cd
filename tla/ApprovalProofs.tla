--------------------------- MODULE ApprovalProofs ---------------------------
(***************************************************************************)
(* The approval queue keeps its promises for every number of items,        *)
(* claims, calls and faults: the invariants follow from the inductive      *)
(* invariant IInv, and the store implements DecisionLedger.                *)
(***************************************************************************)
EXTENDS ApprovalInvariant, TLAPS

\* A fresh id is the id of no row.
LEMMA FreshItem ==
  ASSUME \E i \in Items : rows[i] = "absent"
  PROVE  NewItem \in Items /\ rows[NewItem] = "absent"
BY DEF NewItem

\* Every step keeps the variables in their types.
LEMMA TypeKept == IInv /\ [Next]_vars => TypeOK'
<1> SUFFICES ASSUME IInv, [Next]_vars PROVE TypeOK'
  OBVIOUS
<1>0. TypeOK /\ CallsAreMeant
  BY DEF IInv
<1> USE DEF TypeOK, Values, Stored, RowStates, Subjects, Decision, CallsAreMeant, Present
<1>1. ASSUME Review PROVE TypeOK'
  BY <1>0, <1>1 DEF Review, tables, coroutines, calls
<1>2. ASSUME PopulateQueue PROVE TypeOK'
  BY <1>0, <1>2 DEF PopulateQueue, tables, coroutines, calls
<1>3. ASSUME IncrementalStart PROVE TypeOK'
  BY <1>0, <1>3 DEF IncrementalStart, tables, coroutines, calls
<1>4. ASSUME IncrementalUpdate PROVE TypeOK'
  BY <1>0, <1>4 DEF IncrementalUpdate, tables, coroutines, calls
<1>5. ASSUME Enqueue PROVE TypeOK'
  BY <1>0, <1>5, FreshItem DEF Enqueue, tables, coroutines, calls
<1>6. ASSUME Enqueued PROVE TypeOK'
  BY <1>0, <1>6 DEF Enqueued, tables, coroutines, calls
<1>7. ASSUME EnqueueFails PROVE TypeOK'
  BY <1>0, <1>7, FaultBoundAssumption DEF EnqueueFails, tables, coroutines, calls, Fault
<1>8. ASSUME DeleteDecisions PROVE TypeOK'
  BY <1>0, <1>8 DEF DeleteDecisions, tables, coroutines, calls
<1>9. ASSUME DeleteItem PROVE TypeOK'
  BY <1>0, <1>9 DEF DeleteItem, tables, coroutines, calls
<1>10. ASSUME DeleteRun PROVE TypeOK'
  BY <1>0, <1>10 DEF DeleteRun, AllLocked, Orphaned, Unlocked, tables, coroutines, calls
<1>11. ASSUME DeleteRefused PROVE TypeOK'
  BY <1>0, <1>11 DEF DeleteRefused, AllLocked, Unlocked, tables, coroutines, calls
<1>12. ASSUME Crash PROVE TypeOK'
  <2>1. /\ pc' \in [Requests -> {"idle", "lock", "commit", "notify", "reply", "done"}]
        /\ outcome' \in [Requests -> {"none", "success", "not_found", "conflict", "error"}]
    BY <1>0, <1>12 DEF Crash
  <2>2. lock' \in [Items -> Requests \cup {"free", "delete"}]
    BY <1>0, <1>12 DEF Crash, Unlocked
  <2>3. faults' \in 0 .. MaxFaults
    BY <1>0, <1>12, FaultBoundAssumption DEF Crash, Fault
  <2>4. QED
    BY <1>0, <1>12, <2>1, <2>2, <2>3 DEF Crash, tables
<1>13. ASSUME NEW r \in Requests, Arrive(r) PROVE TypeOK'
  BY <1>0, <1>13 DEF Arrive, Step, tables, coroutines, calls
<1>14. ASSUME NEW r \in Requests, LockRow(r) PROVE TypeOK'
  BY <1>0, <1>14 DEF LockRow, Step, tables, coroutines, calls
<1>15. ASSUME NEW r \in Requests, Refuse(r) PROVE TypeOK'
  BY <1>0, <1>15 DEF Refuse, Step, tables, coroutines, calls
<1>16. ASSUME NEW r \in Requests, Record(r) PROVE TypeOK'
  BY <1>0, <1>16 DEF Record, Step, tables, coroutines, calls
<1>17. ASSUME NEW r \in Requests, Notify(r) PROVE TypeOK'
  BY <1>0, <1>17, FaultBoundAssumption DEF Notify, Report, Step, tables, coroutines,
     calls, Fault
<1>18. ASSUME NEW r \in Requests, Reply(r) PROVE TypeOK'
  BY <1>0, <1>18 DEF Reply, Step, tables, coroutines, calls
<1>19. ASSUME NEW r \in Requests, RollBack(r) PROVE TypeOK'
  BY <1>0, <1>19, FaultBoundAssumption DEF RollBack, Unlocked, tables, coroutines,
     calls, Fault
<1>20. CASE UNCHANGED vars
  BY <1>0, <1>20 DEF vars, tables, coroutines, calls
<1>21. QED
  BY <1>1, <1>2, <1>3, <1>4, <1>5, <1>6, <1>7, <1>8, <1>9, <1>10, <1>11, <1>12, <1>13,
     <1>14, <1>15, <1>16, <1>17, <1>18, <1>19, <1>20 DEF Next, Coroutine, Call

\* Every step that writes a row writes its decision with it.
LEMMA TablesKept == IInv /\ [Next]_vars => TwoTablesAgree'
<1> SUFFICES ASSUME IInv, [Next]_vars PROVE TwoTablesAgree'
  OBVIOUS
<1>0. TypeOK /\ TwoTablesAgree /\ LocksProtect /\ CallsAreMeant
  BY DEF IInv
<1> USE DEF TypeOK, Values, Stored, RowStates, Subjects, Decision, TwoTablesAgree,
   LocksProtect, CallsAreMeant, Present
<1>1. ASSUME Review PROVE TwoTablesAgree'
  BY <1>0, <1>1 DEF Review, tables, coroutines, calls
<1>2. ASSUME PopulateQueue PROVE TwoTablesAgree'
  BY <1>0, <1>2 DEF PopulateQueue, tables, coroutines, calls
<1>3. ASSUME IncrementalStart PROVE TwoTablesAgree'
  BY <1>0, <1>3 DEF IncrementalStart, tables, coroutines, calls
<1>4. ASSUME IncrementalUpdate PROVE TwoTablesAgree'
  BY <1>0, <1>4 DEF IncrementalUpdate, tables, coroutines, calls
<1>5. ASSUME Enqueue PROVE TwoTablesAgree'
  BY <1>0, <1>5, FreshItem DEF Enqueue, tables, coroutines, calls
<1>6. ASSUME Enqueued PROVE TwoTablesAgree'
  BY <1>0, <1>6 DEF Enqueued, tables, coroutines, calls
<1>7. ASSUME EnqueueFails PROVE TwoTablesAgree'
  BY <1>0, <1>7 DEF EnqueueFails, tables, coroutines, calls, Fault
<1>8. ASSUME DeleteDecisions PROVE TwoTablesAgree'
  BY <1>0, <1>8 DEF DeleteDecisions, tables, coroutines, calls
<1>9. ASSUME DeleteItem PROVE TwoTablesAgree'
  BY <1>0, <1>9 DEF DeleteItem, tables, coroutines, calls
<1>10. ASSUME DeleteRun PROVE TwoTablesAgree'
  BY <1>0, <1>10, TokensAssumption DEF DeleteRun, AllLocked, Orphaned, Unlocked, tables,
     coroutines, calls
<1>11. ASSUME DeleteRefused PROVE TwoTablesAgree'
  BY <1>0, <1>11 DEF DeleteRefused, AllLocked, Unlocked, tables, coroutines, calls
<1>12. ASSUME Crash PROVE TwoTablesAgree'
  BY <1>0, <1>12 DEF Crash, Unlocked, tables, coroutines, calls, Fault
<1>13. ASSUME NEW r \in Requests, Arrive(r) PROVE TwoTablesAgree'
  BY <1>0, <1>13 DEF Arrive, Step, tables, coroutines, calls
<1>14. ASSUME NEW r \in Requests, LockRow(r) PROVE TwoTablesAgree'
  BY <1>0, <1>14 DEF LockRow, Step, tables, coroutines, calls
<1>15. ASSUME NEW r \in Requests, Refuse(r) PROVE TwoTablesAgree'
  BY <1>0, <1>15 DEF Refuse, Step, tables, coroutines, calls
<1>16. ASSUME NEW r \in Requests, Record(r) PROVE TwoTablesAgree'
  BY <1>0, <1>16 DEF Record, Step, tables, coroutines, calls
<1>17. ASSUME NEW r \in Requests, Notify(r) PROVE TwoTablesAgree'
  BY <1>0, <1>17 DEF Notify, Report, Step, tables, coroutines, calls, Fault
<1>18. ASSUME NEW r \in Requests, Reply(r) PROVE TwoTablesAgree'
  BY <1>0, <1>18 DEF Reply, Step, tables, coroutines, calls
<1>19. ASSUME NEW r \in Requests, RollBack(r) PROVE TwoTablesAgree'
  BY <1>0, <1>19 DEF RollBack, Unlocked, tables, coroutines, calls, Fault
<1>20. CASE UNCHANGED vars
  BY <1>0, <1>20 DEF vars, tables, coroutines, calls
<1>21. QED
  BY <1>1, <1>2, <1>3, <1>4, <1>5, <1>6, <1>7, <1>8, <1>9, <1>10, <1>11, <1>12, <1>13,
     <1>14, <1>15, <1>16, <1>17, <1>18, <1>19, <1>20 DEF Next, Coroutine, Call

\* A call stays about an item that was opened.
LEMMA MeaningKept == IInv /\ [Next]_vars => CallsAreMeant'
<1> SUFFICES ASSUME IInv, [Next]_vars PROVE CallsAreMeant'
  OBVIOUS
<1>0. TypeOK /\ CallsAreMeant
  BY DEF IInv
<1> USE DEF TypeOK, Values, Stored, RowStates, Subjects, Decision, CallsAreMeant, Present
<1>1. ASSUME Review PROVE CallsAreMeant'
  BY <1>0, <1>1 DEF Review, tables, coroutines, calls
<1>2. ASSUME PopulateQueue PROVE CallsAreMeant'
  BY <1>0, <1>2 DEF PopulateQueue, tables, coroutines, calls
<1>3. ASSUME IncrementalStart PROVE CallsAreMeant'
  BY <1>0, <1>3 DEF IncrementalStart, tables, coroutines, calls
<1>4. ASSUME IncrementalUpdate PROVE CallsAreMeant'
  BY <1>0, <1>4 DEF IncrementalUpdate, tables, coroutines, calls
<1>5. ASSUME Enqueue PROVE CallsAreMeant'
  BY <1>0, <1>5, FreshItem DEF Enqueue, tables, coroutines, calls
<1>6. ASSUME Enqueued PROVE CallsAreMeant'
  BY <1>0, <1>6 DEF Enqueued, tables, coroutines, calls
<1>7. ASSUME EnqueueFails PROVE CallsAreMeant'
  BY <1>0, <1>7 DEF EnqueueFails, tables, coroutines, calls, Fault
<1>8. ASSUME DeleteDecisions PROVE CallsAreMeant'
  BY <1>0, <1>8 DEF DeleteDecisions, tables, coroutines, calls
<1>9. ASSUME DeleteItem PROVE CallsAreMeant'
  BY <1>0, <1>9 DEF DeleteItem, tables, coroutines, calls
<1>10. ASSUME DeleteRun PROVE CallsAreMeant'
  BY <1>0, <1>10 DEF DeleteRun, AllLocked, Orphaned, Unlocked, tables, coroutines, calls
<1>11. ASSUME DeleteRefused PROVE CallsAreMeant'
  BY <1>0, <1>11 DEF DeleteRefused, AllLocked, Unlocked, tables, coroutines, calls
<1>12. ASSUME Crash PROVE CallsAreMeant'
  BY <1>0, <1>12 DEF Crash, Unlocked, tables, coroutines, calls, Fault
<1>13. ASSUME NEW r \in Requests, Arrive(r) PROVE CallsAreMeant'
  BY <1>0, <1>13 DEF Arrive, Step, tables, coroutines, calls
<1>14. ASSUME NEW r \in Requests, LockRow(r) PROVE CallsAreMeant'
  BY <1>0, <1>14 DEF LockRow, Step, tables, coroutines, calls
<1>15. ASSUME NEW r \in Requests, Refuse(r) PROVE CallsAreMeant'
  BY <1>0, <1>15 DEF Refuse, Step, tables, coroutines, calls
<1>16. ASSUME NEW r \in Requests, Record(r) PROVE CallsAreMeant'
  BY <1>0, <1>16 DEF Record, Step, tables, coroutines, calls
<1>17. ASSUME NEW r \in Requests, Notify(r) PROVE CallsAreMeant'
  BY <1>0, <1>17 DEF Notify, Report, Step, tables, coroutines, calls, Fault
<1>18. ASSUME NEW r \in Requests, Reply(r) PROVE CallsAreMeant'
  BY <1>0, <1>18 DEF Reply, Step, tables, coroutines, calls
<1>19. ASSUME NEW r \in Requests, RollBack(r) PROVE CallsAreMeant'
  BY <1>0, <1>19 DEF RollBack, Unlocked, tables, coroutines, calls, Fault
<1>20. CASE UNCHANGED vars
  BY <1>0, <1>20 DEF vars, tables, coroutines, calls
<1>21. QED
  BY <1>1, <1>2, <1>3, <1>4, <1>5, <1>6, <1>7, <1>8, <1>9, <1>10, <1>11, <1>12, <1>13,
     <1>14, <1>15, <1>16, <1>17, <1>18, <1>19, <1>20 DEF Next, Coroutine, Call

\* Nobody writes a row another call has locked.
LEMMA LocksKept == IInv /\ [Next]_vars => LocksProtect'
<1> SUFFICES ASSUME IInv, [Next]_vars PROVE LocksProtect'
  OBVIOUS
<1>0. TypeOK /\ LocksProtect /\ CallsAreMeant
  BY DEF IInv
<1> USE DEF TypeOK, Values, Stored, RowStates, Subjects, Decision, LocksProtect,
   CallsAreMeant, Present
<1>1. ASSUME Review PROVE LocksProtect'
  BY <1>0, <1>1, TokensAssumption DEF Review, tables, coroutines, calls
<1>2. ASSUME PopulateQueue PROVE LocksProtect'
  BY <1>0, <1>2, TokensAssumption DEF PopulateQueue, tables, coroutines, calls
<1>3. ASSUME IncrementalStart PROVE LocksProtect'
  BY <1>0, <1>3, TokensAssumption DEF IncrementalStart, tables, coroutines, calls
<1>4. ASSUME IncrementalUpdate PROVE LocksProtect'
  BY <1>0, <1>4, TokensAssumption DEF IncrementalUpdate, tables, coroutines, calls
<1>5. ASSUME Enqueue PROVE LocksProtect'
  BY <1>0, <1>5, TokensAssumption, FreshItem DEF Enqueue, tables, coroutines, calls
<1>6. ASSUME Enqueued PROVE LocksProtect'
  BY <1>0, <1>6, TokensAssumption DEF Enqueued, tables, coroutines, calls
<1>7. ASSUME EnqueueFails PROVE LocksProtect'
  BY <1>0, <1>7, TokensAssumption DEF EnqueueFails, tables, coroutines, calls, Fault
<1>8. ASSUME DeleteDecisions PROVE LocksProtect'
  BY <1>0, <1>8, TokensAssumption DEF DeleteDecisions, tables, coroutines, calls
<1>9. ASSUME DeleteItem PROVE LocksProtect'
  BY <1>0, <1>9, TokensAssumption DEF DeleteItem, tables, coroutines, calls
<1>10. ASSUME DeleteRun PROVE LocksProtect'
  BY <1>0, <1>10, TokensAssumption DEF DeleteRun, AllLocked, Orphaned, Unlocked, tables,
     coroutines, calls
<1>11. ASSUME DeleteRefused PROVE LocksProtect'
  BY <1>0, <1>11, TokensAssumption DEF DeleteRefused, AllLocked, Unlocked, tables,
     coroutines, calls
<1>12. ASSUME Crash PROVE LocksProtect'
  BY <1>0, <1>12, TokensAssumption DEF Crash, Unlocked, tables, coroutines, calls, Fault
<1>13. ASSUME NEW r \in Requests, Arrive(r) PROVE LocksProtect'
  BY <1>0, <1>13, TokensAssumption DEF Arrive, Step, tables, coroutines, calls
<1>14. ASSUME NEW r \in Requests, LockRow(r) PROVE LocksProtect'
  BY <1>0, <1>14, TokensAssumption DEF LockRow, Step, tables, coroutines, calls
<1>15. ASSUME NEW r \in Requests, Refuse(r) PROVE LocksProtect'
  BY <1>0, <1>15, TokensAssumption DEF Refuse, Step, tables, coroutines, calls
<1>16. ASSUME NEW r \in Requests, Record(r) PROVE LocksProtect'
  BY <1>0, <1>16, TokensAssumption DEF Record, Step, tables, coroutines, calls
<1>17. ASSUME NEW r \in Requests, Notify(r) PROVE LocksProtect'
  BY <1>0, <1>17, TokensAssumption DEF Notify, Report, Step, tables, coroutines, calls,
     Fault
<1>18. ASSUME NEW r \in Requests, Reply(r) PROVE LocksProtect'
  BY <1>0, <1>18, TokensAssumption DEF Reply, Step, tables, coroutines, calls
<1>19. ASSUME NEW r \in Requests, RollBack(r) PROVE LocksProtect'
  BY <1>0, <1>19, TokensAssumption DEF RollBack, Unlocked, tables, coroutines, calls, Fault
<1>20. CASE UNCHANGED vars
  BY <1>0, <1>20 DEF vars, tables, coroutines, calls
<1>21. QED
  BY <1>1, <1>2, <1>3, <1>4, <1>5, <1>6, <1>7, <1>8, <1>9, <1>10, <1>11, <1>12, <1>13,
     <1>14, <1>15, <1>16, <1>17, <1>18, <1>19, <1>20 DEF Next, Coroutine, Call

\* A verdict given stays in its row and with its caller.
LEMMA GrantsKept == IInv /\ [Next]_vars => GrantsAreKept'
<1> SUFFICES ASSUME IInv, [Next]_vars PROVE GrantsAreKept'
  OBVIOUS
<1>0. TypeOK /\ GrantsAreKept /\ LocksProtect /\ CallsAreMeant
  BY DEF IInv
<1> USE DEF TypeOK, Values, Stored, RowStates, Subjects, Decision, GrantsAreKept,
   LocksProtect, CallsAreMeant, Asked, Present
<1>1. ASSUME Review PROVE GrantsAreKept'
  BY <1>0, <1>1 DEF Review, tables, coroutines, calls
<1>2. ASSUME PopulateQueue PROVE GrantsAreKept'
  BY <1>0, <1>2 DEF PopulateQueue, tables, coroutines, calls
<1>3. ASSUME IncrementalStart PROVE GrantsAreKept'
  BY <1>0, <1>3 DEF IncrementalStart, tables, coroutines, calls
<1>4. ASSUME IncrementalUpdate PROVE GrantsAreKept'
  BY <1>0, <1>4 DEF IncrementalUpdate, tables, coroutines, calls
<1>5. ASSUME Enqueue PROVE GrantsAreKept'
  BY <1>0, <1>5, FreshItem DEF Enqueue, tables, coroutines, calls
<1>6. ASSUME Enqueued PROVE GrantsAreKept'
  BY <1>0, <1>6 DEF Enqueued, tables, coroutines, calls
<1>7. ASSUME EnqueueFails PROVE GrantsAreKept'
  BY <1>0, <1>7 DEF EnqueueFails, tables, coroutines, calls, Fault
<1>8. ASSUME DeleteDecisions PROVE GrantsAreKept'
  BY <1>0, <1>8 DEF DeleteDecisions, tables, coroutines, calls
<1>9. ASSUME DeleteItem PROVE GrantsAreKept'
  BY <1>0, <1>9 DEF DeleteItem, tables, coroutines, calls
<1>10. ASSUME DeleteRun PROVE GrantsAreKept'
  BY <1>0, <1>10 DEF DeleteRun, AllLocked, Orphaned, Unlocked, tables, coroutines, calls
<1>11. ASSUME DeleteRefused PROVE GrantsAreKept'
  BY <1>0, <1>11 DEF DeleteRefused, AllLocked, Unlocked, tables, coroutines, calls
<1>12. ASSUME Crash PROVE GrantsAreKept'
  BY <1>0, <1>12 DEF Crash, Unlocked, tables, coroutines, calls, Fault
<1>13. ASSUME NEW r \in Requests, Arrive(r) PROVE GrantsAreKept'
  BY <1>0, <1>13 DEF Arrive, Step, tables, coroutines, calls
<1>14. ASSUME NEW r \in Requests, LockRow(r) PROVE GrantsAreKept'
  BY <1>0, <1>14 DEF LockRow, Step, tables, coroutines, calls
<1>15. ASSUME NEW r \in Requests, Refuse(r) PROVE GrantsAreKept'
  BY <1>0, <1>15 DEF Refuse, Step, tables, coroutines, calls
<1>16. ASSUME NEW r \in Requests, Record(r) PROVE GrantsAreKept'
  BY <1>0, <1>16 DEF Record, Step, tables, coroutines, calls
<1>17. ASSUME NEW r \in Requests, Notify(r) PROVE GrantsAreKept'
  BY <1>0, <1>17 DEF Notify, Report, Step, tables, coroutines, calls, Fault
<1>18. ASSUME NEW r \in Requests, Reply(r) PROVE GrantsAreKept'
  BY <1>0, <1>18 DEF Reply, Step, tables, coroutines, calls
<1>19. ASSUME NEW r \in Requests, RollBack(r) PROVE GrantsAreKept'
  BY <1>0, <1>19 DEF RollBack, Unlocked, tables, coroutines, calls, Fault
<1>20. CASE UNCHANGED vars
  BY <1>0, <1>20 DEF vars, tables, coroutines, calls
<1>21. QED
  BY <1>1, <1>2, <1>3, <1>4, <1>5, <1>6, <1>7, <1>8, <1>9, <1>10, <1>11, <1>12, <1>13,
     <1>14, <1>15, <1>16, <1>17, <1>18, <1>19, <1>20 DEF Next, Coroutine, Call

\* An answer once true stays true.
LEMMA AnswersKept == IInv /\ [Next]_vars => AnswersAreTrue'
<1> SUFFICES ASSUME IInv, [Next]_vars PROVE AnswersAreTrue'
  OBVIOUS
<1>0. TypeOK /\ AnswersAreTrue /\ GrantsAreKept /\ CallsAreMeant /\ LocksProtect
  BY DEF IInv
<1> USE DEF TypeOK, Values, Stored, RowStates, Subjects, Decision, AnswersAreTrue,
   GrantsAreKept, CallsAreMeant, LocksProtect, Asked, Present
<1>1. ASSUME Review PROVE AnswersAreTrue'
  BY <1>0, <1>1 DEF Review, tables, coroutines, calls
<1>2. ASSUME PopulateQueue PROVE AnswersAreTrue'
  BY <1>0, <1>2 DEF PopulateQueue, tables, coroutines, calls
<1>3. ASSUME IncrementalStart PROVE AnswersAreTrue'
  BY <1>0, <1>3 DEF IncrementalStart, tables, coroutines, calls
<1>4. ASSUME IncrementalUpdate PROVE AnswersAreTrue'
  BY <1>0, <1>4 DEF IncrementalUpdate, tables, coroutines, calls
<1>5. ASSUME Enqueue PROVE AnswersAreTrue'
  BY <1>0, <1>5, FreshItem DEF Enqueue, tables, coroutines, calls
<1>6. ASSUME Enqueued PROVE AnswersAreTrue'
  BY <1>0, <1>6 DEF Enqueued, tables, coroutines, calls
<1>7. ASSUME EnqueueFails PROVE AnswersAreTrue'
  BY <1>0, <1>7 DEF EnqueueFails, tables, coroutines, calls, Fault
<1>8. ASSUME DeleteDecisions PROVE AnswersAreTrue'
  BY <1>0, <1>8 DEF DeleteDecisions, tables, coroutines, calls
<1>9. ASSUME DeleteItem PROVE AnswersAreTrue'
  BY <1>0, <1>9 DEF DeleteItem, tables, coroutines, calls
<1>10. ASSUME DeleteRun PROVE AnswersAreTrue'
  BY <1>0, <1>10 DEF DeleteRun, AllLocked, Orphaned, Unlocked, tables, coroutines, calls
<1>11. ASSUME DeleteRefused PROVE AnswersAreTrue'
  BY <1>0, <1>11 DEF DeleteRefused, AllLocked, Unlocked, tables, coroutines, calls
<1>12. ASSUME Crash PROVE AnswersAreTrue'
  BY <1>0, <1>12 DEF Crash, Unlocked, tables, coroutines, calls, Fault
<1>13. ASSUME NEW r \in Requests, Arrive(r) PROVE AnswersAreTrue'
  BY <1>0, <1>13 DEF Arrive, Step, tables, coroutines, calls
<1>14. ASSUME NEW r \in Requests, LockRow(r) PROVE AnswersAreTrue'
  BY <1>0, <1>14 DEF LockRow, Step, tables, coroutines, calls
<1>15. ASSUME NEW r \in Requests, Refuse(r) PROVE AnswersAreTrue'
  BY <1>0, <1>15 DEF Refuse, Step, tables, coroutines, calls
<1>16. ASSUME NEW r \in Requests, Record(r) PROVE AnswersAreTrue'
  BY <1>0, <1>16 DEF Record, Step, tables, coroutines, calls
<1>17. ASSUME NEW r \in Requests, Notify(r) PROVE AnswersAreTrue'
  BY <1>0, <1>17 DEF Notify, Report, Step, tables, coroutines, calls, Fault
<1>18. ASSUME NEW r \in Requests, Reply(r) PROVE AnswersAreTrue'
  BY <1>0, <1>18 DEF Reply, Step, tables, coroutines, calls
<1>19. ASSUME NEW r \in Requests, RollBack(r) PROVE AnswersAreTrue'
  BY <1>0, <1>19 DEF RollBack, Unlocked, tables, coroutines, calls, Fault
<1>20. CASE UNCHANGED vars
  BY <1>0, <1>20 DEF vars, tables, coroutines, calls
<1>21. QED
  BY <1>1, <1>2, <1>3, <1>4, <1>5, <1>6, <1>7, <1>8, <1>9, <1>10, <1>11, <1>12, <1>13,
     <1>14, <1>15, <1>16, <1>17, <1>18, <1>19, <1>20 DEF Next, Coroutine, Call

\* The audit trail grows by granted decisions only.
LEMMA AuditKept == IInv /\ [Next]_vars => AuditIsTrue'
<1> SUFFICES ASSUME IInv, [Next]_vars PROVE AuditIsTrue'
  OBVIOUS
<1>0. TypeOK /\ AuditIsTrue /\ GrantsAreKept
  BY DEF IInv
<1> USE DEF TypeOK, Values, Stored, RowStates, Subjects, Decision, AuditIsTrue,
   GrantsAreKept, Asked
<1>1. ASSUME Review PROVE AuditIsTrue'
  BY <1>0, <1>1 DEF Review, tables, coroutines, calls
<1>2. ASSUME PopulateQueue PROVE AuditIsTrue'
  BY <1>0, <1>2 DEF PopulateQueue, tables, coroutines, calls
<1>3. ASSUME IncrementalStart PROVE AuditIsTrue'
  BY <1>0, <1>3 DEF IncrementalStart, tables, coroutines, calls
<1>4. ASSUME IncrementalUpdate PROVE AuditIsTrue'
  BY <1>0, <1>4 DEF IncrementalUpdate, tables, coroutines, calls
<1>5. ASSUME Enqueue PROVE AuditIsTrue'
  BY <1>0, <1>5 DEF Enqueue, tables, coroutines, calls
<1>6. ASSUME Enqueued PROVE AuditIsTrue'
  BY <1>0, <1>6 DEF Enqueued, tables, coroutines, calls
<1>7. ASSUME EnqueueFails PROVE AuditIsTrue'
  BY <1>0, <1>7 DEF EnqueueFails, tables, coroutines, calls, Fault
<1>8. ASSUME DeleteDecisions PROVE AuditIsTrue'
  BY <1>0, <1>8 DEF DeleteDecisions, tables, coroutines, calls
<1>9. ASSUME DeleteItem PROVE AuditIsTrue'
  BY <1>0, <1>9 DEF DeleteItem, tables, coroutines, calls
<1>10. ASSUME DeleteRun PROVE AuditIsTrue'
  BY <1>0, <1>10 DEF DeleteRun, AllLocked, Orphaned, Unlocked, tables, coroutines, calls
<1>11. ASSUME DeleteRefused PROVE AuditIsTrue'
  BY <1>0, <1>11 DEF DeleteRefused, AllLocked, Unlocked, tables, coroutines, calls
<1>12. ASSUME Crash PROVE AuditIsTrue'
  BY <1>0, <1>12 DEF Crash, Unlocked, tables, coroutines, calls, Fault
<1>13. ASSUME NEW r \in Requests, Arrive(r) PROVE AuditIsTrue'
  BY <1>0, <1>13 DEF Arrive, Step, tables, coroutines, calls
<1>14. ASSUME NEW r \in Requests, LockRow(r) PROVE AuditIsTrue'
  BY <1>0, <1>14 DEF LockRow, Step, tables, coroutines, calls
<1>15. ASSUME NEW r \in Requests, Refuse(r) PROVE AuditIsTrue'
  BY <1>0, <1>15 DEF Refuse, Step, tables, coroutines, calls
<1>16. ASSUME NEW r \in Requests, Record(r) PROVE AuditIsTrue'
  BY <1>0, <1>16 DEF Record, Step, tables, coroutines, calls
<1>17. ASSUME NEW r \in Requests, Notify(r) PROVE AuditIsTrue'
  BY <1>0, <1>17 DEF Notify, Report, Step, tables, coroutines, calls, Fault
<1>18. ASSUME NEW r \in Requests, Reply(r) PROVE AuditIsTrue'
  BY <1>0, <1>18 DEF Reply, Step, tables, coroutines, calls
<1>19. ASSUME NEW r \in Requests, RollBack(r) PROVE AuditIsTrue'
  BY <1>0, <1>19 DEF RollBack, Unlocked, tables, coroutines, calls, Fault
<1>20. CASE UNCHANGED vars
  BY <1>0, <1>20 DEF vars, tables, coroutines, calls
<1>21. QED
  BY <1>1, <1>2, <1>3, <1>4, <1>5, <1>6, <1>7, <1>8, <1>9, <1>10, <1>11, <1>12, <1>13,
     <1>14, <1>15, <1>16, <1>17, <1>18, <1>19, <1>20 DEF Next, Coroutine, Call

\* Whoever holds the event loop knows which subjects have no item.
LEMMA TodoKept == IInv /\ [Next]_vars => TodoIsNew'
<1> SUFFICES ASSUME IInv, [Next]_vars PROVE TodoIsNew'
  OBVIOUS
<1>0. TypeOK /\ TodoIsNew /\ NoDuplicateItems /\ TodoHasRun /\ LocksProtect /\ CallsAreMeant
  BY DEF IInv
<1> USE DEF TypeOK, Values, Stored, RowStates, Subjects, Decision, TodoIsNew,
   TodoHasRun, Present, Queued, LocksProtect, CallsAreMeant
<1>1. ASSUME Review PROVE TodoIsNew'
  BY <1>0, <1>1 DEF Review, tables, coroutines, calls
<1>2. ASSUME PopulateQueue PROVE TodoIsNew'
  BY <1>0, <1>2 DEF PopulateQueue, tables, coroutines, calls
<1>3. ASSUME IncrementalStart PROVE TodoIsNew'
  BY <1>0, <1>3 DEF IncrementalStart, tables, coroutines, calls
<1>4. ASSUME IncrementalUpdate PROVE TodoIsNew'
  BY <1>0, <1>4, TokensAssumption DEF IncrementalUpdate, tables, coroutines, calls
<1>5. ASSUME Enqueue PROVE TodoIsNew'
  BY <1>0, <1>5, FreshItem DEF Enqueue, tables, coroutines, calls
<1>6. ASSUME Enqueued PROVE TodoIsNew'
  BY <1>0, <1>6 DEF Enqueued, tables, coroutines, calls
<1>7. ASSUME EnqueueFails PROVE TodoIsNew'
  BY <1>0, <1>7 DEF EnqueueFails, tables, coroutines, calls, Fault
<1>8. ASSUME DeleteDecisions PROVE TodoIsNew'
  BY <1>0, <1>8 DEF DeleteDecisions, tables, coroutines, calls
<1>9. ASSUME DeleteItem PROVE TodoIsNew'
  BY <1>0, <1>9 DEF DeleteItem, tables, coroutines, calls
<1>10. ASSUME DeleteRun PROVE TodoIsNew'
  BY <1>0, <1>10 DEF DeleteRun, AllLocked, Orphaned, Unlocked, tables, coroutines, calls
<1>11. ASSUME DeleteRefused PROVE TodoIsNew'
  BY <1>0, <1>11 DEF DeleteRefused, AllLocked, Unlocked, tables, coroutines, calls
<1>12. ASSUME Crash PROVE TodoIsNew'
  BY <1>0, <1>12 DEF Crash, Unlocked, tables, coroutines, calls, Fault
<1>13. ASSUME NEW r \in Requests, Arrive(r) PROVE TodoIsNew'
  BY <1>0, <1>13 DEF Arrive, Step, tables, coroutines, calls
<1>14. ASSUME NEW r \in Requests, LockRow(r) PROVE TodoIsNew'
  BY <1>0, <1>14 DEF LockRow, Step, tables, coroutines, calls
<1>15. ASSUME NEW r \in Requests, Refuse(r) PROVE TodoIsNew'
  BY <1>0, <1>15 DEF Refuse, Step, tables, coroutines, calls
<1>16. ASSUME NEW r \in Requests, Record(r) PROVE TodoIsNew'
  BY <1>0, <1>16 DEF Record, Step, tables, coroutines, calls
<1>17. ASSUME NEW r \in Requests, Notify(r) PROVE TodoIsNew'
  BY <1>0, <1>17 DEF Notify, Report, Step, tables, coroutines, calls, Fault
<1>18. ASSUME NEW r \in Requests, Reply(r) PROVE TodoIsNew'
  BY <1>0, <1>18 DEF Reply, Step, tables, coroutines, calls
<1>19. ASSUME NEW r \in Requests, RollBack(r) PROVE TodoIsNew'
  BY <1>0, <1>19 DEF RollBack, Unlocked, tables, coroutines, calls, Fault
<1>20. CASE UNCHANGED vars
  BY <1>0, <1>20 DEF vars, tables, coroutines, calls
<1>21. QED
  BY <1>1, <1>2, <1>3, <1>4, <1>5, <1>6, <1>7, <1>8, <1>9, <1>10, <1>11, <1>12, <1>13,
     <1>14, <1>15, <1>16, <1>17, <1>18, <1>19, <1>20 DEF Next, Coroutine, Call

\* No step opens a second item for a claim.
LEMMA SinglesKept == IInv /\ [Next]_vars => NoDuplicateItems'
<1> SUFFICES ASSUME IInv, [Next]_vars PROVE NoDuplicateItems'
  OBVIOUS
<1>0. TypeOK /\ TodoIsNew /\ NoDuplicateItems /\ LocksProtect /\ CallsAreMeant
  BY DEF IInv
<1> USE DEF TypeOK, Values, Stored, RowStates, Subjects, Decision, TodoIsNew,
   NoDuplicateItems, Present, LocksProtect, CallsAreMeant
<1>1. ASSUME Review PROVE NoDuplicateItems'
  BY <1>0, <1>1 DEF Review, tables, coroutines, calls
<1>2. ASSUME PopulateQueue PROVE NoDuplicateItems'
  BY <1>0, <1>2 DEF PopulateQueue, tables, coroutines, calls
<1>3. ASSUME IncrementalStart PROVE NoDuplicateItems'
  BY <1>0, <1>3 DEF IncrementalStart, tables, coroutines, calls
<1>4. ASSUME IncrementalUpdate PROVE NoDuplicateItems'
  BY <1>0, <1>4 DEF IncrementalUpdate, tables, coroutines, calls
<1>5. ASSUME Enqueue PROVE NoDuplicateItems'
  BY <1>0, <1>5, FreshItem DEF Enqueue, tables, coroutines, calls
<1>6. ASSUME Enqueued PROVE NoDuplicateItems'
  BY <1>0, <1>6 DEF Enqueued, tables, coroutines, calls
<1>7. ASSUME EnqueueFails PROVE NoDuplicateItems'
  BY <1>0, <1>7 DEF EnqueueFails, tables, coroutines, calls, Fault
<1>8. ASSUME DeleteDecisions PROVE NoDuplicateItems'
  BY <1>0, <1>8 DEF DeleteDecisions, tables, coroutines, calls
<1>9. ASSUME DeleteItem PROVE NoDuplicateItems'
  BY <1>0, <1>9 DEF DeleteItem, tables, coroutines, calls
<1>10. ASSUME DeleteRun PROVE NoDuplicateItems'
  BY <1>0, <1>10 DEF DeleteRun, AllLocked, Orphaned, Unlocked, tables, coroutines, calls
<1>11. ASSUME DeleteRefused PROVE NoDuplicateItems'
  BY <1>0, <1>11 DEF DeleteRefused, AllLocked, Unlocked, tables, coroutines, calls
<1>12. ASSUME Crash PROVE NoDuplicateItems'
  BY <1>0, <1>12 DEF Crash, Unlocked, tables, coroutines, calls, Fault
<1>13. ASSUME NEW r \in Requests, Arrive(r) PROVE NoDuplicateItems'
  BY <1>0, <1>13 DEF Arrive, Step, tables, coroutines, calls
<1>14. ASSUME NEW r \in Requests, LockRow(r) PROVE NoDuplicateItems'
  BY <1>0, <1>14 DEF LockRow, Step, tables, coroutines, calls
<1>15. ASSUME NEW r \in Requests, Refuse(r) PROVE NoDuplicateItems'
  BY <1>0, <1>15 DEF Refuse, Step, tables, coroutines, calls
<1>16. ASSUME NEW r \in Requests, Record(r) PROVE NoDuplicateItems'
  BY <1>0, <1>16 DEF Record, Step, tables, coroutines, calls
<1>17. ASSUME NEW r \in Requests, Notify(r) PROVE NoDuplicateItems'
  BY <1>0, <1>17 DEF Notify, Report, Step, tables, coroutines, calls, Fault
<1>18. ASSUME NEW r \in Requests, Reply(r) PROVE NoDuplicateItems'
  BY <1>0, <1>18 DEF Reply, Step, tables, coroutines, calls
<1>19. ASSUME NEW r \in Requests, RollBack(r) PROVE NoDuplicateItems'
  BY <1>0, <1>19 DEF RollBack, Unlocked, tables, coroutines, calls, Fault
<1>20. CASE UNCHANGED vars
  BY <1>0, <1>20 DEF vars, tables, coroutines, calls
<1>21. QED
  BY <1>1, <1>2, <1>3, <1>4, <1>5, <1>6, <1>7, <1>8, <1>9, <1>10, <1>11, <1>12, <1>13,
     <1>14, <1>15, <1>16, <1>17, <1>18, <1>19, <1>20 DEF Next, Coroutine, Call

\* Items of claims are opened while the run cannot be deleted.
LEMMA TodoRunKept == IInv /\ [Next]_vars => TodoHasRun'
<1> SUFFICES ASSUME IInv, [Next]_vars PROVE TodoHasRun'
  OBVIOUS
<1>0. TypeOK /\ TodoHasRun
  BY DEF IInv
<1> USE DEF TypeOK, Values, Stored, RowStates, Subjects, Decision, TodoHasRun
<1>1. ASSUME Review PROVE TodoHasRun'
  BY <1>0, <1>1 DEF Review, tables, coroutines, calls
<1>2. ASSUME PopulateQueue PROVE TodoHasRun'
  BY <1>0, <1>2 DEF PopulateQueue, tables, coroutines, calls
<1>3. ASSUME IncrementalStart PROVE TodoHasRun'
  BY <1>0, <1>3 DEF IncrementalStart, tables, coroutines, calls
<1>4. ASSUME IncrementalUpdate PROVE TodoHasRun'
  BY <1>0, <1>4, TokensAssumption DEF IncrementalUpdate, tables, coroutines, calls
<1>5. ASSUME Enqueue PROVE TodoHasRun'
  BY <1>0, <1>5 DEF Enqueue, tables, coroutines, calls
<1>6. ASSUME Enqueued PROVE TodoHasRun'
  BY <1>0, <1>6 DEF Enqueued, tables, coroutines, calls
<1>7. ASSUME EnqueueFails PROVE TodoHasRun'
  BY <1>0, <1>7 DEF EnqueueFails, tables, coroutines, calls, Fault
<1>8. ASSUME DeleteDecisions PROVE TodoHasRun'
  BY <1>0, <1>8 DEF DeleteDecisions, tables, coroutines, calls
<1>9. ASSUME DeleteItem PROVE TodoHasRun'
  BY <1>0, <1>9 DEF DeleteItem, tables, coroutines, calls
<1>10. ASSUME DeleteRun PROVE TodoHasRun'
  BY <1>0, <1>10 DEF DeleteRun, AllLocked, Orphaned, Unlocked, tables, coroutines, calls
<1>11. ASSUME DeleteRefused PROVE TodoHasRun'
  BY <1>0, <1>11 DEF DeleteRefused, AllLocked, Unlocked, tables, coroutines, calls
<1>12. ASSUME Crash PROVE TodoHasRun'
  BY <1>0, <1>12 DEF Crash, Unlocked, tables, coroutines, calls, Fault
<1>13. ASSUME NEW r \in Requests, Arrive(r) PROVE TodoHasRun'
  BY <1>0, <1>13 DEF Arrive, Step, tables, coroutines, calls
<1>14. ASSUME NEW r \in Requests, LockRow(r) PROVE TodoHasRun'
  BY <1>0, <1>14 DEF LockRow, Step, tables, coroutines, calls
<1>15. ASSUME NEW r \in Requests, Refuse(r) PROVE TodoHasRun'
  BY <1>0, <1>15 DEF Refuse, Step, tables, coroutines, calls
<1>16. ASSUME NEW r \in Requests, Record(r) PROVE TodoHasRun'
  BY <1>0, <1>16 DEF Record, Step, tables, coroutines, calls
<1>17. ASSUME NEW r \in Requests, Notify(r) PROVE TodoHasRun'
  BY <1>0, <1>17 DEF Notify, Report, Step, tables, coroutines, calls, Fault
<1>18. ASSUME NEW r \in Requests, Reply(r) PROVE TodoHasRun'
  BY <1>0, <1>18 DEF Reply, Step, tables, coroutines, calls
<1>19. ASSUME NEW r \in Requests, RollBack(r) PROVE TodoHasRun'
  BY <1>0, <1>19 DEF RollBack, Unlocked, tables, coroutines, calls, Fault
<1>20. CASE UNCHANGED vars
  BY <1>0, <1>20 DEF vars, tables, coroutines, calls
<1>21. QED
  BY <1>1, <1>2, <1>3, <1>4, <1>5, <1>6, <1>7, <1>8, <1>9, <1>10, <1>11, <1>12, <1>13,
     <1>14, <1>15, <1>16, <1>17, <1>18, <1>19, <1>20 DEF Next, Coroutine, Call

\* After a deletion nothing of the run's claims comes back.
LEMMA DeletionKept == IInv /\ [Next]_vars => DeletedLeavesNothing'
<1> SUFFICES ASSUME IInv, [Next]_vars PROVE DeletedLeavesNothing'
  OBVIOUS
<1>0. TypeOK /\ DeletedLeavesNothing /\ TwoTablesAgree /\ TodoHasRun /\ LocksProtect /\ CallsAreMeant
  BY DEF IInv
<1> USE DEF TypeOK, Values, Stored, RowStates, Subjects, Decision, DeletedLeavesNothing,
   TwoTablesAgree, TodoHasRun, Present, LocksProtect, CallsAreMeant
<1>1. ASSUME Review PROVE DeletedLeavesNothing'
  BY <1>0, <1>1 DEF Review, tables, coroutines, calls
<1>2. ASSUME PopulateQueue PROVE DeletedLeavesNothing'
  BY <1>0, <1>2 DEF PopulateQueue, tables, coroutines, calls
<1>3. ASSUME IncrementalStart PROVE DeletedLeavesNothing'
  BY <1>0, <1>3 DEF IncrementalStart, tables, coroutines, calls
<1>4. ASSUME IncrementalUpdate PROVE DeletedLeavesNothing'
  BY <1>0, <1>4 DEF IncrementalUpdate, tables, coroutines, calls
<1>5. ASSUME Enqueue PROVE DeletedLeavesNothing'
  BY <1>0, <1>5, FreshItem DEF Enqueue, tables, coroutines, calls
<1>6. ASSUME Enqueued PROVE DeletedLeavesNothing'
  BY <1>0, <1>6 DEF Enqueued, tables, coroutines, calls
<1>7. ASSUME EnqueueFails PROVE DeletedLeavesNothing'
  BY <1>0, <1>7 DEF EnqueueFails, tables, coroutines, calls, Fault
<1>8. ASSUME DeleteDecisions PROVE DeletedLeavesNothing'
  BY <1>0, <1>8 DEF DeleteDecisions, tables, coroutines, calls
<1>9. ASSUME DeleteItem PROVE DeletedLeavesNothing'
  BY <1>0, <1>9 DEF DeleteItem, tables, coroutines, calls
<1>10. ASSUME DeleteRun PROVE DeletedLeavesNothing'
  BY <1>0, <1>10 DEF DeleteRun, AllLocked, Orphaned, Unlocked, tables, coroutines, calls
<1>11. ASSUME DeleteRefused PROVE DeletedLeavesNothing'
  BY <1>0, <1>11 DEF DeleteRefused, AllLocked, Unlocked, tables, coroutines, calls
<1>12. ASSUME Crash PROVE DeletedLeavesNothing'
  BY <1>0, <1>12 DEF Crash, Unlocked, tables, coroutines, calls, Fault
<1>13. ASSUME NEW r \in Requests, Arrive(r) PROVE DeletedLeavesNothing'
  BY <1>0, <1>13 DEF Arrive, Step, tables, coroutines, calls
<1>14. ASSUME NEW r \in Requests, LockRow(r) PROVE DeletedLeavesNothing'
  BY <1>0, <1>14 DEF LockRow, Step, tables, coroutines, calls
<1>15. ASSUME NEW r \in Requests, Refuse(r) PROVE DeletedLeavesNothing'
  BY <1>0, <1>15 DEF Refuse, Step, tables, coroutines, calls
<1>16. ASSUME NEW r \in Requests, Record(r) PROVE DeletedLeavesNothing'
  BY <1>0, <1>16 DEF Record, Step, tables, coroutines, calls
<1>17. ASSUME NEW r \in Requests, Notify(r) PROVE DeletedLeavesNothing'
  BY <1>0, <1>17 DEF Notify, Report, Step, tables, coroutines, calls, Fault
<1>18. ASSUME NEW r \in Requests, Reply(r) PROVE DeletedLeavesNothing'
  BY <1>0, <1>18 DEF Reply, Step, tables, coroutines, calls
<1>19. ASSUME NEW r \in Requests, RollBack(r) PROVE DeletedLeavesNothing'
  BY <1>0, <1>19 DEF RollBack, Unlocked, tables, coroutines, calls, Fault
<1>20. CASE UNCHANGED vars
  BY <1>0, <1>20 DEF vars, tables, coroutines, calls
<1>21. QED
  BY <1>1, <1>2, <1>3, <1>4, <1>5, <1>6, <1>7, <1>8, <1>9, <1>10, <1>11, <1>12, <1>13,
     <1>14, <1>15, <1>16, <1>17, <1>18, <1>19, <1>20 DEF Next, Coroutine, Call

\* The queue starts empty.
LEMMA StartsEmpty == Init => IInv
<1> SUFFICES ASSUME Init PROVE IInv
  OBVIOUS
<1> USE DEF Init, Values, Stored, RowStates, Subjects
<1>1. Present = {}
  BY DEF Present
<1>2. TwoTablesAgree /\ CallsAreMeant /\ AnswersAreTrue /\ AuditIsTrue /\ TodoHasRun
  BY DEF TwoTablesAgree, CallsAreMeant, AnswersAreTrue, AuditIsTrue, TodoHasRun
<1>3. LocksProtect /\ GrantsAreKept
  BY TokensAssumption DEF LocksProtect, GrantsAreKept
<1>4. TodoIsNew /\ NoDuplicateItems /\ DeletedLeavesNothing
  BY <1>1 DEF TodoIsNew, NoDuplicateItems, DeletedLeavesNothing
<1>5. TypeOK
  <2>1. faults \in 0 .. MaxFaults
    BY FaultBoundAssumption
  <2>2. granted \in SUBSET Decision /\ audit \in SUBSET Decision
    OBVIOUS
  <2>3. QED
    BY <2>1, <2>2 DEF TypeOK
<1>6. QED
  BY <1>2, <1>3, <1>4, <1>5 DEF IInv

\* IInv holds in every reachable state.
THEOREM QueueInvariant == Spec => []IInv
<1>1. IInv /\ [Next]_vars => IInv'
  BY TypeKept, TablesKept, MeaningKept, LocksKept, GrantsKept, AnswersKept,
     AuditKept, TodoKept, SinglesKept, TodoRunKept, DeletionKept DEF IInv
<1>2. QED
  BY StartsEmpty, <1>1, PTL DEF Spec

\* The rows, locks, calls and events stay in their types.
THEOREM TypesHold == Spec => []TypeOK
<1>1. IInv => TypeOK
  BY DEF IInv
<1>2. QED
  BY QueueInvariant, <1>1, PTL

\* A decisions row and the status of its item never contradict each other.
THEOREM TablesAgree == Spec => []TwoTablesAgree
<1>1. IInv => TwoTablesAgree
  BY DEF IInv
<1>2. QED
  BY QueueInvariant, <1>1, PTL

\* What a caller is told about a decision is true and stays true.
THEOREM AnswersHold == Spec => []AnswersAreTrue
<1>1. IInv => AnswersAreTrue
  BY DEF IInv
<1>2. QED
  BY QueueInvariant, <1>1, PTL

\* The audit trail reports no decision that was not taken.
THEOREM AuditHolds == Spec => []AuditIsTrue
<1>1. IInv => AuditIsTrue
  BY DEF IInv
<1>2. QED
  BY QueueInvariant, <1>1, PTL

\* A claim has at most one item, whatever is retried or interrupted.
THEOREM ItemsAreUnique == Spec => []NoDuplicateItems
<1>1. IInv => NoDuplicateItems
  BY DEF IInv
<1>2. QED
  BY QueueInvariant, <1>1, PTL

\* Deleting a run leaves nothing of its claims.
THEOREM DeletionIsComplete == Spec => []DeletedLeavesNothing
<1>1. IInv => DeletedLeavesNothing
  BY DEF IInv
<1>2. QED
  BY QueueInvariant, <1>1, PTL

\* The verdicts granted, as the ledger sees them.
VerdictsOf(S) == {<<d.item, d.value>> : d \in S}

\* One more grant is one more verdict.
LEMMA OneMoreVerdict ==
  ASSUME NEW S, NEW d PROVE VerdictsOf(S \cup {d}) = VerdictsOf(S) \cup {<<d.item, d.value>>}
BY DEF VerdictsOf

\* A commit settles the item in the ledger.
LEMMA RecordSettles ==
  ASSUME IInv, NEW r \in Requests, Record(r)
  PROVE  \E i \in Items : \E v \in Values : Ledger!Settle(i, v)
<1>1. TypeOK /\ LocksProtect /\ CallsAreMeant
  BY DEF IInv
<1>2. /\ item[r] \in Items
      /\ value[r] \in Values
      /\ rows[item[r]] = "pending"
  BY <1>1 DEF Record, Step, LocksProtect, CallsAreMeant
<1>3. PICK i \in Items, v \in Values : i = item[r] /\ v = value[r]
  BY <1>2
<1>4. granted' = granted \cup {Asked(r)} /\ Asked(r).item = i /\ Asked(r).value = v
  BY <1>3 DEF Record, Asked
<1>5. VerdictsOf(granted') = VerdictsOf(granted) \cup {<<i, v>>}
  BY <1>4, OneMoreVerdict
<1>6. rows' = [rows EXCEPT ![i] = v]
  BY <1>3 DEF Record
<1>7. Ledger!Settle(i, v)
  BY <1>2, <1>3, <1>5, <1>6 DEF Ledger!Settle, VerdictsOf
<1>8. QED
  BY <1>7

\* A deletion purges the ledger.
LEMMA DeletePurges ==
  ASSUME IInv, DeleteRun PROVE Ledger!Purge
<1>1. TypeOK
  BY DEF IInv
<1>2. rows' = [i \in Items |-> IF rows[i] = "absent" THEN "absent" ELSE "deleted"]
  BY <1>1 DEF DeleteRun, Present, TypeOK, RowStates, Stored, Values
<1>3. granted' = granted
  BY DEF DeleteRun
<1>4. QED
  BY <1>2, <1>3 DEF Ledger!Purge

\* An insert opens an item of the ledger.
LEMMA EnqueueOpens ==
  ASSUME IInv, Enqueue PROVE \E i \in Items : Ledger!Open(i)
<1>1. NewItem \in Items /\ rows[NewItem] = "absent"
  BY FreshItem DEF Enqueue
<1>2. rows' = [rows EXCEPT ![NewItem] = "pending"] /\ granted' = granted
  BY DEF Enqueue
<1>3. Ledger!Open(NewItem)
  BY <1>1, <1>2 DEF Ledger!Open
<1>4. QED
  BY <1>1, <1>3

\* Every step of the store is a step of the ledger or leaves it alone.
LEMMA StepsOfTheLedger ==
  ASSUME IInv, [Next]_vars
  PROVE  [Ledger!Next]_<<rows, VerdictsOf(granted)>>
<1>1. CASE Enqueue
  BY <1>1, EnqueueOpens DEF Ledger!Next
<1>2. CASE \E r \in Requests : Record(r)
  BY <1>2, RecordSettles DEF Ledger!Next
<1>3. CASE DeleteRun
  BY <1>3, DeletePurges DEF Ledger!Next
<1>4. CASE UNCHANGED <<rows, granted>>
  BY <1>4 DEF VerdictsOf
<1>5. QED
  <2>1. CASE UNCHANGED vars
    BY <2>1, <1>4 DEF vars, tables
  <2>2. CASE Next
    BY <2>2, <1>1, <1>2, <1>3, <1>4
    DEF Next, Coroutine, Call, tables, Review, PopulateQueue, IncrementalStart,
        IncrementalUpdate, Enqueued, EnqueueFails, DeleteDecisions, DeleteItem,
        DeleteRefused, Crash, Arrive, LockRow, Refuse, Notify, Reply, RollBack
  <2>3. QED
    BY <2>1, <2>2

\* The two tables, the locks and the transactions implement a ledger that
\* gives every item at most one verdict and loses items only all together.
THEOREM StoreIsALedger == Spec => ImplementsLedger
<1>1. Init => Ledger!Init
  BY DEF Init, Ledger!Init
<1>2. IInv /\ [Next]_vars => [Ledger!Next]_<<rows, {<<d.item, d.value>> : d \in granted}>>
  BY StepsOfTheLedger DEF VerdictsOf
<1>3. QED
  BY QueueInvariant, <1>1, <1>2, PTL DEF Spec, ImplementsLedger, Ledger!Spec
=============================================================================
