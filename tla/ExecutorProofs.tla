--------------------------- MODULE ExecutorProofs ---------------------------
(***************************************************************************)
(* Proofs about ResumableExecutor.  In the thread-safe store the lock lets *)
(* one call inside; in the in-memory store a call that starts node n knows *)
(* that no call started it before, because it could insert the row, and    *)
(* that every node before n was written, because it read or wrote it.      *)
(* Either way the rows below a working call are final.                     *)
(***************************************************************************)
EXTENDS ResumableExecutor, TLAPS

\* Node m has ended, and with the in-memory store its checkpoint can be read.
Behind(m) == /\ rows[m].status \in Outcomes
             /\ store = "inmemory" => memory[m] = rows[m]

\* A state that has passed the first n nodes, each once.
Whole(applied, n) ==
  \A m \in Steps :
    /\ m <= n => \/ applied[m] = 1
                 \/ applied[m] = 0 /\ rows[m].status \in {"skipped", "error"}
    /\ m > n => applied[m] = 0

\* What the store holds: nodes end in order, and the output of a checkpoint
\* is the state that passed the nodes up to it.
StoreInOrder ==
  \A n \in Steps :
    /\ rows[n].status \in Done => /\ Whole(rows[n].output, n)
                                  /\ \A m \in 1..n - 1 : Behind(m)
    /\ store = "inmemory" =>
         /\ memory[n].status = "none" \/ Behind(n)
         /\ rows[n].status # "none" => \A m \in 1..n - 1 : Behind(m)

\* The lock of the thread-safe store: whoever is inside holds it, alone.
LockHeld ==
  /\ \A c \in Calls : pc[c] \in Inside \cup {"try", "wait"} => lock \in Calls
  /\ store = "threadsafe" =>
       /\ \A c \in Calls : /\ pc[c] \in Inside => acquired[c] /\ lock \in held
                           /\ pc[c] # "make"
       /\ \A c, d \in Calls : pc[c] \in Inside /\ pc[d] \in Inside => c = d

\* Where a call is, as far as the rows tell.
Placed(c) ==
  /\ pc[c] \in {"loop", "create"} \cup Working =>
       at[c] \in Steps /\ \A m \in 1..at[c] - 1 : Behind(m)
  /\ pc[c] \in {"loop", "create"} \cup Working /\ store = "threadsafe" =>
       \A m \in Steps : m >= at[c] => rows[m].status \notin Done
  /\ pc[c] \in {"node", "write"} => rows[at[c]].status = "running"
  /\ pc[c] = "remember" => /\ store = "inmemory"
                           /\ rows[at[c]] = Output(c)
                           /\ memory[at[c]].status = "none"

\* What the call's state has been through.
Carried(c) ==
  /\ pc[c] \in {"loop", "create", "node"} => Whole(state[c].applied, at[c] - 1)
  /\ pc[c] \in {"write", "remember"} =>
       /\ state[c].status \in Outcomes
       /\ state[c].applied[at[c]] = IF state[c].status = "completed" THEN 1 ELSE 0
       /\ Whole([state[c].applied EXCEPT ![at[c]] = 0], at[c] - 1)
  /\ pc[c] \in {"idle", "look", "make", "try", "wait", "clean", "read"} =>
       state[c].applied = Fresh
  /\ pc[c] = "leave" /\ result[c] = "done" => Whole(state[c].applied, NodeCount)
  /\ pc[c] # "leave" /\ pc[c] # "over" => result[c] = "none"

ExecutorInv ==
  /\ TypeOK
  /\ StoreInOrder
  /\ LockHeld
  /\ OneNodeAtATime
  /\ \A c \in Calls : Placed(c) /\ Carried(c)
-----------------------------------------------------------------------------
(* Types *)

\* Counting a node leaves a state a state, and so does replacing its status.
LEMMA StatesTyped ==
  ASSUME NEW x \in State, NEW n \in Steps, NEW k \in Nat,
         NEW t \in Outcomes \cup {"pending", "cancelled"}
  PROVE  /\ [x EXCEPT !.status = t] \in State
         /\ [x EXCEPT !.status = t, !.applied[n] = k] \in State
BY DEF State, Applied, Steps

\* What a node may do to the state of its call keeps it typed.
LEMMA RunNodeTyped ==
  ASSUME TypeOK, NEW c \in Calls, RunNode(c), at[c] \in Steps
  PROVE  state' \in [Calls -> State]
<1>1. PICK s \in Outcomes :
        state' = [state EXCEPT ![c].status = s,
                    ![c].applied[at[c]] = IF s = "completed" THEN @ + 1 ELSE @]
  BY DEF RunNode
<1> DEFINE k == IF s = "completed" THEN state[c].applied[at[c]] + 1
                                   ELSE state[c].applied[at[c]]
<1>2. state[c] \in State /\ k \in Nat
  BY DEF TypeOK, State, Applied
<1>3. state' = [state EXCEPT ![c] = [state[c] EXCEPT !.status = s, !.applied[at[c]] = k]]
  BY <1>1, <1>2 DEF TypeOK, State
<1>4. [state[c] EXCEPT !.status = s, !.applied[at[c]] = k] \in State
  BY <1>2, StatesTyped
<1> QED BY <1>3, <1>4 DEF TypeOK

\* The type invariant is inductive: a call that runs a node is at a node.
LEMMA TypeStep ==
  ASSUME TypeOK, [Next]_vars,
         \A c \in Calls : /\ pc[c] \in {"loop", "create"} \cup Working => at[c] \in Steps
                          /\ pc[c] \in {"try", "wait"} => lock \in Calls
                          /\ pc[c] \in {"write", "remember"} => state[c].status \in Outcomes
  PROVE  TypeOK'
<1> USE NodeAssumption
<1>1. CASE UNCHANGED vars
  BY <1>1 DEF TypeOK, vars
<1>2. CASE Signal
  BY <1>2 DEF TypeOK, Signal
<1>3. ASSUME NEW c \in Calls, Call(c) PROVE TypeOK'
  BY <1>3 DEF TypeOK, Call, Goto, PCs
<1>4. ASSUME NEW c \in Calls, Wait(c) PROVE TypeOK'
  <2>1. lock \in Calls
    BY <1>4 DEF Wait, Goto
  <2> QED BY <1>4, <2>1 DEF TypeOK, Wait, Take, Goto, PCs, Inside
<1>5. ASSUME NEW c \in Calls, Look(c) PROVE TypeOK'
  BY <1>5 DEF TypeOK, Look, Goto, PCs
<1>6. ASSUME NEW c \in Calls, Make(c) PROVE TypeOK'
  BY <1>6 DEF TypeOK, Make, Goto, PCs
<1>7. ASSUME NEW c \in Calls, Try(c) PROVE TypeOK'
  <2>1. pc' \in [Calls -> PCs]
    BY <1>7 DEF TypeOK, Try, Goto, PCs, Inside
  <2>2. lock \in Calls
    BY <1>7 DEF Try, Goto
  <2> QED BY <1>7, <2>1, <2>2 DEF TypeOK, Try, Take
<1>8. ASSUME NEW c \in Calls, Clean(c) PROVE TypeOK'
  <2>1. \A n \in Steps : [rows[n] EXCEPT !.status = "failed"] \in Row
    BY DEF TypeOK, Row
  <2>2. rows' \in [Steps -> Row]
    BY <1>8, <2>1 DEF TypeOK, Clean
  <2> QED BY <1>8, <2>2 DEF TypeOK, Clean, Goto, PCs, Inside
<1>9. ASSUME NEW c \in Calls, Read(c) PROVE TypeOK'
  <2>1. PICK n \in 0..NodeCount :
          /\ IsLast(n)
          /\ at' = [at EXCEPT ![c] = n + 1]
          /\ state' = [state EXCEPT ![c] =
               IF n = 0 THEN @ ELSE [status  |-> Checkpoints[n].status,
                                     applied |-> Checkpoints[n].output]]
          /\ \/ n = NodeCount /\ Return(c, "read", "done")
             \/ n < NodeCount /\ Goto(c, "read", "loop") /\ UNCHANGED result
    BY <1>9 DEF Read
  <2>2. n # 0 => [status |-> Checkpoints[n].status, applied |-> Checkpoints[n].output] \in State
    BY <2>1 DEF IsLast, Checkpoints, TypeOK, Row, State, Done, Outcomes, Steps
  <2>3. state' \in [Calls -> State]
    BY <2>1, <2>2 DEF TypeOK
  <2>4. n + 1 \in 1..NodeCount + 1
    BY <2>1
  <2>5. pc' \in [Calls -> PCs] /\ result' \in [Calls -> {"none", "done", "cancelled", "raised"}]
    BY <2>1 DEF TypeOK, Return, Goto, PCs, Inside
  <2> QED BY <1>9, <2>1, <2>3, <2>4, <2>5 DEF TypeOK, Read
<1>10. ASSUME NEW c \in Calls, Loop(c) PROVE TypeOK'
  <2>1. state' \in [Calls -> State]
    BY <1>10 DEF TypeOK, Loop, State
  <2> QED BY <1>10, <2>1 DEF TypeOK, Loop, Return, Goto, PCs, Inside
<1>11. ASSUME NEW c \in Calls, Create(c) PROVE TypeOK'
  BY <1>11 DEF TypeOK, Create, Goto, PCs, Inside, Working, Row, Applied, Fresh
<1>12. ASSUME NEW c \in Calls, RunNode(c) PROVE TypeOK'
  <2>1. at[c] \in Steps
    BY <1>12 DEF RunNode, Goto, Working
  <2>2. state' \in [Calls -> State]
    BY <1>12, <2>1, RunNodeTyped
  <2> QED BY <1>12, <2>2 DEF TypeOK, RunNode, Goto, PCs, Inside, Working
<1>13. ASSUME NEW c \in Calls, Raise(c) PROVE TypeOK'
  BY <1>13 DEF TypeOK, Raise, Return, Goto, PCs, Inside
<1>14. ASSUME NEW c \in Calls, NEW from, Advance(c, from), at[c] \in Steps
       PROVE  /\ pc' \in [Calls -> PCs] /\ at' \in [Calls -> 1..NodeCount + 1]
              /\ result' \in [Calls -> {"none", "done", "cancelled", "raised"}]
  <2>1. pc' \in [Calls -> PCs]
    BY <1>14 DEF TypeOK, Advance, Return, Goto, PCs, Inside
  <2>2. at' \in [Calls -> 1..NodeCount + 1]
    BY <1>14 DEF TypeOK, Advance, Steps
  <2>3. result' \in [Calls -> {"none", "done", "cancelled", "raised"}]
    BY <1>14 DEF TypeOK, Advance, Return
  <2> QED BY <2>1, <2>2, <2>3
<1>15. ASSUME NEW c \in Calls, pc[c] \in {"write", "remember"}
       PROVE  Output(c) \in Row /\ at[c] \in Steps
  BY <1>15 DEF TypeOK, Output, State, Row, Working
<1>16. ASSUME NEW c \in Calls, Write(c) PROVE TypeOK'
  <2>1. pc[c] = "write"
    BY <1>16 DEF Write, Advance, Return, Goto
  <2>2. rows' \in [Steps -> Row]
    BY <1>16, <1>15, <2>1 DEF Write, TypeOK
  <2>3. CASE Advance(c, "write")
    BY <1>16, <1>14, <1>15, <2>1, <2>2, <2>3 DEF Write, TypeOK
  <2>4. CASE Goto(c, "write", "remember") /\ UNCHANGED <<at, result>>
    <3>1. pc' \in [Calls -> PCs]
      BY <2>4 DEF TypeOK, Goto, PCs, Inside, Working
    <3> QED BY <1>16, <2>2, <2>4, <3>1 DEF Write, TypeOK
  <2> QED BY <1>16, <2>3, <2>4 DEF Write
<1>17. ASSUME NEW c \in Calls, Remember(c) PROVE TypeOK'
  <2>1. pc[c] = "remember"
    BY <1>17 DEF Remember, Advance, Return, Goto
  <2>2. memory' \in [Steps -> Row]
    BY <1>17, <1>15, <2>1 DEF Remember, TypeOK
  <2> QED BY <1>17, <1>14, <1>15, <2>1, <2>2 DEF Remember, TypeOK
<1>18. ASSUME NEW c \in Calls, Leave(c) PROVE TypeOK'
  BY <1>18 DEF TypeOK, Leave, Goto, PCs
<1> QED BY <1>1, <1>2, <1>3, <1>4, <1>5, <1>6, <1>7, <1>8, <1>9, <1>10, <1>11,
           <1>12, <1>13, <1>16, <1>17, <1>18 DEF Next, Execute

-----------------------------------------------------------------------------
(* Steps that leave the store's contents and the states alone *)

\* Steps of the lock and of the environment: a call only changes its place,
\* and lands where nothing is asked of its rows.
LEMMA QuietStep ==
  ASSUME ExecutorInv, TypeOK', LockHeld', NEW c \in Calls,
         NEW to \in {"look", "make", "try", "wait", "clean", "over"},
         pc' = [pc EXCEPT ![c] = to],
         to # "over" => pc[c] \in {"idle", "look", "make", "try", "wait"},
         UNCHANGED <<store, rows, memory, at, state, result>>
  PROVE  ExecutorInv'
<1>1. StoreInOrder'
  BY DEF ExecutorInv, StoreInOrder, Whole, Behind
<1>2. OneNodeAtATime'
  BY DEF ExecutorInv, OneNodeAtATime, Working, TypeOK
<1>3. ASSUME NEW d \in Calls PROVE Placed(d)' /\ Carried(d)'
  <2>1. Placed(d) /\ Carried(d) BY DEF ExecutorInv
  <2>2. CASE d = c
    BY <2>1, <2>2 DEF ExecutorInv, TypeOK, Placed, Carried, Working
  <2>3. CASE d # c
    <3>1. pc'[d] = pc[d] BY <2>3 DEF ExecutorInv, TypeOK
    <3> QED BY <2>1, <3>1 DEF Placed, Carried, Whole, Behind, Output
  <2> QED BY <2>2, <2>3
<1> QED BY <1>1, <1>2, <1>3 DEF ExecutorInv

\* A call that stays inside keeps the lock as it is.
LEMMA StaysInside ==
  ASSUME ExecutorInv, NEW c \in Calls, NEW to \in Inside,
         pc[c] \in Inside, pc' = [pc EXCEPT ![c] = to],
         UNCHANGED <<store, lock, held, acquired>>
  PROVE  LockHeld'
BY DEF ExecutorInv, LockHeld, TypeOK, Inside, Working

LEMMA LockSteps ==
  ASSUME ExecutorInv, TypeOK', NEW c \in Calls,
         Call(c) \/ Look(c) \/ Make(c) \/ Try(c) \/ Wait(c) \/ Leave(c)
  PROVE  ExecutorInv'
<1> USE LockAssumption
<1>1. CASE Call(c)
  <2>1. LockHeld'
    BY <1>1 DEF ExecutorInv, LockHeld, Call, Goto, TypeOK, Inside, Working
  <2> QED BY <1>1, <2>1, QuietStep DEF Call, Goto
<1>2. CASE Look(c)
  <2>1. LockHeld'
    BY <1>2 DEF ExecutorInv, LockHeld, Look, Goto, TypeOK, Inside, Working
  <2> QED BY <1>2, <2>1, QuietStep DEF Look, Goto
<1>3. CASE Make(c)
  <2>1. LockHeld'
    BY <1>3 DEF ExecutorInv, LockHeld, Make, Goto, TypeOK, Inside, Working
  <2> QED BY <1>3, <2>1, QuietStep DEF Make, Goto
<1>4. CASE Try(c)
  <2>1. LockHeld'
    BY <1>4 DEF ExecutorInv, LockHeld, Try, Take, Goto, TypeOK, Inside, Working
  <2> QED BY <1>4, <2>1, QuietStep DEF Try, Goto
<1>5. CASE Wait(c)
  <2>1. LockHeld'
    BY <1>5 DEF ExecutorInv, LockHeld, Wait, Take, Goto, TypeOK, Inside, Working
  <2> QED BY <1>5, <2>1, QuietStep DEF Wait, Goto
<1>6. CASE Leave(c)
  <2>1. LockHeld'
    BY <1>6 DEF ExecutorInv, LockHeld, Leave, Goto, TypeOK, Inside, Working
  <2> QED BY <1>6, <2>1, QuietStep DEF Leave, Goto
<1> QED BY <1>1, <1>2, <1>3, <1>4, <1>5, <1>6

-----------------------------------------------------------------------------
(* Steps inside *)

\* A call that is inside the thread-safe store's lock is there alone.
LEMMA Alone ==
  ASSUME ExecutorInv, store = "threadsafe",
         NEW c \in Calls, NEW d \in Calls, pc[c] \in Inside, pc[d] \in Inside
  PROVE  c = d
BY DEF ExecutorInv, LockHeld

\* Steps inside that neither write rows nor move the call to a node.
LEMMA PlainSteps ==
  ASSUME ExecutorInv, TypeOK', NEW c \in Calls, Loop(c) \/ Raise(c)
  PROVE  ExecutorInv'
<1>1. PICK to \in {"create", "leave"} :
        /\ pc' = [pc EXCEPT ![c] = to]
        /\ to = "create" => pc[c] = "loop"
        /\ pc[c] \in {"loop", "create", "node", "write"}
  BY DEF Loop, Raise, Return, Goto
<1>2. /\ UNCHANGED <<store, rows, memory, lock, held, at, acquired>>
      /\ \A d \in Calls : state'[d].applied = state[d].applied
      /\ \A d \in Calls : d # c => state'[d] = state[d]
      /\ \A d \in Calls : d # c => result'[d] = result[d]
      /\ to = "leave" => result'[c] # "done"
      /\ to = "create" => result'[c] = result[c]
  BY <1>1 DEF Loop, Raise, Return, Goto, ExecutorInv, TypeOK, State
<1>3. LockHeld'
  BY <1>1, <1>2, StaysInside DEF Inside, Working
<1>4. StoreInOrder'
  BY <1>2 DEF ExecutorInv, StoreInOrder, Whole, Behind
<1>5. OneNodeAtATime'
  BY <1>1 DEF ExecutorInv, OneNodeAtATime, Working, TypeOK
<1>6. ASSUME NEW d \in Calls PROVE Placed(d)' /\ Carried(d)'
  <2>1. Placed(d) /\ Carried(d) BY DEF ExecutorInv
  <2>2. CASE d = c
    <3>1. pc'[d] = to BY <1>1, <2>2 DEF ExecutorInv, TypeOK
    <3>2. Placed(d)'
      BY <1>1, <1>2, <2>1, <2>2, <3>1 DEF Placed, Behind, Working
    <3>3. Carried(d)'
      BY <1>1, <1>2, <2>1, <2>2, <3>1 DEF Carried, Whole
    <3> QED BY <3>2, <3>3
  <2>3. CASE d # c
    <3>1. pc'[d] = pc[d] BY <1>1, <2>3 DEF ExecutorInv, TypeOK
    <3> QED BY <1>2, <2>1, <2>3, <3>1 DEF Placed, Carried, Whole, Behind, Output
  <2> QED BY <2>2, <2>3
<1> QED BY <1>3, <1>4, <1>5, <1>6 DEF ExecutorInv

LEMMA CleanStep ==
  ASSUME ExecutorInv, TypeOK', NEW c \in Calls, Clean(c)
  PROVE  ExecutorInv'
<1>1. /\ pc[c] = "clean" /\ pc' = [pc EXCEPT ![c] = "read"]
      /\ UNCHANGED <<store, memory, lock, held, at, acquired, state, result>>
  BY DEF Clean, Goto
<1>2. LockHeld'
  BY <1>1, StaysInside DEF Inside
<1>3. OneNodeAtATime'
  BY <1>1 DEF ExecutorInv, OneNodeAtATime, Working, TypeOK
<1>4. \A n \in Steps :
        /\ rows[n].status # "running" => rows'[n] = rows[n]
        /\ rows'[n].status \in Outcomes \/ rows[n].status \in Outcomes => rows'[n] = rows[n]
        /\ store = "inmemory" => rows'[n] = rows[n]
  BY DEF Clean, ExecutorInv, TypeOK, Row, Outcomes
<1>5. \A n \in Steps : Behind(n) => Behind(n)'
  BY <1>1, <1>4 DEF Behind
<1>6. \A f \in Applied, n \in 0..NodeCount : Whole(f, n) => Whole(f, n)'
  BY <1>4 DEF Whole, Outcomes
<1>7. StoreInOrder'
  BY <1>1, <1>4, <1>5, <1>6, NodeAssumption
     DEF ExecutorInv, StoreInOrder, TypeOK, Row, Done, Outcomes, Steps
<1>8. ASSUME NEW d \in Calls PROVE Placed(d)' /\ Carried(d)'
  <2>1. Placed(d) /\ Carried(d) BY DEF ExecutorInv
  <2>2. CASE d = c
    BY <1>1, <2>1, <2>2 DEF ExecutorInv, TypeOK, Placed, Carried, Working
  <2>3. CASE d # c
    <3>1. pc'[d] = pc[d] BY <1>1, <2>3 DEF ExecutorInv, TypeOK
    <3>2. store = "threadsafe" => pc[d] \notin Inside
      BY <1>1, <2>3, Alone DEF Inside
    <3>3. CASE store = "inmemory"
      <4>1. rows' = rows BY <3>3 DEF Clean
      <4> QED BY <1>1, <2>1, <3>1, <4>1 DEF Placed, Carried, Whole, Behind, Output
    <3>4. CASE store = "threadsafe"
      BY <1>1, <2>1, <3>1, <3>2, <3>4 DEF Placed, Carried, Inside, Working
    <3> QED BY <3>3, <3>4 DEF ExecutorInv, TypeOK
  <2> QED BY <2>2, <2>3
<1> QED BY <1>2, <1>3, <1>7, <1>8 DEF ExecutorInv

LEMMA ReadStep ==
  ASSUME ExecutorInv, TypeOK', NEW c \in Calls, Read(c)
  PROVE  ExecutorInv'
<1> USE NodeAssumption
<1>1. PICK n \in 0..NodeCount :
        /\ IsLast(n)
        /\ at' = [at EXCEPT ![c] = n + 1]
        /\ state' = [state EXCEPT ![c] =
             IF n = 0 THEN @ ELSE [status  |-> Checkpoints[n].status,
                                   applied |-> Checkpoints[n].output]]
        /\ \/ n = NodeCount /\ Return(c, "read", "done")
           \/ n < NodeCount /\ Goto(c, "read", "loop") /\ UNCHANGED result
  BY DEF Read
<1>2. /\ pc[c] = "read"
      /\ UNCHANGED <<store, lock, held, rows, memory, acquired>>
  BY <1>1 DEF Read, Return, Goto
<1>3. PICK to \in {"leave", "loop"} :
        /\ pc' = [pc EXCEPT ![c] = to]
        /\ to = "loop" => n < NodeCount /\ result' = result
        /\ to = "leave" => n = NodeCount /\ result' = [result EXCEPT ![c] = "done"]
  BY <1>1 DEF Return, Goto
<1>4. LockHeld'
  BY <1>2, <1>3, StaysInside DEF Inside
<1>5. StoreInOrder'
  BY <1>2 DEF ExecutorInv, StoreInOrder, Whole, Behind
<1>6. OneNodeAtATime'
  BY <1>3 DEF ExecutorInv, OneNodeAtATime, Working, TypeOK
<1>7. n # 0 => /\ rows[n].status \in Done
               /\ Checkpoints[n] = rows[n]
               /\ Behind(n)
  BY <1>1 DEF IsLast, Checkpoints, ExecutorInv, StoreInOrder, Behind, TypeOK, Row,
              Done, Outcomes, Steps
<1>8. \A m \in 1..n : Behind(m)
  BY <1>7 DEF ExecutorInv, StoreInOrder, Steps
<1>9. Whole(state'[c].applied, n)
  <2>1. CASE n = 0
    BY <1>1, <1>2, <2>1 DEF ExecutorInv, Carried, Whole, Fresh, TypeOK, Steps
  <2>2. CASE n # 0
    BY <1>1, <1>7, <2>2 DEF ExecutorInv, StoreInOrder, TypeOK, Steps
  <2> QED BY <2>1, <2>2
<1>10. at'[c] = n + 1 /\ (n + 1) - 1 = n
  BY <1>1 DEF ExecutorInv, TypeOK
<1>11. ASSUME NEW d \in Calls PROVE Placed(d)' /\ Carried(d)'
  <2>1. Placed(d) /\ Carried(d) BY DEF ExecutorInv
  <2>2. CASE d = c
    <3>1. pc'[d] = to BY <1>3, <2>2 DEF ExecutorInv, TypeOK
    <3>2. Placed(d)'
      <4>1. store = "threadsafe" => \A m \in Steps : m >= n + 1 => rows[m].status \notin Done
        BY <1>1 DEF IsLast, Checkpoints, Steps
      <4> QED BY <1>2, <1>3, <1>8, <1>10, <2>2, <3>1, <4>1
              DEF Placed, Behind, Working, Steps
    <3>3. Carried(d)'
      <4>1. to = "leave" => Whole(state[c].applied, NodeCount)'
        BY <1>2, <1>3, <1>9 DEF Whole
      <4>2. to = "loop" => Whole(state[c].applied, at[c] - 1)'
        BY <1>2, <1>9, <1>10 DEF Whole
      <4>3. to = "loop" => result'[c] = "none"
        BY <1>2, <1>3, <2>1, <2>2 DEF Carried
      <4> QED BY <1>3, <2>2, <3>1, <4>1, <4>2, <4>3 DEF Carried
    <3> QED BY <3>2, <3>3
  <2>3. CASE d # c
    <3>1. /\ pc'[d] = pc[d] /\ state'[d] = state[d] /\ at'[d] = at[d]
          /\ result'[d] = result[d]
      BY <1>1, <1>3, <2>3 DEF ExecutorInv, TypeOK
    <3> QED BY <1>2, <2>1, <3>1 DEF Placed, Carried, Whole, Behind, Output
  <2> QED BY <2>2, <2>3
<1> QED BY <1>4, <1>5, <1>6, <1>11 DEF ExecutorInv

\* Whoever inserts the row of a step is the only one at a node: the others
\* inside a node are at a step whose row is there, or whose turn has passed.
LEMMA CreateIsAlone ==
  ASSUME ExecutorInv, NEW c \in Calls, NEW d \in Calls, Create(c), pc[d] \in Working
  PROVE  c = d
<1>1. /\ pc[c] = "create" /\ Placed(c) /\ Placed(d) /\ Carried(d)
      /\ at[c] \in Steps /\ at[d] \in Steps
  BY DEF Create, Goto, ExecutorInv, Placed, Working
<1>2. CASE store = "threadsafe"
  BY <1>1, <1>2, Alone DEF Inside
<1>3. CASE store = "inmemory"
  <2>1. rows[at[c]].status = "none" BY <1>3 DEF Create
  <2>2. ~(at[c] < at[d])
    BY <1>1, <2>1 DEF Placed, Behind, Outcomes, Steps, Working
  <2>3. at[c] # at[d]
    BY <1>1, <2>1 DEF Placed, Carried, Output, Working, Outcomes
  <2>4. ~(at[d] < at[c])
    <3>1. at[d] < at[c] => Behind(at[d])
      BY <1>1 DEF Placed, Steps
    <3>2. ~Behind(at[d])
      BY <1>1, <1>3 DEF Placed, Carried, Behind, Output, Working, Outcomes
    <3> QED BY <3>1, <3>2
  <2> QED BY <1>1, <2>2, <2>3, <2>4 DEF Steps
<1> QED BY <1>2, <1>3 DEF ExecutorInv, TypeOK

LEMMA CreateStep ==
  ASSUME ExecutorInv, TypeOK', NEW c \in Calls, Create(c)
  PROVE  ExecutorInv'
<1>1. /\ pc[c] = "create" /\ pc' = [pc EXCEPT ![c] = "node"]
      /\ UNCHANGED <<store, memory, lock, held, at, acquired, state, result>>
      /\ rows' = [rows EXCEPT ![at[c]] = [status |-> "running", output |-> Fresh]]
  BY DEF Create, Goto
<1>2. /\ Placed(c) /\ Carried(c) /\ at[c] \in Steps
      /\ \A n \in Steps : n # at[c] => rows'[n] = rows[n]
      /\ rows'[at[c]].status = "running"
  BY <1>1 DEF ExecutorInv, Placed, TypeOK
<1>3. LockHeld'
  BY <1>1, StaysInside DEF Inside, Working
<1>4. OneNodeAtATime'
  <2>1. \A d \in Calls : pc'[d] \in Working => d = c
    BY <1>1, CreateIsAlone DEF ExecutorInv, TypeOK
  <2> QED BY <2>1 DEF OneNodeAtATime
<1>5. store = "inmemory" => rows[at[c]].status = "none"
  BY DEF Create
<1>6. /\ rows[at[c]].status \notin Done
      /\ \A m \in Steps : rows[m].status \in Done => m < at[c]
      /\ store = "inmemory" => memory[at[c]].status = "none"
  <2>1. CASE store = "threadsafe"
    BY <1>1, <1>2, <2>1 DEF Placed, Steps
  <2>2. CASE store = "inmemory"
    <3>1. \A m \in Steps : m > at[c] => rows[m].status = "none"
      BY <1>2, <1>5, <2>2 DEF ExecutorInv, StoreInOrder, Behind, Outcomes, Steps
    <3>2. memory[at[c]].status = "none"
      BY <1>2, <1>5, <2>2 DEF ExecutorInv, StoreInOrder, Behind, Outcomes
    <3> QED BY <1>2, <1>5, <2>2, <3>1, <3>2 DEF Done, Steps
  <2> QED BY <2>1, <2>2 DEF ExecutorInv, TypeOK
<1>7. \A m \in Steps : m # at[c] /\ Behind(m) => Behind(m)'
  BY <1>1, <1>2 DEF Behind
<1>8. \A f, n \in 0..NodeCount : n < at[c] /\ Whole(f, n) => Whole(f, n)'
  BY <1>2 DEF Whole, Steps
<1>9. StoreInOrder'
  <2> SUFFICES ASSUME NEW n \in Steps
               PROVE  /\ rows'[n].status \in Done => /\ Whole(rows[n].output, n)'
                                                     /\ \A m \in 1..n - 1 : Behind(m)'
                      /\ store' = "inmemory" =>
                           /\ memory'[n].status = "none" \/ Behind(n)'
                           /\ rows'[n].status # "none" => \A m \in 1..n - 1 : Behind(m)'
    BY DEF StoreInOrder
  <2>1. rows'[n].status \in Done => /\ Whole(rows[n].output, n)'
                                     /\ \A m \in 1..n - 1 : Behind(m)'
    <3>1. ASSUME rows'[n].status \in Done PROVE rows'[n] = rows[n] /\ n < at[c]
      BY <1>2, <1>6, <3>1 DEF Done
    <3>2. ASSUME rows'[n].status \in Done PROVE Whole(rows[n].output, n)'
      <4>1. Whole(rows[n].output, n)
        BY <3>1, <3>2 DEF ExecutorInv, StoreInOrder
      <4>2. rows'[n].output = rows[n].output BY <3>1, <3>2
      <4> QED BY <1>2, <3>1, <3>2, <4>1, <4>2 DEF Whole, Steps
    <3>3. ASSUME rows'[n].status \in Done PROVE \A m \in 1..n - 1 : Behind(m)'
      BY <1>2, <1>7, <3>1, <3>3, NodeAssumption DEF ExecutorInv, StoreInOrder, Steps
    <3> QED BY <3>2, <3>3
  <2>2. ASSUME store' = "inmemory" PROVE memory'[n].status = "none" \/ Behind(n)'
    BY <1>1, <1>6, <1>7, <2>2 DEF ExecutorInv, StoreInOrder
  <2>3. ASSUME store' = "inmemory", rows'[n].status # "none", NEW m \in 1..n - 1
        PROVE  Behind(m)'
    <3>1. n <= at[c]
      BY <1>1, <1>2, <1>5, <2>3 DEF ExecutorInv, StoreInOrder, Behind, Outcomes, Steps
    <3>2. Behind(m)
      BY <1>1, <1>2, <2>3 DEF ExecutorInv, StoreInOrder, Placed
    <3> QED BY <1>2, <1>7, <3>1, <3>2, NodeAssumption DEF Steps
  <2> QED BY <2>1, <2>2, <2>3
<1>10. ASSUME NEW d \in Calls PROVE Placed(d)' /\ Carried(d)'
  <2>1. Placed(d) /\ Carried(d) BY DEF ExecutorInv
  <2>2. CASE d = c
    <3>1. pc'[d] = "node" BY <1>1, <2>2 DEF ExecutorInv, TypeOK
    <3>2. \A m \in 1..at[c] - 1 : Behind(m)'
      BY <1>1, <1>2, <1>7, NodeAssumption DEF Placed, Steps
    <3>3. Placed(d)'
      BY <1>1, <1>2, <1>6, <2>2, <3>1, <3>2 DEF Placed, Working, Done
    <3>4. Whole(state[c].applied, at[c] - 1)'
      BY <1>1, <1>2 DEF Carried, Whole, Steps
    <3>5. Carried(d)'
      BY <1>1, <1>2, <2>1, <2>2, <3>1, <3>4 DEF Carried
    <3> QED BY <3>3, <3>5
  <2>3. CASE d # c
    <3>1. pc'[d] = pc[d] BY <1>1, <2>3 DEF ExecutorInv, TypeOK
    <3>2. store = "threadsafe" => pc[d] \notin Inside
      BY <1>1, <2>3, Alone DEF Inside
    <3>3. pc[d] \notin Working
      BY <2>3, CreateIsAlone
    <3>4. CASE store = "threadsafe"
      BY <1>1, <2>1, <3>1, <3>2, <3>4 DEF Placed, Carried, Inside, Working
    <3>5. CASE store = "inmemory"
      <4>1. \A m \in Steps : Behind(m) => Behind(m)'
        BY <1>5, <1>7, <3>5 DEF Behind, Outcomes
      <4>2. \A f, n : Whole(f, n) => Whole(f, n)'
        BY <1>2, <1>5, <3>5 DEF Whole
      <4>3. Placed(d)'
        BY <1>1, <2>1, <3>1, <3>3, <3>5, <4>1, NodeAssumption DEF Placed, Working, Steps
      <4>4. Carried(d)'
        BY <1>1, <2>1, <3>1, <3>3, <4>2 DEF Carried, Working
      <4> QED BY <4>3, <4>4
    <3> QED BY <3>4, <3>5 DEF ExecutorInv, TypeOK
  <2> QED BY <2>2, <2>3
<1> QED BY <1>3, <1>4, <1>9, <1>10 DEF ExecutorInv

LEMMA RunNodeStep ==
  ASSUME ExecutorInv, TypeOK', NEW c \in Calls, RunNode(c)
  PROVE  ExecutorInv'
<1>1. PICK s \in Outcomes :
        state' = [state EXCEPT ![c].status = s,
                    ![c].applied[at[c]] = IF s = "completed" THEN @ + 1 ELSE @]
  BY DEF RunNode
<1>2. /\ pc[c] = "node" /\ pc' = [pc EXCEPT ![c] = "write"]
      /\ UNCHANGED <<store, rows, memory, lock, held, at, acquired, result>>
  BY DEF RunNode, Goto
<1>3. /\ Placed(c) /\ Carried(c) /\ at[c] \in Steps
      /\ \A d \in Calls : d # c => state'[d] = state[d]
      /\ state'[c].status = s
      /\ state'[c].applied = [state[c].applied EXCEPT ![at[c]] =
            IF s = "completed" THEN state[c].applied[at[c]] + 1 ELSE state[c].applied[at[c]]]
  BY <1>1, <1>2 DEF ExecutorInv, Placed, TypeOK, State, Applied, Working
<1>4. state[c].applied[at[c]] = 0
  BY <1>2, <1>3 DEF Carried, Whole, Steps
<1>5. LockHeld'
  BY <1>2, StaysInside DEF Inside, Working
<1>6. OneNodeAtATime'
  BY <1>2 DEF ExecutorInv, OneNodeAtATime, Working, TypeOK
<1>7. StoreInOrder'
  BY <1>2 DEF ExecutorInv, StoreInOrder, Whole, Behind
<1>8. ASSUME NEW d \in Calls PROVE Placed(d)' /\ Carried(d)'
  <2>1. Placed(d) /\ Carried(d) BY DEF ExecutorInv
  <2>2. CASE d = c
    <3>1. pc'[d] = "write" BY <1>2, <2>2 DEF ExecutorInv, TypeOK
    <3>2. Placed(d)'
      BY <1>2, <2>1, <2>2, <3>1 DEF Placed, Behind, Working
    <3>3. state'[c].applied[at[c]] = IF s = "completed" THEN 1 ELSE 0
      BY <1>3, <1>4 DEF ExecutorInv, TypeOK, State, Applied
    <3>4. [state'[c].applied EXCEPT ![at[c]] = 0] = state[c].applied
      BY <1>3, <1>4 DEF ExecutorInv, TypeOK, State, Applied
    <3>5. Whole([state[c].applied EXCEPT ![at[c]] = 0], at[c] - 1)'
      BY <1>2, <1>3, <3>4 DEF Carried, Whole
    <3>6. Carried(d)'
      BY <1>2, <1>3, <2>1, <2>2, <3>1, <3>3, <3>5 DEF Carried
    <3> QED BY <3>2, <3>6
  <2>3. CASE d # c
    <3>1. pc'[d] = pc[d] BY <1>2, <2>3 DEF ExecutorInv, TypeOK
    <3> QED BY <1>2, <1>3, <2>1, <2>3, <3>1 DEF Placed, Carried, Whole, Behind, Output
  <2> QED BY <2>2, <2>3
<1> QED BY <1>5, <1>6, <1>7, <1>8 DEF ExecutorInv

\* Where a call goes after its checkpoint.
LEMMA Advances ==
  ASSUME TypeOK, NEW c \in Calls, NEW from \in {"write", "remember"}, Advance(c, from)
  PROVE  \E to \in {"leave", "loop"} :
           /\ pc[c] = from /\ pc' = [pc EXCEPT ![c] = to]
           /\ \A d \in Calls : d # c => result'[d] = result[d] /\ at'[d] = at[d]
           /\ to = "loop" => /\ at'[c] = at[c] + 1 /\ at[c] < NodeCount
                             /\ result'[c] = result[c]
           /\ to = "leave" /\ result'[c] = "done" => at[c] = NodeCount
<1>1. CASE Return(c, from, "raised") /\ UNCHANGED at
  BY <1>1 DEF Return, Goto, TypeOK
<1>2. CASE at[c] = NodeCount /\ Return(c, from, "done") /\ UNCHANGED at
  BY <1>2 DEF Return, Goto, TypeOK
<1>3. CASE /\ at[c] < NodeCount /\ Goto(c, from, "loop")
           /\ at' = [at EXCEPT ![c] = @ + 1] /\ UNCHANGED result
  BY <1>3 DEF Goto, TypeOK
<1> QED BY <1>1, <1>2, <1>3 DEF Advance

\* The state that leaves a node has passed it.
LEMMA Passed ==
  ASSUME ExecutorInv, NEW c \in Calls, pc[c] \in {"write", "remember"}, at[c] \in Steps,
         rows'[at[c]].status = state[c].status,
         \A n \in Steps : n # at[c] => rows'[n] = rows[n]
  PROVE  \A f, n : f = state[c].applied /\ n = at[c] => Whole(f, n)'
<1>1. /\ state[c].status \in Outcomes
      /\ state[c].applied[at[c]] = IF state[c].status = "completed" THEN 1 ELSE 0
      /\ Whole([state[c].applied EXCEPT ![at[c]] = 0], at[c] - 1)
      /\ state[c].applied \in Applied
  BY DEF ExecutorInv, Carried, TypeOK, State
<1>2. \A m \in Steps : m # at[c] =>
        [state[c].applied EXCEPT ![at[c]] = 0][m] = state[c].applied[m]
  BY <1>1 DEF Applied
<1>3. \A m \in Steps :
        /\ m < at[c] => \/ state[c].applied[m] = 1
                        \/ state[c].applied[m] = 0 /\ rows'[m].status \in {"skipped", "error"}
        /\ m > at[c] => state[c].applied[m] = 0
  BY <1>1, <1>2, NodeAssumption DEF Whole, Steps
<1>4. \/ state[c].applied[at[c]] = 1
      \/ state[c].applied[at[c]] = 0 /\ rows'[at[c]].status \in {"skipped", "error"}
  BY <1>1 DEF Outcomes
<1> QED BY <1>3, <1>4, NodeAssumption DEF Whole, Steps

\* What a checkpoint leaves true of every other call.
LEMMA WriteOthers ==
  ASSUME ExecutorInv, NEW c \in Calls, NEW d \in Calls, d # c, pc[c] = "write",
         pc'[d] = pc[d], at'[d] = at[d], result'[d] = result[d],
         UNCHANGED <<store, memory, state>>,
         \A m \in Steps : Behind(m) => Behind(m)',
         \A f, n : Whole(f, n) => Whole(f, n)',
         \A n \in Steps : n # at[c] => rows'[n] = rows[n]
  PROVE  Placed(d)' /\ Carried(d)'
<1> USE NodeAssumption
<1>1. Placed(d) /\ Carried(d) BY DEF ExecutorInv
<1>2. store = "threadsafe" => pc[d] \notin Inside
  BY Alone DEF Inside, Working
<1>3. pc[d] \notin Working
  BY DEF ExecutorInv, OneNodeAtATime, Working
<1>4. Carried(d)'
  BY <1>1, <1>3 DEF Carried, Working
<1>5. Placed(d)'
  <2>1. CASE store = "threadsafe"
    BY <1>2, <2>1 DEF Placed, Inside, Working
  <2>2. CASE store = "inmemory"
    BY <1>1, <1>3, <2>2 DEF Placed, Working, Steps
  <2> QED BY <2>1, <2>2 DEF ExecutorInv, TypeOK
<1> QED BY <1>4, <1>5

LEMMA WriteStep ==
  ASSUME ExecutorInv, TypeOK', NEW c \in Calls, Write(c)
  PROVE  ExecutorInv'
<1> USE NodeAssumption
<1>1. /\ pc[c] = "write"
      /\ rows' = [rows EXCEPT ![at[c]] = Output(c)]
      /\ UNCHANGED <<store, memory, lock, held, state, acquired>>
      /\ \/ store = "threadsafe" /\ Advance(c, "write")
         \/ store = "inmemory" /\ Goto(c, "write", "remember") /\ UNCHANGED <<at, result>>
  BY DEF Write, Advance, Return, Goto
<1>2. PICK to \in {"leave", "loop", "remember"} :
        /\ pc' = [pc EXCEPT ![c] = to]
        /\ \A d \in Calls : d # c => result'[d] = result[d] /\ at'[d] = at[d]
        /\ to = "loop" => /\ at'[c] = at[c] + 1 /\ at[c] < NodeCount
                          /\ result'[c] = result[c] /\ store = "threadsafe"
        /\ to = "leave" /\ result'[c] = "done" => at[c] = NodeCount
        /\ to = "remember" => /\ at'[c] = at[c] /\ result'[c] = result[c]
                              /\ store = "inmemory"
  <2>1. CASE store = "threadsafe" /\ Advance(c, "write")
    BY <2>1, Advances DEF ExecutorInv
  <2>2. CASE store = "inmemory" /\ Goto(c, "write", "remember") /\ UNCHANGED <<at, result>>
    BY <2>2 DEF Goto
  <2> QED BY <1>1, <2>1, <2>2
<1>3. /\ Placed(c) /\ Carried(c) /\ at[c] \in Steps
      /\ rows[at[c]].status = "running"
      /\ rows'[at[c]] = Output(c)
      /\ state[c].status \in Outcomes
      /\ \A n \in Steps : n # at[c] => rows'[n] = rows[n]
  BY <1>1 DEF ExecutorInv, Placed, Carried, TypeOK, Working
<1>4. \A m \in Steps : Behind(m) => m # at[c] /\ Behind(m)'
  BY <1>1, <1>3 DEF Behind, Outcomes
<1>5. \A f, n : Whole(f, n) => Whole(f, n)'
  BY <1>3 DEF Whole
<1>6. rows'[at[c]].output = state[c].applied /\ rows'[at[c]].status = state[c].status
  BY <1>3 DEF Output
<1>7. \A f, n : f = state[c].applied /\ n = at[c] => Whole(f, n)'
  BY <1>1, <1>3, <1>6, Passed
<1>8. LockHeld'
  BY <1>1, <1>2, StaysInside DEF Inside, Working
<1>9. OneNodeAtATime'
  BY <1>1, <1>2 DEF ExecutorInv, OneNodeAtATime, Working, TypeOK
<1>10. StoreInOrder'
  <2> SUFFICES ASSUME NEW n \in Steps
               PROVE  /\ rows'[n].status \in Done => /\ Whole(rows[n].output, n)'
                                                     /\ \A m \in 1..n - 1 : Behind(m)'
                      /\ store' = "inmemory" =>
                           /\ memory'[n].status = "none" \/ Behind(n)'
                           /\ rows'[n].status # "none" => \A m \in 1..n - 1 : Behind(m)'
    BY DEF StoreInOrder
  <2>1. CASE n = at[c]
    <3>1. \A m \in 1..n - 1 : Behind(m)'
      BY <1>1, <1>3, <1>4, <2>1 DEF Placed, Working, Steps
    <3>2. Whole(rows[n].output, n)'
      BY <1>6, <1>7, <2>1
    <3>3. store = "inmemory" => memory[n].status = "none"
      BY <1>3, <2>1 DEF ExecutorInv, StoreInOrder, Behind, Outcomes
    <3> QED BY <1>1, <3>1, <3>2, <3>3
  <2>2. CASE n # at[c]
    <3>1. /\ rows'[n] = rows[n]
          /\ \A m \in 1..n - 1 : Behind(m) => Behind(m)'
      BY <1>3, <1>4, <2>2 DEF Steps
    <3>2. Whole(rows[n].output, n) => Whole(rows[n].output, n)'
      BY <1>5, <3>1
    <3> QED BY <1>1, <1>4, <3>1, <3>2 DEF ExecutorInv, StoreInOrder
  <2> QED BY <2>1, <2>2
<1>11. Placed(c)' /\ Carried(c)'
  <2>1. pc'[c] = to BY <1>2 DEF ExecutorInv, TypeOK
  <2>2. CASE to = "remember"
    <3>1. memory[at[c]].status = "none"
      BY <1>2, <1>3, <2>2 DEF ExecutorInv, StoreInOrder, Behind, Outcomes
    <3>2. Output(c)' = Output(c) BY <1>1 DEF Output
    <3>3. Placed(c)'
      BY <1>1, <1>2, <1>3, <1>4, <2>1, <2>2, <3>1, <3>2 DEF Placed, Working, Steps
    <3>4. Carried(c)'
      <4>1. Whole([state[c].applied EXCEPT ![at[c]] = 0], at[c] - 1)'
        BY <1>1, <1>2, <1>3, <1>5, <2>2 DEF Carried
      <4> QED BY <1>1, <1>2, <1>3, <2>1, <2>2, <4>1 DEF Carried
    <3> QED BY <3>3, <3>4
  <2>3. CASE to = "loop"
    <3>1. \A m \in 1..at'[c] - 1 : Behind(m)'
      <4>1. \A n : n = at[c] => Behind(n)'
        BY <1>1, <1>2, <1>3, <1>6, <2>3 DEF Behind
      <4> QED BY <1>1, <1>2, <1>3, <1>4, <2>3, <4>1 DEF Placed, Working, Steps
    <3>2. at'[c] \in Steps
      BY <1>2, <1>3, <2>3 DEF Steps
    <3>3. \A m \in Steps : m >= at'[c] => rows'[m].status \notin Done
      BY <1>1, <1>2, <1>3, <2>3 DEF Placed, Working, Steps
    <3>4. Placed(c)'
      BY <2>1, <2>3, <3>1, <3>2, <3>3 DEF Placed, Working
    <3>5. state'[c].applied = state[c].applied /\ at'[c] - 1 = at[c]
      BY <1>1, <1>2, <1>3, <2>3 DEF Steps
    <3>6. Whole(state[c].applied, at[c] - 1)'
      BY <1>7, <3>5
    <3>7. Carried(c)'
      BY <1>1, <1>2, <1>3, <2>1, <2>3, <3>6 DEF Carried
    <3> QED BY <3>4, <3>7
  <2>4. CASE to = "leave"
    <3>1. result'[c] = "done" => Whole(state[c].applied, NodeCount)'
      BY <1>1, <1>2, <1>7, <2>4
    <3> QED BY <2>1, <2>4, <3>1 DEF Placed, Carried, Working
  <2> QED BY <2>2, <2>3, <2>4
<1>12. ASSUME NEW d \in Calls, d # c PROVE Placed(d)' /\ Carried(d)'
  <2>1. pc'[d] = pc[d] BY <1>2, <1>12 DEF ExecutorInv, TypeOK
  <2> QED BY <1>1, <1>2, <1>3, <1>4, <1>5, <1>12, <2>1, WriteOthers
<1> QED BY <1>8, <1>9, <1>10, <1>11, <1>12 DEF ExecutorInv

LEMMA RememberStep ==
  ASSUME ExecutorInv, TypeOK', NEW c \in Calls, Remember(c)
  PROVE  ExecutorInv'
<1> USE NodeAssumption
<1>1. /\ pc[c] = "remember" /\ Advance(c, "remember")
      /\ UNCHANGED <<store, rows, lock, held, state, acquired>>
  BY DEF Remember, Advance, Return, Goto
<1>2. PICK to \in {"leave", "loop"} :
        /\ pc' = [pc EXCEPT ![c] = to]
        /\ \A d \in Calls : d # c => result'[d] = result[d] /\ at'[d] = at[d]
        /\ to = "loop" => /\ at'[c] = at[c] + 1 /\ at[c] < NodeCount
                          /\ result'[c] = result[c]
        /\ to = "leave" /\ result'[c] = "done" => at[c] = NodeCount
  BY <1>1, Advances DEF ExecutorInv
<1>3. /\ Placed(c) /\ Carried(c) /\ at[c] \in Steps /\ store = "inmemory"
      /\ rows[at[c]] = Output(c) /\ memory[at[c]].status = "none"
      /\ rows[at[c]].status = state[c].status /\ state[c].status \in Outcomes
  BY <1>1 DEF ExecutorInv, Placed, Carried, Working, Output
<1>4. /\ memory'[at[c]] = rows[at[c]]
      /\ \A n \in Steps : n # at[c] => memory'[n] = memory[n]
  BY <1>3 DEF Remember, Done, ExecutorInv, TypeOK
<1>5. \A m \in Steps : Behind(m) => Behind(m)'
  BY <1>1, <1>3, <1>4 DEF Behind, Outcomes
<1>6. \A n : n = at[c] => Behind(n)'
  BY <1>1, <1>3, <1>4 DEF Behind
<1>7. \A f, n : Whole(f, n) => Whole(f, n)'
  BY <1>1 DEF Whole
<1>8. \A f, n : f = state[c].applied /\ n = at[c] => Whole(f, n)'
  BY <1>1, <1>3, Passed
<1>9. LockHeld'
  BY <1>1, <1>2, StaysInside DEF Inside, Working
<1>10. OneNodeAtATime'
  BY <1>2 DEF ExecutorInv, OneNodeAtATime, Working, TypeOK
<1>11. StoreInOrder'
  <2>1. ASSUME NEW n \in Steps PROVE memory'[n].status = "none" \/ Behind(n)'
    BY <1>3, <1>4, <1>5, <1>6 DEF ExecutorInv, StoreInOrder
  <2> QED BY <1>1, <1>5, <1>7, <2>1 DEF ExecutorInv, StoreInOrder, Steps
<1>12. Placed(c)' /\ Carried(c)'
  <2>1. pc'[c] = to BY <1>2 DEF ExecutorInv, TypeOK
  <2>2. CASE to = "loop"
    <3>1. at'[c] \in Steps /\ at'[c] - 1 = at[c]
      BY <1>2, <1>3, <2>2 DEF Steps
    <3>2. \A m \in 1..at'[c] - 1 : Behind(m)'
      BY <1>1, <1>3, <1>5, <1>6, <3>1 DEF Placed, Working, Steps
    <3>3. Placed(c)'
      BY <1>1, <1>3, <2>1, <2>2, <3>1, <3>2 DEF Placed, Working
    <3>4. Whole(state[c].applied, at[c] - 1)'
      BY <1>1, <1>8, <3>1
    <3>5. Carried(c)'
      BY <1>1, <1>2, <1>3, <2>1, <2>2, <3>4 DEF Carried
    <3> QED BY <3>3, <3>5
  <2>3. CASE to = "leave"
    <3>1. result'[c] = "done" => Whole(state[c].applied, NodeCount)'
      BY <1>1, <1>2, <1>8, <2>3
    <3> QED BY <2>1, <2>3, <3>1 DEF Placed, Carried, Working
  <2> QED BY <2>2, <2>3
<1>13. ASSUME NEW d \in Calls, d # c PROVE Placed(d)' /\ Carried(d)'
  <2>1. pc'[d] = pc[d] BY <1>2, <1>13 DEF ExecutorInv, TypeOK
  <2>2. Placed(d) /\ Carried(d) BY DEF ExecutorInv
  <2>3. pc[d] \notin Working
    BY <1>1, <1>13 DEF ExecutorInv, OneNodeAtATime, Working
  <2>4. Carried(d)'
    BY <1>1, <1>2, <1>7, <1>13, <2>1, <2>2, <2>3 DEF Carried, Working
  <2>5. Placed(d)'
    BY <1>1, <1>2, <1>3, <1>5, <1>13, <2>1, <2>2, <2>3 DEF Placed, Working, Steps
  <2> QED BY <2>4, <2>5
<1> QED BY <1>9, <1>10, <1>11, <1>12, <1>13 DEF ExecutorInv

-----------------------------------------------------------------------------
(* The theorems *)

LEMMA ExecutorInit == Init => ExecutorInv
<1> SUFFICES ASSUME Init PROVE ExecutorInv
  OBVIOUS
<1> USE NodeAssumption
<1>1. TypeOK
  <2>1. NoRow \in Row /\ [status |-> "pending", applied |-> Fresh] \in State
    BY DEF NoRow, Row, State, Applied, Fresh
  <2>2. 1 \in 1..NodeCount + 1
    OBVIOUS
  <2>3. at \in [Calls -> 1..NodeCount + 1] /\ pc \in [Calls -> PCs]
    BY <2>2 DEF Init, PCs
  <2>4. rows \in [Steps -> Row] /\ memory \in [Steps -> Row] /\ state \in [Calls -> State]
    BY <2>1 DEF Init
  <2> QED BY <2>3, <2>4 DEF Init, TypeOK
<1>2. StoreInOrder
  BY DEF Init, StoreInOrder, NoRow, Done
<1>3. LockHeld /\ OneNodeAtATime
  BY DEF Init, LockHeld, OneNodeAtATime, Inside, Working
<1>4. \A c \in Calls : Placed(c) /\ Carried(c)
  BY DEF Init, Placed, Carried, Working, Fresh
<1> QED BY <1>1, <1>2, <1>3, <1>4 DEF ExecutorInv

LEMMA ExecutorNext == ExecutorInv /\ [Next]_vars => ExecutorInv'
<1> SUFFICES ASSUME ExecutorInv, [Next]_vars PROVE ExecutorInv'
  OBVIOUS
<1>1. TypeOK'
  <2>1. \A c \in Calls : /\ pc[c] \in {"loop", "create"} \cup Working => at[c] \in Steps
                         /\ pc[c] \in {"try", "wait"} => lock \in Calls
                         /\ pc[c] \in {"write", "remember"} => state[c].status \in Outcomes
    BY DEF ExecutorInv, Placed, Carried, LockHeld
  <2> QED BY <2>1, TypeStep DEF ExecutorInv
<1>2. CASE UNCHANGED vars \/ Signal
  <2>1. UNCHANGED <<store, lock, held, rows, memory, pc, at, state, acquired, result>>
    BY <1>2 DEF vars, Signal
  <2> QED BY <1>1, <2>1 DEF ExecutorInv, StoreInOrder, LockHeld, OneNodeAtATime, Placed,
                            Carried, Whole, Behind, Output
<1>3. ASSUME NEW c \in Calls, Call(c) \/ Wait(c) \/ Execute(c) PROVE ExecutorInv'
  BY <1>1, <1>3, LockSteps, PlainSteps, CleanStep, ReadStep, CreateStep, RunNodeStep,
     WriteStep, RememberStep DEF Execute
<1> QED BY <1>2, <1>3 DEF Next

\* The inductive invariant holds for any number of calls and nodes.
THEOREM ExecutorInvariant == Spec => []ExecutorInv
<1> QED BY ExecutorInit, ExecutorNext, PTL DEF Spec

\* Every reachable state of the executor is typed.
THEOREM ExecutorIsTyped == Spec => []TypeOK
<1>1. ExecutorInv => TypeOK BY DEF ExecutorInv
<1> QED BY <1>1, ExecutorInvariant, PTL

\* In either store, however many calls there are and wherever they fail, at
\* most one of them is at a node of the run.
THEOREM OneNodeInProgress == Spec => []OneNodeAtATime
<1>1. ExecutorInv => OneNodeAtATime BY DEF ExecutorInv
<1> QED BY <1>1, ExecutorInvariant, PTL

\* Whatever failed and resumed before, the state that run() returns has passed
\* every node once, except those that were skipped or ended in error.
THEOREM ReturnedStateIsWhole == Spec => []ResultIsWhole
<1>1. ExecutorInv => ResultIsWhole
  BY NodeAssumption DEF ExecutorInv, Carried, Whole, ResultIsWhole, Steps
<1> QED BY <1>1, ExecutorInvariant, PTL

\* Resumability: the table is a log of checkpoints, each written once and in
\* the order of the nodes, and no node with a checkpoint starts again.
THEOREM ExecutorKeepsLog == Spec => KeepsLog
<1> DEFINE durable == {n \in Steps : rows[n].status \in Done}
           active == {n \in Steps : \E c \in Calls : pc[c] \in {"node", "write"} /\ at[c] = n}
<1> USE NodeAssumption
<1>1. Init => Log!LogInit
  BY DEF Init, Log!LogInit, NoRow, Done
<1>2. ExecutorInv /\ ExecutorInv' /\ [Next]_vars => [Log!LogNext]_<<durable, active>>
  <2> SUFFICES ASSUME ExecutorInv, ExecutorInv', [Next]_vars
               PROVE  [Log!LogNext]_<<durable, active>>
    OBVIOUS
  <2>1. CASE UNCHANGED <<rows, pc, at>>
    BY <2>1
  <2>2. ASSUME NEW c \in Calls,
               Call(c) \/ Look(c) \/ Make(c) \/ Try(c) \/ Wait(c) \/ Leave(c) \/ Read(c)
                 \/ Loop(c) \/ Remember(c) \/ Clean(c)
        PROVE  [Log!LogNext]_<<durable, active>>
    <3>1. \A n \in Steps : rows'[n].status \in Done <=> rows[n].status \in Done
      BY <2>2 DEF Call, Look, Make, Try, Wait, Leave, Read, Loop, Remember, Clean,
                  ExecutorInv, TypeOK, Row, Done
    <3>2. \A d \in Calls : pc[d] \in {"node", "write"} \/ pc'[d] \in {"node", "write"}
                            => pc'[d] = pc[d] /\ at'[d] = at[d]
      BY <2>2 DEF Call, Look, Make, Try, Wait, Leave, Read, Loop, Remember, Clean, Advance,
                  Return, Goto, ExecutorInv, TypeOK
    <3> QED BY <3>1, <3>2
  <2>3. ASSUME NEW c \in Calls, Create(c) PROVE [Log!LogNext]_<<durable, active>>
    <3>1. /\ pc[c] = "create" /\ pc' = [pc EXCEPT ![c] = "node"] /\ at' = at
          /\ rows' = [rows EXCEPT ![at[c]] = [status |-> "running", output |-> Fresh]]
          /\ Placed(c) /\ at[c] \in Steps
      BY <2>3 DEF Create, Goto, ExecutorInv, Placed
    <3>2. active = {} /\ active' = {at[c]}
      BY <2>3, <3>1, CreateIsAlone DEF ExecutorInv, TypeOK, Working
    <3>3. \A m \in durable : m < at[c]
      <4>1. CASE store = "threadsafe"
        BY <3>1, <4>1 DEF Placed, Steps
      <4>2. CASE store = "inmemory"
        BY <2>3, <3>1, <4>2 DEF Create, ExecutorInv, StoreInOrder, Behind, Done, Outcomes, Steps
      <4> QED BY <4>1, <4>2 DEF ExecutorInv, TypeOK
    <3>4. durable' = durable
      BY <3>1, <3>3 DEF ExecutorInv, TypeOK, Done, Steps
    <3>5. Log!Start
      BY <3>1, <3>2, <3>3, <3>4 DEF Log!Start, Log!Steps, Steps
    <3> QED BY <3>5 DEF Log!LogNext
  <2>4. ASSUME NEW c \in Calls, RunNode(c) PROVE [Log!LogNext]_<<durable, active>>
    BY <2>4 DEF RunNode, Goto, ExecutorInv, TypeOK
  <2>5. ASSUME NEW c \in Calls, Raise(c) PROVE [Log!LogNext]_<<durable, active>>
    <3>1. durable' = durable BY <2>5 DEF Raise
    <3>2. active' = active \/ active' = {}
      <4>1. CASE pc[c] \in {"node", "write"}
        <5>1. \A d \in Calls : pc'[d] \notin {"node", "write"}
          BY <2>5, <4>1 DEF Raise, Return, Goto, ExecutorInv, OneNodeAtATime, Working, TypeOK
        <5> QED BY <5>1
      <4>2. CASE pc[c] \notin {"node", "write"}
        <5>1. \A d \in Calls : pc[d] \in {"node", "write"} \/ pc'[d] \in {"node", "write"}
                               => pc'[d] = pc[d] /\ at'[d] = at[d]
          BY <2>5, <4>2 DEF Raise, Return, Goto, ExecutorInv, TypeOK
        <5> QED BY <5>1, <2>5 DEF Raise
      <4> QED BY <4>1, <4>2
    <3> QED BY <3>1, <3>2 DEF Log!LogNext, Log!Fail
  <2>6. ASSUME NEW c \in Calls, Write(c) PROVE [Log!LogNext]_<<durable, active>>
    <3>1. /\ pc[c] = "write" /\ at[c] \in Steps /\ rows[at[c]].status = "running"
          /\ rows' = [rows EXCEPT ![at[c]] = Output(c)]
          /\ \A d \in Calls : d # c => pc'[d] = pc[d]
          /\ pc'[c] \notin {"node", "write"}
      BY <2>6 DEF Write, Advance, Return, Goto, ExecutorInv, Placed, Working, TypeOK
    <3>2. active = {at[c]} /\ active' = {}
      BY <3>1 DEF ExecutorInv, OneNodeAtATime, Working
    <3>3. durable' = durable \/ durable' = durable \cup {at[c]}
      <4>1. /\ \A n \in Steps : n # at[c] => rows'[n] = rows[n]
            /\ rows[at[c]].status \notin Done
        BY <3>1 DEF ExecutorInv, TypeOK, Done
      <4>2. CASE rows'[at[c]].status \in Done
        BY <3>1, <4>1, <4>2
      <4>3. CASE rows'[at[c]].status \notin Done
        BY <3>1, <4>1, <4>3
      <4> QED BY <4>2, <4>3
    <3> QED BY <3>2, <3>3 DEF Log!LogNext, Log!Fail, Log!Commit
  <2> QED BY <2>1, <2>2, <2>3, <2>4, <2>5, <2>6 DEF Next, Execute, Signal, vars
<1> QED BY <1>1, <1>2, ExecutorInvariant, PTL DEF Spec, KeepsLog, Log!LogSpec
=============================================================================
