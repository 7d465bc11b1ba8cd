---------------------------- MODULE ServiceProofs ---------------------------
(***************************************************************************)
(* Proofs about the two parts of main.py around the executor.              *)
(*                                                                         *)
(* RunStream, for any number of nodes, streams, requests and faults: an    *)
(* open stream misses nothing, and no event or answer that is on its way   *)
(* to the page can tell it of an end that is not the run's.                *)
(*                                                                         *)
(* PileRuns, which shares no variable with it, for any number of piles,    *)
(* uploads, files, starts, documents, runs and failures: what was answered *)
(* to be stored is stored, and what is recorded has its file.              *)
(***************************************************************************)
EXTENDS RunStream, PileRuns, FiniteSetTheorems, TLAPS
-----------------------------------------------------------------------------
(* The events of a run *)

\* A settled run has an executor no more, or one that has only to tell it; a
\* row in progress is that of a node.
ExecutorKnows ==
  /\ status \in Ends => pc \in {"idle", "end"}
  /\ pc = "end" => outcome = status /\ outcome # "next"
  /\ going => step \in 1..N
  /\ pc \in {"run", "wrote"} => node \in 1..N
  /\ pc = "wrote" => outcome \in {"next", "failed", "paused"}
  /\ pc = "settle" => outcome \in {"failed", "paused"}

\* Only a stream that is subscribed has a queue.
QueuesAreOpen == \A c \in Stream : c \notin Subscribed => queue[c] = <<>>

\* An end on its way to the page, in a queue or in an answer, is the run's.
NewsIsTrue ==
  /\ \A c \in Stream : \A i \in DOMAIN queue[c] :
       queue[c][i].status \in Ends => queue[c][i].status = status
  /\ \A k \in Requests : req[k].got \in Ends => req[k].got = status

StreamInv ==
  /\ TypeOK
  /\ ExecutorKnows
  /\ QueuesAreOpen
  /\ NothingIsMissed
  /\ NewsIsTrue
  /\ EndShownIsReal
-----------------------------------------------------------------------------
\* The statuses a run can have.
LEMMA StatusNames ==
  /\ "next" \notin Ends /\ "none" \notin Ends
  /\ {"pending", "running", "paused"} \cap Ends = {}
  /\ {"completed", "completed_with_persistence_gap", "failed", "cancelled"} = Ends
BY DEF Ends

\* A broadcast counts one event and adds it to the queue of each subscriber.
LEMMA BroadcastAdds ==
  ASSUME StreamInv, NEW type \in {"node_start", "node_complete", "run_paused", "run_complete"},
         NEW new \in Statuses, Broadcast(type, new), UNCHANGED <<conn, taken>>,
         new \in Ends => new = status', UNCHANGED req,
         status \in Ends => status' = status
  PROVE  /\ said' \in Nat /\ queue' \in [Stream -> Seq(Event)]
         /\ QueuesAreOpen' /\ NothingIsMissed' /\ NewsIsTrue'
<1> DEFINE e == [type |-> type, status |-> new]
<1>1. e \in Event BY DEF Event
<1>2. said \in Nat /\ queue \in [Stream -> Seq(Event)] /\ taken \in [Stream -> Nat]
  BY DEF StreamInv, TypeOK
<1>3. said' = said + 1 /\ Subscribed' = Subscribed BY DEF Broadcast, Subscribed
<1>4. queue' = [c \in Stream |-> IF c \in Subscribed THEN Append(queue[c], e)
                                 ELSE queue[c]]
  BY DEF Broadcast
<1>5. queue' \in [Stream -> Seq(Event)] BY <1>1, <1>2, <1>4
<1>6. QueuesAreOpen' BY <1>3, <1>4 DEF StreamInv, QueuesAreOpen
<1>7. NothingIsMissed'
  <2>1. SUFFICES ASSUME NEW c \in Subscribed
                 PROVE  taken[c] + Len(queue'[c]) = said + 1
    BY <1>3 DEF NothingIsMissed
  <2>2. c \in Stream /\ queue[c] \in Seq(Event) /\ taken[c] \in Nat
    BY <1>2 DEF Subscribed
  <2>3. Len(queue'[c]) = Len(queue[c]) + 1 BY <1>1, <1>4, <2>2
  <2>4. taken[c] + Len(queue[c]) = said BY DEF StreamInv, NothingIsMissed
  <2>5. Len(queue[c]) \in Nat BY <2>2
  <2>6. \A x, y \in Nat : x + y = said => x + (y + 1) = said + 1 BY <1>2
  <2>7. taken[c] + (Len(queue[c]) + 1) = said + 1 BY <2>2, <2>4, <2>5, <2>6
  <2> QED BY <2>3, <2>7
<1>8. ASSUME NEW c \in Stream, NEW i \in DOMAIN queue'[c],
             queue'[c][i].status \in Ends
      PROVE  queue'[c][i].status = status'
  <2>1. CASE queue'[c] = queue[c]
    BY <1>8, <2>1 DEF StreamInv, NewsIsTrue
  <2>2. CASE queue'[c] = Append(queue[c], e)
    <3>1. queue[c] \in Seq(Event) BY <1>2
    <3>2. CASE i = Len(queue[c]) + 1
      <4>1. queue'[c][i] = e BY <2>2, <3>1, <3>2, <1>1
      <4> QED BY <4>1, <1>8
    <3>3. CASE i # Len(queue[c]) + 1
      <4>1. i \in DOMAIN queue[c] /\ queue'[c][i] = queue[c][i]
        BY <2>2, <3>1, <3>3, <1>1
      <4> QED BY <4>1, <1>8 DEF StreamInv, NewsIsTrue
    <3> QED BY <3>2, <3>3
  <2> QED BY <1>4, <2>1, <2>2
<1>9. NewsIsTrue' BY <1>8 DEF StreamInv, NewsIsTrue
<1> QED BY <1>2, <1>3, <1>5, <1>6, <1>7, <1>9

\* At the start nobody watches and nothing is said.
LEMMA InitInv == Init => StreamInv
<1> SUFFICES ASSUME Init PROVE StreamInv OBVIOUS
<1>1. queue = [c \in Stream |-> <<>>] /\ conn = [c \in Stream |-> "free"]
  BY DEF Init
<1>2. Subscribed = {} BY <1>1 DEF Subscribed
<1>3. TypeOK
  <2>1. req \in [Requests -> [by : {"none", "open", "poll"}, got : {"none"} \cup Statuses]]
    BY DEF Init, Idle
  <2>2. queue \in [Stream -> Seq(Event)] BY <1>1
  <2>3. /\ step \in 0..N /\ node \in 1..N + 1 /\ faults \in 0..MaxFaults
        /\ es \in {Away, Closed} \cup Stream
    BY BoundsAssumption DEF Init
  <2>4. /\ status \in Statuses /\ going \in BOOLEAN /\ view \in Statuses
        /\ pc \in {"idle", "start", "run", "wrote", "settle", "end"}
        /\ outcome \in Ends \cup {"next", "paused"}
        /\ by \in {"start", "resume"}
        /\ {connected, timer, poll} \subseteq BOOLEAN
    BY DEF Init, Statuses
  <2>5. /\ said \in Nat /\ taken \in [Stream -> Nat]
        /\ conn \in [Stream -> {"free", "asked", "registered", "live", "over"}]
    BY DEF Init
  <2> QED BY <2>1, <2>2, <2>3, <2>4, <2>5 DEF TypeOK
<1>4. NewsIsTrue BY <1>1, StatusNames DEF Init, NewsIsTrue, Idle
<1> QED
  BY <1>1, <1>2, <1>3, <1>4, StatusNames
  DEF StreamInv, Init, ExecutorKnows, QueuesAreOpen, NothingIsMissed, EndShownIsReal

\* The steps of the executor.
LEMMA ExecutorSteps ==
  ASSUME StreamInv,
         \/ Launch \/ Resume \/ StartNode \/ StopCancelled \/ EndNode \/ TellNode
         \/ WriteStatus \/ TellStatus \/ Raise
  PROVE  StreamInv'
<1> USE StatusNames DEF StreamInv, ExecutorKnows
<1>1. status \in Statuses /\ node \in 1..N + 1 /\ step \in 0..N /\ N \in Nat
  BY BoundsAssumption DEF TypeOK
<1>2. ASSUME UNCHANGED <<said, queue, conn, taken, view, req>>,
             status \in Ends => status' = status
      PROVE  QueuesAreOpen' /\ NothingIsMissed' /\ NewsIsTrue' /\ EndShownIsReal'
  BY <1>2 DEF QueuesAreOpen, NothingIsMissed, NewsIsTrue, EndShownIsReal, Subscribed
<1>3. CASE Launch
  <2>1. TypeOK' BY <1>3 DEF Launch, TypeOK, Statuses, run, exec, server, page
  <2> QED BY <1>2, <1>3, <2>1 DEF Launch, server, page
<1>4. CASE Resume
  <2>1. node' \in 1..N + 1 BY <1>1, <1>4 DEF Resume
  <2>2. TypeOK' BY <1>4, <2>1 DEF Resume, TypeOK, Statuses, run, exec, server, page
  <2> QED BY <1>2, <1>4, <2>2 DEF Resume, server, page
<1>5. CASE StartNode
  <2>1. status' = status /\ pc' = "run" /\ step' = node /\ going' = TRUE /\ node \in 1..N
    BY <1>1, <1>5 DEF StartNode
  <2>2. /\ said' \in Nat /\ queue' \in [Stream -> Seq(Event)]
        /\ QueuesAreOpen' /\ NothingIsMissed' /\ NewsIsTrue'
    BY <1>5, <2>1, BroadcastAdds DEF StartNode, server, Statuses
  <2>3. TypeOK' BY <1>1, <1>5, <2>1, <2>2 DEF StartNode, TypeOK, server, page
  <2> QED BY <1>5, <2>1, <2>2, <2>3 DEF StartNode, page, EndShownIsReal
<1>6. CASE StopCancelled
  <2>1. TypeOK' BY <1>6 DEF StopCancelled, TypeOK, Statuses, run, exec, server, page
  <2> QED BY <1>2, <1>6, <2>1 DEF StopCancelled, server, page
<1>7. CASE EndNode
  <2>1. TypeOK' BY <1>7 DEF EndNode, TypeOK, Statuses, run, exec, server, page
  <2> QED BY <1>2, <1>7, <2>1 DEF EndNode, server, page
<1>8. CASE TellNode
  <2>1. status' = status /\ pc' \in {"start", "settle"} /\ ReportedStatus \in {"paused", "running"}
    BY <1>8 DEF TellNode, run, ReportedStatus
  <2>2. /\ said' \in Nat /\ queue' \in [Stream -> Seq(Event)]
        /\ QueuesAreOpen' /\ NothingIsMissed' /\ NewsIsTrue'
    BY <1>8, <2>1, BroadcastAdds DEF TellNode, server, Statuses
  <2>3. node' \in 1..N + 1 BY <1>1, <1>8 DEF TellNode
  <2>4. TypeOK' BY <1>1, <1>8, <2>1, <2>2, <2>3 DEF TellNode, TypeOK, server, page, run
  <2> QED BY <1>8, <2>1, <2>2, <2>3, <2>4 DEF TellNode, page, run, EndShownIsReal
<1>9. CASE WriteStatus
  <2>1. TypeOK' BY <1>9 DEF WriteStatus, TypeOK, Statuses, run, exec, server, page
  <2> QED BY <1>2, <1>9, <2>1 DEF WriteStatus, server, page
<1>10. CASE TellStatus
  <2> DEFINE type == IF outcome = "paused" THEN "run_paused" ELSE "run_complete"
  <2>1. status' = status /\ outcome = status /\ pc' = "idle"
    BY <1>10 DEF TellStatus, run
  <2>2. Broadcast(type, outcome) /\ type \in {"run_paused", "run_complete"}
    BY <1>10 DEF TellStatus
  <2> HIDE DEF type
  <2>3. /\ said' \in Nat /\ queue' \in [Stream -> Seq(Event)]
        /\ QueuesAreOpen' /\ NothingIsMissed' /\ NewsIsTrue'
    BY <1>1, <1>10, <2>1, <2>2, BroadcastAdds DEF TellStatus, server
  <2>4. TypeOK' BY <1>10, <2>1, <2>3 DEF TellStatus, TypeOK, server, page, run
  <2> QED BY <1>10, <2>1, <2>3, <2>4 DEF TellStatus, page, run, EndShownIsReal
<1>11. CASE Raise
  <2>1. faults' \in 0..MaxFaults BY <1>11, BoundsAssumption DEF Raise, Fault, TypeOK
  <2>2. TypeOK' BY <1>11, <2>1 DEF Raise, TypeOK, Statuses, run, exec, server, page
  <2> QED BY <1>2, <1>11, <2>2 DEF Raise, server, page
<1> QED BY <1>3, <1>4, <1>5, <1>6, <1>7, <1>8, <1>9, <1>10, <1>11

\* The steps of the streams.
LEMMA StreamSteps ==
  ASSUME StreamInv, NEW c \in Stream, Register(c) \/ Greet(c) \/ Deliver(c) \/ Disconnect(c)
  PROVE  StreamInv'
<1> USE DEF StreamInv, ExecutorKnows
<1>1. /\ said \in Nat /\ queue \in [Stream -> Seq(Event)] /\ taken \in [Stream -> Nat]
      /\ conn \in [Stream -> {"free", "asked", "registered", "live", "over"}]
      /\ ExecutorKnows
  BY DEF TypeOK
<1>2. CASE Register(c)
  <2>1. c \notin Subscribed /\ queue[c] = <<>>
    BY <1>2 DEF Register, Subscribed, QueuesAreOpen
  <2>2. Subscribed' = Subscribed \cup {c} BY <1>1, <1>2 DEF Register, Subscribed
  <2>3. taken' = [taken EXCEPT ![c] = said] /\ queue' = queue /\ said' = said
    BY <1>2 DEF Register
  <2>4. TypeOK' BY <1>1, <1>2 DEF Register, TypeOK, run, exec, page
  <2>5. QueuesAreOpen' BY <2>2, <2>3 DEF QueuesAreOpen
  <2>6. NothingIsMissed'
    <3>1. SUFFICES ASSUME NEW d \in Subscribed'
                   PROVE  taken'[d] + Len(queue[d]) = said
      BY <2>3 DEF NothingIsMissed
    <3>2. CASE d = c
      <4>1. taken'[d] = said /\ Len(queue[d]) = 0 BY <1>1, <2>1, <2>3, <3>2
      <4> QED BY <4>1, <1>1
    <3>3. CASE d # c
      <4>1. d \in Subscribed /\ taken'[d] = taken[d]
        BY <1>1, <2>2, <2>3, <3>3 DEF Subscribed
      <4> QED BY <4>1 DEF NothingIsMissed
    <3> QED BY <3>2, <3>3
  <2> QED
    BY <1>1, <1>2, <2>4, <2>5, <2>6 DEF Register, run, exec, page, NewsIsTrue, EndShownIsReal
<1>3. CASE Greet(c)
  <2>1. Subscribed' = Subscribed BY <1>1, <1>3 DEF Greet, Subscribed
  <2>2. conn' \in [Stream -> {"free", "asked", "registered", "live", "over"}]
    BY <1>1, <1>3 DEF Greet
  <2>3. {connected, timer, poll}' \subseteq BOOLEAN BY <1>3 DEF Greet, TypeOK
  <2>4. TypeOK' BY <1>3, <2>2, <2>3 DEF Greet, TypeOK, run, exec
  <2> QED
    BY <1>1, <1>3, <2>1, <2>4
    DEF Greet, run, exec, NewsIsTrue, EndShownIsReal, QueuesAreOpen, NothingIsMissed
<1>4. ASSUME conn[c] = "live", queue' = Remove(c), conn' = [conn EXCEPT ![c] = "over"],
             taken' = [taken EXCEPT ![c] = 0], said' = said
      PROVE  /\ queue' \in [Stream -> Seq(Event)] /\ taken' \in [Stream -> Nat]
             /\ conn' \in [Stream -> {"free", "asked", "registered", "live", "over"}]
             /\ QueuesAreOpen' /\ NothingIsMissed'
             /\ \A d \in Stream : queue'[d] = queue[d] \/ queue'[d] = <<>>
  <2>1. Subscribed' = Subscribed \ {c} BY <1>1, <1>4 DEF Subscribed
  <2>2. queue' = [queue EXCEPT ![c] = <<>>] BY <1>4 DEF Remove
  <2>3. NothingIsMissed'
    <3>1. SUFFICES ASSUME NEW d \in Subscribed, d # c
                   PROVE  taken'[d] + Len(queue'[d]) = said
      BY <1>4, <2>1 DEF NothingIsMissed
    <3>2. taken'[d] = taken[d] /\ queue'[d] = queue[d]
      BY <1>1, <1>4, <2>2, <3>1 DEF Subscribed
    <3> QED BY <3>2 DEF NothingIsMissed
  <2> QED BY <1>1, <1>4, <2>1, <2>2, <2>3 DEF QueuesAreOpen
<1>5. CASE Deliver(c)
  <2> DEFINE e == Head(queue[c])
  <2>1. queue[c] \in Seq(Event) /\ queue[c] # <<>> BY <1>1, <1>5 DEF Deliver
  <2>2. e \in Event /\ 1 \in DOMAIN queue[c] /\ queue[c][1] = e BY <2>1
  <2>3. e.status \in Statuses /\ (e.status \in Ends => e.status = status)
    BY <2>2 DEF Event, NewsIsTrue
  <2>4. view' = e.status /\ UNCHANGED <<run, exec, said, connected, timer, poll, req, faults>>
    BY <1>5 DEF Deliver
  <2>5. view' \in Statuses /\ EndShownIsReal'
    BY <2>3, <2>4 DEF EndShownIsReal, run
  <2>6. CASE e.type = "run_complete"
    <3>1. /\ conn[c] = "live" /\ queue' = Remove(c) /\ es' = Closed
          /\ conn' = [conn EXCEPT ![c] = "over"] /\ taken' = [taken EXCEPT ![c] = 0]
      BY <1>5, <2>6 DEF Deliver
    <3>2. TypeOK' BY <1>4, <2>4, <2>5, <3>1 DEF TypeOK, run, exec
    <3>3. NewsIsTrue' BY <1>4, <2>4, <3>1 DEF NewsIsTrue, run
    <3> QED BY <1>1, <1>4, <2>4, <2>5, <3>1, <3>2, <3>3 DEF run, exec
  <2>7. CASE e.type # "run_complete"
    <3>1. /\ conn[c] = "live" /\ queue' = [queue EXCEPT ![c] = Tail(@)]
          /\ taken' = [taken EXCEPT ![c] = @ + 1] /\ UNCHANGED <<es, conn>>
      BY <1>5, <2>7 DEF Deliver
    <3>2. Subscribed' = Subscribed /\ c \in Subscribed BY <3>1 DEF Subscribed
    <3>3. /\ Tail(queue[c]) \in Seq(Event) /\ Len(Tail(queue[c])) = Len(queue[c]) - 1
          /\ Len(queue[c]) \in Nat
          /\ \A i \in DOMAIN Tail(queue[c]) : i + 1 \in DOMAIN queue[c]
                                              /\ Tail(queue[c])[i] = queue[c][i + 1]
      BY <2>1
    <3>4. queue' \in [Stream -> Seq(Event)] /\ taken' \in [Stream -> Nat]
      BY <1>1, <3>1, <3>3
    <3>5. TypeOK' BY <2>4, <2>5, <3>1, <3>4 DEF TypeOK, run, exec
    <3>6. NothingIsMissed'
      <4>1. SUFFICES ASSUME NEW d \in Subscribed
                     PROVE  taken'[d] + Len(queue'[d]) = said
        BY <2>4, <3>2 DEF NothingIsMissed
      <4>2. CASE d = c
        <5>1. taken'[d] = taken[c] + 1 /\ Len(queue'[d]) = Len(queue[c]) - 1
          BY <1>1, <3>1, <3>3, <4>2
        <5>2. taken[c] + Len(queue[c]) = said BY <3>2 DEF NothingIsMissed
        <5>3. taken[c] \in Nat BY <1>1
        <5>4. \A x, y \in Nat : x + y = said => (x + 1) + (y - 1) = said BY <1>1
        <5>5. (taken[c] + 1) + (Len(queue[c]) - 1) = said BY <3>3, <5>2, <5>3, <5>4
        <5> QED BY <5>1, <5>5
      <4>3. CASE d # c
        <5>1. taken'[d] = taken[d] /\ queue'[d] = queue[d]
          BY <1>1, <3>1, <4>3 DEF Subscribed
        <5> QED BY <5>1 DEF NothingIsMissed
      <4> QED BY <4>2, <4>3
    <3>7. QueuesAreOpen' BY <1>1, <3>1, <3>2 DEF QueuesAreOpen
    <3>8. NewsIsTrue'
      <4>1. SUFFICES ASSUME NEW d \in Stream, NEW i \in DOMAIN queue'[d],
                            queue'[d][i].status \in Ends
                     PROVE  queue'[d][i].status = status
        BY <2>4 DEF NewsIsTrue, run
      <4>2. CASE d = c
        <5>1. queue'[d] = Tail(queue[c]) BY <1>1, <3>1, <4>2
        <5> QED BY <5>1, <3>3, <4>1 DEF NewsIsTrue
      <4>3. CASE d # c
        <5>1. queue'[d] = queue[d] BY <1>1, <3>1, <4>3
        <5> QED BY <5>1, <4>1 DEF NewsIsTrue
      <4> QED BY <4>2, <4>3
    <3> QED BY <1>1, <2>4, <2>5, <3>5, <3>6, <3>7, <3>8 DEF run, exec
  <2> QED BY <2>6, <2>7
<1>6. CASE Disconnect(c)
  <2>1. /\ conn[c] = "live" /\ queue' = Remove(c) /\ said' = said
        /\ conn' = [conn EXCEPT ![c] = "over"] /\ taken' = [taken EXCEPT ![c] = 0]
    BY <1>6 DEF Disconnect
  <2>2. TypeOK' BY <1>4, <1>6, <2>1 DEF Disconnect, TypeOK, run, exec, page
  <2>3. NewsIsTrue' BY <1>4, <1>6, <2>1 DEF Disconnect, NewsIsTrue, run
  <2> QED
    BY <1>1, <1>4, <1>6, <2>1, <2>2, <2>3 DEF Disconnect, run, exec, page, EndShownIsReal
<1> QED BY <1>2, <1>3, <1>5, <1>6

\* What the page does changes neither the run nor the queues, and what it shows
\* only by an answer.
LEMMA PageSteps ==
  ASSUME StreamInv, UNCHANGED <<run, exec, said, taken, queue>>, TypeOK',
         \/ conn' = conn
         \/ \E c \in Stream : conn[c] = "free" /\ conn' = [conn EXCEPT ![c] = "asked"],
         view' = view \/ \E k \in Requests : view' = req[k].got,
         \A k \in Requests : req'[k].got \in {req[k].got, "none", status}
  PROVE  StreamInv'
<1> USE DEF StreamInv
<1>1. status' = status /\ ExecutorKnows' BY DEF run, exec, ExecutorKnows
<1>2. Subscribed' = Subscribed
  <2>1. conn \in [Stream -> {"free", "asked", "registered", "live", "over"}] BY DEF TypeOK
  <2> QED BY <2>1 DEF Subscribed
<1>3. QueuesAreOpen' /\ NothingIsMissed' BY <1>2 DEF QueuesAreOpen, NothingIsMissed
<1>4. NewsIsTrue' BY <1>1, StatusNames DEF NewsIsTrue
<1>5. EndShownIsReal' BY <1>1 DEF EndShownIsReal, NewsIsTrue
<1> QED BY <1>1, <1>3, <1>4, <1>5

\* Every step keeps the invariant.
LEMMA StreamStep ==
  ASSUME StreamInv, [Next]_vars
  PROVE  StreamInv'
<1>1. /\ conn \in [Stream -> {"free", "asked", "registered", "live", "over"}]
      /\ req \in [Requests -> [by : {"none", "open", "poll"}, got : {"none"} \cup Statuses]]
      /\ view \in Statuses /\ status \in Statuses /\ MaxFaults \in Nat
      /\ {connected, timer, poll} \subseteq BOOLEAN
  BY BoundsAssumption DEF StreamInv, TypeOK
<1> DEFINE Reqs == [Requests -> [by : {"none", "open", "poll"}, got : {"none"} \cup Statuses]]
<1>2. ASSUME NEW k \in Requests, NEW what \in {"open", "poll"}, Ask(k, what)
      PROVE  /\ req' \in Reqs
             /\ \A l \in Requests : req'[l].got \in {req[l].got, "none", status}
  BY <1>1, <1>2 DEF Ask, Idle
<1>3. ASSUME NEW k \in Requests, req' = [req EXCEPT ![k] = Idle]
      PROVE  /\ req' \in Reqs
             /\ \A l \in Requests : req'[l].got \in {req[l].got, "none", status}
  BY <1>1, <1>3 DEF Idle
<1>4. ASSUME Fault PROVE faults' \in 0..MaxFaults
  BY <1>1, <1>4 DEF Fault, StreamInv, TypeOK
<1> USE DEF StreamInv
<1>5. ASSUME NEW c \in Stream, NEW k \in Requests, Open(c, k) PROVE StreamInv'
  <2>1. TypeOK' BY <1>1, <1>2, <1>5 DEF Open, TypeOK, run, exec
  <2> QED BY <1>2, <1>5, <2>1, PageSteps DEF Open
<1>6. CASE Leave
  <2>1. TypeOK' BY <1>6 DEF Leave, TypeOK, run, exec, server
  <2> QED BY <1>6, <2>1, PageSteps DEF Leave, server
<1>7. ASSUME NEW c \in Stream, Break(c) PROVE StreamInv'
  <2>1. TypeOK' BY <1>4, <1>7 DEF Break, TypeOK, run, exec, server
  <2> QED BY <1>7, <2>1, PageSteps DEF Break, server
<1>8. CASE Timeout
  <2>1. TypeOK' BY <1>8 DEF Timeout, TypeOK, run, exec, server
  <2> QED BY <1>8, <2>1, PageSteps DEF Timeout, server
<1>9. ASSUME NEW k \in Requests, Tick(k) PROVE StreamInv'
  <2>1. TypeOK' BY <1>2, <1>9 DEF Tick, TypeOK, run, exec, server, page
  <2> QED BY <1>2, <1>9, <2>1, PageSteps DEF Tick, server, page
<1>10. ASSUME NEW k \in Requests, Sample(k) PROVE StreamInv'
  <2>1. /\ req' \in Reqs
        /\ \A l \in Requests : req'[l].got \in {req[l].got, "none", status}
    BY <1>1, <1>10 DEF Sample
  <2>2. TypeOK' BY <1>10, <2>1 DEF Sample, TypeOK, run, exec, server, page
  <2> QED BY <1>10, <2>1, <2>2, PageSteps DEF Sample, server, page
<1>11. ASSUME NEW k \in Requests, Answer(k) PROVE StreamInv'
  <2>1. view' = view \/ view' = req[k].got BY <1>11 DEF Answer
  <2>2. view' \in Statuses BY <1>1, <1>11 DEF Answer
  <2>3. poll' \in BOOLEAN
    <3>1. poll \in BOOLEAN BY <1>1
    <3>2. poll' = poll \/ poll' = (poll /\ ~(req[k].by = "poll"
                                             /\ req[k].got \in {"completed", "failed"}))
      BY <1>11 DEF Answer
    <3> QED BY <3>1, <3>2
  <2>4. TypeOK' BY <1>3, <1>11, <2>2, <2>3 DEF Answer, TypeOK, run, exec, server
  <2> QED BY <1>3, <1>11, <2>1, <2>4, PageSteps DEF Answer, server
<1>12. ASSUME NEW k \in Requests, Fail(k) PROVE StreamInv'
  <2>1. TypeOK' BY <1>3, <1>4, <1>12 DEF Fail, TypeOK, run, exec, server, page
  <2> QED BY <1>3, <1>12, <2>1, PageSteps DEF Fail, server, page
<1>13. CASE UNCHANGED vars
  <2>1. TypeOK' BY <1>13 DEF vars, TypeOK, run, exec, server, page
  <2> QED BY <1>13, <2>1, PageSteps DEF vars, server, page
<1> QED
  BY <1>5, <1>6, <1>7, <1>8, <1>9, <1>10, <1>11, <1>12, <1>13, ExecutorSteps, StreamSteps
  DEF Next
-----------------------------------------------------------------------------
\* The invariant holds whatever breaks and in whatever order things arrive
\* (demo_executor.py, main.py, usePipelineState.ts).
THEOREM StreamInvariant == Spec => []StreamInv
BY InitInv, StreamStep, PTL DEF Spec

\* Queues, streams and requests hold what TypeOK says.
THEOREM StreamIsTyped == Spec => []TypeOK
BY StreamInvariant, PTL DEF StreamInv

\* Whichever streams of a run are opened, left or ended, an open one gets every
\* event after its registration (get_sse_queue, broadcast_sse).
THEOREM EventsAreKept == Spec => []NothingIsMissed
BY StreamInvariant, PTL DEF StreamInv

\* An end the page shows is the run's, whatever is late, for any number of
\* streams, requests and executors (applySSEEvent, fetchState).
THEOREM EndsAreReal == Spec => []EndShownIsReal
BY StreamInvariant, PTL DEF StreamInv

-----------------------------------------------------------------------------
(* Piles, uploads and starts *)

\* What was numbered has a smaller number than what comes next.
Numbered ==
  /\ files \subseteq 1..nextDoc - 1 /\ rows \subseteq 1..nextDoc - 1
  /\ \A u \in Uploads : session[u] \subseteq 1..nextDoc - 1

\* A request that has not been answered yet
Unanswered(u) == at[u] \in {"idle", "reading"}

\* will name what is in its session; these documents have files but no records
\* yet, and no other request has them.
SessionsAreOwn ==
  \A u \in Uploads : Unanswered(u) =>
    /\ told[u] = session[u] /\ session[u] \subseteq files \ rows
    /\ \A v \in Uploads : u # v /\ Unanswered(v) => session[u] \cap session[v] = {}

\* Members of piles are recorded and recorded documents have files.
Recorded ==
  /\ rows \subseteq files
  /\ \A p \in Piles : member[p] \subseteq rows

\* The document of a run was recorded.
RunsAreOfRecords == \A r \in DOMAIN runs : runs[r].doc \in rows

\* What the store holds at any moment: the strengthening of AnsweredIsStored,
Stored == Numbered /\ SessionsAreOwn /\ Recorded /\ AnsweredIsStored

\* and, with the types and the runs, the inductive invariant.
PileInv == PileTypeOK /\ Stored /\ RunsAreOfRecords

-----------------------------------------------------------------------------
\* A file that is stored has a number nobody has.
LEMMA KeepStores ==
  ASSUME PileTypeOK, Stored, NEW u \in Uploads, ReadFile(u), Keep(u)
  PROVE  Stored'
<1> DEFINE d == nextDoc
<1>1. /\ d \in Nat \ {0} /\ d \notin files /\ d \notin rows
      /\ \A v \in Uploads : d \notin session[v]
  BY DEF PileTypeOK, Stored, Numbered, Keep, Docs
<1>2. /\ nextDoc' = d + 1 /\ files' = files \cup {d} /\ at' = at
      /\ session' = [session EXCEPT ![u] = @ \cup {d}]
      /\ told' = [told EXCEPT ![u] = @ \cup {d}]
      /\ UNCHANGED <<rows, member, into>> /\ at[u] = "reading"
  BY DEF Keep, ReadFile
<1>3. \A v \in Uploads : /\ session'[v] = IF v = u THEN session[v] \cup {d} ELSE session[v]
                         /\ told'[v] = IF v = u THEN told[v] \cup {d} ELSE told[v]
  BY <1>2 DEF PileTypeOK
<1>4. Numbered'
  <2>1. 1..nextDoc - 1 \subseteq 1..nextDoc' - 1 /\ d \in 1..nextDoc' - 1
    BY <1>1, <1>2
  <2>2. files' \subseteq 1..nextDoc' - 1 /\ rows' \subseteq 1..nextDoc' - 1
    BY <1>2, <2>1 DEF Stored, Numbered
  <2>3. \A v \in Uploads : session'[v] \subseteq 1..nextDoc' - 1
    BY <1>3, <2>1 DEF Stored, Numbered
  <2> QED BY <2>2, <2>3 DEF Numbered
<1>5. SessionsAreOwn'
  <2>1. \A v \in Uploads : Unanswered(v)' <=> Unanswered(v)
    BY <1>2 DEF Unanswered
  <2>2. ASSUME NEW v \in Uploads, Unanswered(v)
        PROVE  told'[v] = session'[v] /\ session'[v] \subseteq files' \ rows'
    BY <1>1, <1>2, <1>3, <2>2 DEF Stored, SessionsAreOwn
  <2>3. ASSUME NEW v \in Uploads, NEW w \in Uploads, Unanswered(v), Unanswered(w), v # w
        PROVE  session'[v] \cap session'[w] = {}
    <3>1. session[v] \cap session[w] = {}
      BY <2>3 DEF Stored, SessionsAreOwn
    <3>2. d \notin session[v] /\ d \notin session[w]
      BY <1>1
    <3>3. CASE v = u
      BY <1>3, <2>3, <3>1, <3>2, <3>3
    <3>4. CASE w = u
      BY <1>3, <2>3, <3>1, <3>2, <3>4
    <3>5. CASE v # u /\ w # u
      BY <1>3, <3>1, <3>5
    <3> QED BY <3>3, <3>4, <3>5
  <2> QED BY <2>1, <2>2, <2>3 DEF SessionsAreOwn
<1>6. Recorded' /\ AnsweredIsStored'
  BY <1>2, <1>3 DEF Stored, Recorded, AnsweredIsStored
<1> QED BY <1>4, <1>5, <1>6 DEF Stored

\* A file that is not stored leaves the records alone; a request that is refused
\* answers for nothing.
LEMMA SkipStores ==
  ASSUME PileTypeOK, Stored, NEW u \in Uploads, ReadFile(u), Skip(u) \/ TooLarge(u)
  PROVE  Stored'
<1>1. /\ UNCHANGED <<files, nextDoc, told, rows, member, into>> /\ at[u] = "reading"
      /\ at' \in {at, [at EXCEPT ![u] = "refused"]}
      /\ session' = session \/ (session' = [session EXCEPT ![u] = {}] /\ at' # at)
  <2>1. Skip(u) => session' = session /\ at' \in {at, [at EXCEPT ![u] = "refused"]}
    BY DEF Skip
  <2>2. TooLarge(u) => /\ session' = [session EXCEPT ![u] = {}]
                            /\ at' = [at EXCEPT ![u] = "refused"]
    BY DEF TooLarge, Refuse
  <2>3. at[u] = "reading" /\ UNCHANGED <<files, nextDoc, told, rows, member, into>>
    BY DEF ReadFile, Skip, TooLarge, Refuse
  <2>4. at[u] = "reading" => [at EXCEPT ![u] = "refused"] # at
    BY DEF PileTypeOK
  <2> QED BY <2>1, <2>2, <2>3, <2>4
<1>5. \A v \in Uploads : /\ v # u => at'[v] = at[v] /\ session'[v] = session[v]
                         /\ session'[v] \in {session[v], {}}
                         /\ at'[v] \in {at[v], "refused"}
                         /\ at'[v] = at[v] => session'[v] = session[v]
  BY <1>1 DEF PileTypeOK
<1>2. Numbered'
  BY <1>1, <1>5 DEF Stored, Numbered
<1>3. SessionsAreOwn'
  BY <1>1, <1>5 DEF Stored, SessionsAreOwn, Unanswered
<1>4. Recorded' /\ AnsweredIsStored'
  BY <1>1, <1>5 DEF Stored, Recorded, AnsweredIsStored
<1> QED BY <1>2, <1>3, <1>4 DEF Stored

\* A commit records what the session holds; one that fails removes at most files
\* nobody has recorded.
LEMMA CommitStores ==
  ASSUME PileTypeOK, Stored, NEW u \in Uploads, CommitUpload(u)
  PROVE  Stored' /\ rows \subseteq rows'
<1>1. /\ UNCHANGED <<nextDoc, into, session, told>> /\ at[u] = "reading"
      /\ at' \in {[at EXCEPT ![u] = "answered"], [at EXCEPT ![u] = "failed"]}
  BY DEF CommitUpload
<1>2. told[u] = session[u] /\ session[u] \subseteq files \ rows
  BY <1>1 DEF Stored, SessionsAreOwn, Unanswered
<1>3. \A v \in Uploads : v # u /\ Unanswered(v) => session[v] \cap session[u] = {}
  BY <1>1 DEF Stored, SessionsAreOwn, Unanswered
<1>4. CASE /\ rows' = rows \cup session[u] /\ files' = files
           /\ member' = [p \in Piles |-> IF p = into[u] THEN member[p] \cup session[u]
                                         ELSE member[p]]
           /\ at' = [at EXCEPT ![u] = "answered"]
  <2>1. \A p \in Piles : member'[p] = IF p = into[u] THEN member[p] \cup session[u]
                                      ELSE member[p]
    BY <1>4
  <2>2. \A v \in Uploads : at'[v] = IF v = u THEN "answered" ELSE at[v]
    BY <1>4 DEF PileTypeOK
  <2>3. Numbered' /\ Recorded'
    BY <1>1, <1>2, <1>4, <2>1 DEF Stored, Numbered, Recorded
  <2>4. SessionsAreOwn'
    BY <1>1, <1>3, <1>4, <2>1, <2>2 DEF Stored, SessionsAreOwn, Unanswered
  <2>5. told[u] \subseteq rows' \cap files'
        /\ (into[u] \in Piles => told[u] \subseteq member'[into[u]])
    BY <1>2, <1>4, <2>1
  <2>6. ASSUME NEW v \in Uploads, v # u, at[v] = "answered"
        PROVE  /\ told[v] \subseteq rows' \cap files'
               /\ into[v] \in Piles => told[v] \subseteq member'[into[v]]
    BY <1>4, <2>1, <2>6 DEF Stored, AnsweredIsStored
  <2>7. AnsweredIsStored'
    BY <1>1, <2>2, <2>5, <2>6 DEF AnsweredIsStored
  <2> QED BY <1>4, <2>3, <2>4, <2>7 DEF Stored
<1>5. CASE rows' = rows /\ member' = member /\ at' = [at EXCEPT ![u] = "failed"]
           /\ files' = Clean(u)
  <2>1. files \ session[u] \subseteq files' /\ files' \subseteq files
    BY <1>5 DEF Clean
  <2>2. \A v \in Uploads : at'[v] = IF v = u THEN "failed" ELSE at[v]
    BY <1>5 DEF PileTypeOK
  <2>3. Numbered' /\ Recorded'
    BY <1>1, <1>2, <1>5, <2>1 DEF Stored, Numbered, Recorded
  <2>4. SessionsAreOwn'
    BY <1>1, <1>3, <1>5, <2>1, <2>2 DEF Stored, SessionsAreOwn, Unanswered
  <2>5. AnsweredIsStored'
    BY <1>1, <1>2, <1>5, <2>1, <2>2 DEF Stored, AnsweredIsStored
  <2> QED BY <1>5, <2>3, <2>4, <2>5 DEF Stored
<1> QED BY <1>4, <1>5 DEF CommitUpload

\* No step loses a record.
LEMMA StoredKept ==
  ASSUME PileTypeOK, Stored, [PileNext]_pileVars
  PROVE  Stored' /\ rows \subseteq rows'
<1>1. ASSUME UNCHANGED <<rows, member, files, nextDoc, uploads>>
      PROVE  Stored' /\ rows \subseteq rows'
  BY <1>1 DEF uploads, Stored, Numbered, SessionsAreOwn, Unanswered, Recorded,
              AnsweredIsStored
<1>2. ASSUME NEW u \in Uploads, NEW p, NEW n, BeginUpload(u, p, n)
      PROVE  Stored' /\ rows \subseteq rows'
  <2>1. /\ UNCHANGED <<rows, member, files, nextDoc, session, told>>
        /\ at[u] = "idle"
        /\ \A v \in Uploads : /\ at'[v] = IF v = u THEN "reading" ELSE at[v]
                              /\ v # u => into'[v] = into[v]
    BY <1>2 DEF BeginUpload, documents, PileTypeOK
  <2>2. Numbered' /\ Recorded'
    BY <2>1 DEF Stored, Numbered, Recorded
  <2>3. SessionsAreOwn'
    BY <2>1 DEF Stored, SessionsAreOwn, Unanswered
  <2>4. AnsweredIsStored'
    BY <2>1 DEF Stored, AnsweredIsStored
  <2> QED BY <2>1, <2>2, <2>3, <2>4 DEF Stored
<1>3. ASSUME NEW u \in Uploads, ReadFile(u) PROVE Stored' /\ rows \subseteq rows'
  <2>1. rows' = rows
    BY <1>3 DEF ReadFile
  <2> QED BY <1>3, <2>1, KeepStores, SkipStores DEF ReadFile
<1>4. CASE Crash
  <2>1. /\ UNCHANGED <<rows, member, files, nextDoc, into, session, told>>
        /\ \A v \in Uploads : at'[v] = IF at[v] = "reading" THEN "failed" ELSE at[v]
    BY <1>4 DEF Crash, documents
  <2>2. Numbered' /\ Recorded'
    BY <2>1 DEF Stored, Numbered, Recorded
  <2>3. SessionsAreOwn'
    BY <2>1 DEF Stored, SessionsAreOwn, Unanswered
  <2>4. AnsweredIsStored'
    BY <2>1 DEF Stored, AnsweredIsStored
  <2> QED BY <2>1, <2>2, <2>3, <2>4 DEF Stored
<1>5. ASSUME NEW p, CreatePile(p) \/ DeletePile(p)
      PROVE  Stored' /\ rows \subseteq rows'
  BY <1>1, <1>5 DEF CreatePile, DeletePile
<1>6. ASSUME NEW s \in Starts, \/ \E p \in Piles : StartPile(s, p)
                               \/ \E p \in Piles \cup {"none"}, d \in Docs :
                                    StartDocument(s, d, p)
                               \/ Begin(s) \/ End(s)
      PROVE  Stored' /\ rows \subseteq rows'
  BY <1>1, <1>6 DEF StartPile, StartDocument, StartRuns, Begin,
                    End, documents
<1>7. ASSUME NEW r \in DOMAIN runs, ResumeRun(r) \/ EndResume(r) \/ DeleteRun(r)
      PROVE  Stored' /\ rows \subseteq rows'
  BY <1>1, <1>7 DEF ResumeRun, EndResume, DeleteRun, documents
<1>8. CASE UNCHANGED pileVars
  BY <1>1, <1>8 DEF pileVars, documents
<1> QED BY <1>2, <1>3, <1>4, <1>5, <1>6, <1>7, <1>8, CommitStores DEF PileNext

-----------------------------------------------------------------------------
\* The rows a start adds.
NewRuns(docs, listed, new, ok) ==
  [i \in 1..Cardinality(docs) |->
     [doc |-> new[i], listed |-> listed, sound |-> ok, status |-> "pending"]]

\* They are runs of the documents.
LEMMA LaunchAdds ==
  ASSUME PileTypeOK, NEW docs \in SUBSET Docs, NEW listed \in SUBSET Docs,
         IsFiniteSet(docs), NEW new \in InOrder(docs), NEW ok \in BOOLEAN
  PROVE  /\ Cardinality(docs) \in Nat
         /\ NewRuns(docs, listed, new, ok) \in Seq(Run)
         /\ runs \o NewRuns(docs, listed, new, ok) \in Seq(Run)
         /\ Len(runs) <= Len(runs \o NewRuns(docs, listed, new, ok))
         /\ \A r \in DOMAIN (runs \o NewRuns(docs, listed, new, ok)) :
              \/ (runs \o NewRuns(docs, listed, new, ok))[r].doc \in docs
              \/ (r \in DOMAIN runs /\ (runs \o NewRuns(docs, listed, new, ok))[r] = runs[r])
<1> DEFINE added == NewRuns(docs, listed, new, ok)
<1>1. Cardinality(docs) \in Nat
  BY FS_CardinalityType
<1>2. \A i \in 1..Cardinality(docs) : new[i] \in docs
  BY DEF InOrder
<1>3. /\ added \in Seq(Run) /\ Len(added) = Cardinality(docs)
      /\ \A i \in 1..Cardinality(docs) : added[i].doc \in docs
  <2>1. added \in [1..Cardinality(docs) -> Run]
    BY <1>2 DEF NewRuns, Run
  <2>2. added \in Seq(Run) /\ Len(added) = Cardinality(docs)
    BY <1>1, <2>1
  <2>3. \A i \in 1..Cardinality(docs) : added[i].doc = new[i]
    BY DEF NewRuns
  <2> QED BY <1>2, <2>2, <2>3
<1>4. runs \in Seq(Run)
  BY DEF PileTypeOK
<1>5. runs \o added \in Seq(Run) /\ Len(runs \o added) = Len(runs) + Len(added)
  BY <1>3, <1>4
<1>6. ASSUME NEW r \in DOMAIN (runs \o added)
      PROVE  \/ (runs \o added)[r].doc \in docs
             \/ (r \in DOMAIN runs /\ (runs \o added)[r] = runs[r])
  <2>1. r \in 1..Len(runs) + Len(added)
    BY <1>5, <1>6
  <2>2. CASE r \in 1..Len(runs)
    BY <1>3, <1>4, <2>2
  <2>3. CASE r \in Len(runs) + 1..Len(runs) + Len(added)
    <3>1. (runs \o added)[r] = added[r - Len(runs)] /\ r - Len(runs) \in 1..Len(added)
      BY <1>3, <1>4, <2>3
    <3>2. r - Len(runs) \in 1..Cardinality(docs)
      BY <1>3, <3>1
    <3>3. added[r - Len(runs)].doc \in docs
      BY <1>3, <3>2
    <3> QED BY <3>1, <3>3
  <2> QED BY <1>3, <1>4, <2>1, <2>2, <2>3
<1> QED BY <1>1, <1>3, <1>5, <1>6

\* A start makes runs of recorded documents, and its task the numbers of these runs.
LEMMA LaunchKept ==
  ASSUME PileTypeOK, RunsAreOfRecords, NEW s \in Starts, NEW docs \in SUBSET rows,
         NEW listed \in SUBSET Docs, IsFiniteSet(docs), StartRuns(s, docs, listed)
  PROVE  /\ runs' \in Seq(Run) /\ waiting' \in [Starts -> Seq(Nat)]
         /\ resumed' \subseteq DOMAIN runs'
         /\ RunsAreOfRecords'
<1>1. docs \subseteq Docs /\ Len(runs) \in Nat /\ runs \in Seq(Run)
  BY DEF PileTypeOK
<1>2. PICK new \in InOrder(docs), ok \in BOOLEAN :
        runs' = runs \o NewRuns(docs, listed, new, ok)
  BY DEF StartRuns, NewRuns
<1>3. Cardinality(docs) \in Nat
  BY FS_CardinalityType
<1>4. /\ runs' \in Seq(Run) /\ Len(runs) <= Len(runs')
      /\ \A r \in DOMAIN runs' : \/ runs'[r].doc \in docs
                                \/ (r \in DOMAIN runs /\ runs'[r] = runs[r])
  <2>1. docs \in SUBSET Docs
    BY <1>1
  <2> QED BY <1>2, <2>1, LaunchAdds
<1>5. RunsAreOfRecords'
  <2>1. rows' = rows
    BY DEF StartRuns, documents
  <2> QED BY <1>4, <2>1 DEF RunsAreOfRecords
<1>6. waiting' \in [Starts -> Seq(Nat)]
  <2>1. [i \in 1..Cardinality(docs) |-> Len(runs) + i] \in Seq(Nat)
    BY <1>1, <1>3
  <2> QED BY <2>1 DEF StartRuns, PileTypeOK
<1>7. DOMAIN runs \subseteq DOMAIN runs'
  BY <1>1, <1>4
<1> QED BY <1>4, <1>5, <1>6, <1>7 DEF StartRuns, PileTypeOK

\* A run's status changes, its document does not.
LEMMA StatusKept ==
  ASSUME PileTypeOK, RunsAreOfRecords, rows' = rows, NEW r,
         NEW new \in Settled \cup {"pending", "running", "paused", "deleted"},
         SetRun(r, new)
  PROVE  runs' \in Seq(Run) /\ DOMAIN runs' = DOMAIN runs /\ RunsAreOfRecords'
<1>1. runs \in Seq(Run) /\ Len(runs) \in Nat
  BY DEF PileTypeOK
<1>2. \A q \in DOMAIN runs : runs[q] \in Run
  BY <1>1
<1>3. /\ DOMAIN runs' = DOMAIN runs
      /\ \A q \in DOMAIN runs : runs'[q] \in Run /\ runs'[q].doc = runs[q].doc
  BY <1>2 DEF SetRun, Run
<1>4. runs' \in Seq(Run)
  <2>1. runs \in [1..Len(runs) -> Run]
    BY <1>1
  <2>2. runs' \in [1..Len(runs) -> Run]
    BY <1>3, <2>1 DEF SetRun
  <2> QED BY <1>1, <2>2
<1> QED BY <1>3, <1>4 DEF RunsAreOfRecords

\* The documents of a pile are finitely many.
LEMMA DocsFinite ==
  ASSUME NEW docs \in SUBSET Docs
  PROVE  IsFiniteSet(docs)
<1>1. MaxDocs \in Int
  BY PileBounds
<1>2. IsFiniteSet(1..MaxDocs)
  BY <1>1, FS_Interval
<1> QED BY <1>2, FS_Subset DEF Docs

\* The types of the stores and of the uploads,
UploadsTyped ==
  /\ pile \in [Piles -> {"none", "active", "archived"}]
  /\ rows \subseteq Docs /\ files \subseteq Docs
  /\ member \in [Piles -> SUBSET Docs]
  /\ nextDoc \in 1..MaxDocs + 1
  /\ at \in [Uploads -> {"idle", "reading", "answered", "refused", "failed"}]
  /\ into \in [Uploads -> Piles \cup {"documents"}]
  /\ left \in [Uploads -> 0..MaxFiles]
  /\ session \in [Uploads -> SUBSET Docs] /\ told \in [Uploads -> SUBSET Docs]

\* and those of the runs and of the tasks that execute them.
TasksTyped ==
  /\ runs \in Seq(Run)
  /\ waiting \in [Starts -> Seq(Nat)] /\ busy \in [Starts -> Nat]
  /\ resumed \subseteq DOMAIN runs
  /\ failures \in 0..MaxFailures /\ crashed \in BOOLEAN

\* No step breaks a type of the stores or of the uploads.
LEMMA UploadsTypedKept ==
  ASSUME PileTypeOK, [PileNext]_pileVars
  PROVE  UploadsTyped'
<1> USE DEF UploadsTyped, PileTypeOK, documents, uploads
<1>1. ASSUME UNCHANGED <<rows, member, files, nextDoc, uploads>>,
             pile' \in [Piles -> {"none", "active", "archived"}]
      PROVE  UploadsTyped'
  BY <1>1
<1>2. ASSUME NEW u \in Uploads, NEW p \in Piles \cup {"documents"}, NEW n \in 1..MaxFiles,
             BeginUpload(u, p, n)
      PROVE  UploadsTyped'
  BY <1>2, PileBounds DEF BeginUpload
<1>3. ASSUME NEW u \in Uploads, ReadFile(u) PROVE UploadsTyped'
  <2>1. left' \in [Uploads -> 0..MaxFiles]
    BY <1>3, PileBounds DEF ReadFile
  <2>2. CASE Keep(u)
    <3>1. nextDoc \in Docs /\ nextDoc' \in 1..MaxDocs + 1
      BY <2>2, PileBounds DEF Keep, Docs
    <3> QED BY <1>3, <2>1, <2>2, <3>1 DEF ReadFile, Keep
  <2>3. CASE Skip(u)
    BY <1>3, <2>1, <2>3 DEF ReadFile, Skip
  <2>4. CASE TooLarge(u)
    BY <1>3, <2>1, <2>4 DEF ReadFile, TooLarge, Refuse
  <2> QED BY <1>3, <2>2, <2>3, <2>4 DEF ReadFile
<1>4. ASSUME NEW u \in Uploads, CommitUpload(u) PROVE UploadsTyped'
  <2>1. at' \in {[at EXCEPT ![u] = "answered"], [at EXCEPT ![u] = "failed"]}
    BY <1>4 DEF CommitUpload
  <2>2. files' \subseteq files /\ rows' \in {rows, rows \cup session[u]}
    BY <1>4 DEF CommitUpload, Clean
  <2>3. session[u] \subseteq Docs
    OBVIOUS
  <2>4. CASE member' = member
    BY <1>4, <2>1, <2>2, <2>3, <2>4 DEF CommitUpload
  <2>5. CASE member' = [p \in Piles |-> IF p = into[u] THEN member[p] \cup session[u]
                                       ELSE member[p]]
    <3>1. \A p \in Piles : member[p] \cup session[u] \in SUBSET Docs
      BY <2>3
    <3>2. \A p \in Piles : member[p] \in SUBSET Docs
      OBVIOUS
    <3>3. member' \in [Piles -> SUBSET Docs]
      BY <2>5, <3>1, <3>2
    <3> QED BY <1>4, <2>1, <2>2, <2>3, <3>3 DEF CommitUpload
  <2> QED BY <1>4, <2>4, <2>5 DEF CommitUpload
<1>5. CASE Crash
  BY <1>5 DEF Crash
<1>6. ASSUME NEW p \in Piles, CreatePile(p) \/ DeletePile(p) PROVE UploadsTyped'
  BY <1>6 DEF CreatePile, DeletePile
<1>7. ASSUME NEW s \in Starts, \/ \E p \in Piles : StartPile(s, p)
                               \/ \E p \in Piles \cup {"none"}, d \in Docs :
                                    StartDocument(s, d, p)
                               \/ Begin(s) \/ End(s)
      PROVE  UploadsTyped'
  BY <1>1, <1>7 DEF StartPile, StartDocument, StartRuns, Begin, End
<1>8. ASSUME NEW r \in DOMAIN runs, ResumeRun(r) \/ EndResume(r) \/ DeleteRun(r)
      PROVE  UploadsTyped'
  BY <1>1, <1>8 DEF ResumeRun, EndResume, DeleteRun
<1>9. CASE UNCHANGED pileVars
  BY <1>1, <1>9 DEF pileVars
<1> QED BY <1>2, <1>3, <1>4, <1>5, <1>6, <1>7, <1>8, <1>9 DEF PileNext

\* The task of a start takes the runs of its list, one by one.
LEMMA TasksKept ==
  ASSUME PileInv, [PileNext]_pileVars
  PROVE  TasksTyped' /\ RunsAreOfRecords'
<1> DEFINE Goal == TasksTyped' /\ RunsAreOfRecords'
<1> DEFINE Moved == \E r \in Nat : \E new \in Settled \cup {"running", "paused", "deleted"} :
                      SetRun(r, new)
<1>1. PileTypeOK /\ Recorded /\ RunsAreOfRecords /\ TasksTyped /\ MaxFailures \in Nat
  BY PileBounds DEF PileInv, Stored, PileTypeOK, TasksTyped
<1>2. Failure => failures' \in 0..MaxFailures
  BY <1>1 DEF Failure, PileTypeOK
<1>3. \A q \in Seq(Nat) : q # <<>> => Head(q) \in Nat /\ Tail(q) \in Seq(Nat)
  OBVIOUS
<1>4. ASSUME NEW s \in Starts, NEW docs \in SUBSET rows, NEW listed \in SUBSET Docs,
             StartRuns(s, docs, listed)
      PROVE  Goal
  <2>1. IsFiniteSet(docs)
    BY <1>1, DocsFinite DEF PileTypeOK
  <2> QED BY <1>1, <1>4, <2>1, LaunchKept DEF StartRuns, TasksTyped
<1>5. ASSUME NEW s \in Starts, NEW p \in Piles, StartPile(s, p) PROVE Goal
  <2>1. member[p] \in SUBSET rows /\ member[p] \in SUBSET Docs
    BY <1>1 DEF Recorded, PileTypeOK
  <2> QED BY <1>4, <1>5, <2>1 DEF StartPile
<1>6. ASSUME NEW s \in Starts, NEW p \in Piles \cup {"none"}, NEW d \in Docs,
             StartDocument(s, d, p)
      PROVE  Goal
  <2>1. {d} \in SUBSET rows /\ (IF p \in Piles THEN member[p] ELSE {d}) \in SUBSET Docs
    BY <1>1, <1>6 DEF StartDocument, PileTypeOK
  <2> QED BY <1>4, <1>6, <2>1 DEF StartDocument
<1>7. ASSUME rows' = rows, runs' = runs \/ Moved
      PROVE  runs' \in Seq(Run) /\ DOMAIN runs' = DOMAIN runs /\ RunsAreOfRecords'
  <2>1. CASE runs' = runs
    BY <1>1, <1>7, <2>1 DEF PileTypeOK, RunsAreOfRecords
  <2>2. CASE Moved
    BY <1>1, <1>7, <2>2, StatusKept
  <2> QED BY <1>7, <2>1, <2>2
<1>8. ASSUME NEW s \in Starts, Begin(s) PROVE Goal
  <2>1. Head(waiting[s]) \in Nat /\ Tail(waiting[s]) \in Seq(Nat)
    BY <1>1, <1>3, <1>8 DEF Begin, PileTypeOK
  <2>2. rows' = rows /\ (runs' = runs \/ Moved)
    BY <1>8, <2>1 DEF Begin, documents
  <2>3. waiting' \in [Starts -> Seq(Nat)] /\ busy' \in [Starts -> Nat]
    <3>1. <<>> \in Seq(Nat)
      OBVIOUS
    <3>2. \/ waiting' = [waiting EXCEPT ![s] = Tail(waiting[s])]
          \/ waiting' = [waiting EXCEPT ![s] = <<>>]
      BY <1>8 DEF Begin, Proceed, Abandon
    <3>3. busy' = busy \/ busy' = [busy EXCEPT ![s] = Head(waiting[s])]
      BY <1>8 DEF Begin
    <3> QED BY <1>1, <2>1, <3>1, <3>2, <3>3 DEF PileTypeOK
  <2>4. failures' \in 0..MaxFailures /\ UNCHANGED <<resumed, crashed>>
    BY <1>1, <1>2, <1>8 DEF Begin, PileTypeOK
  <2> QED BY <1>1, <1>7, <2>1, <2>2, <2>3, <2>4 DEF TasksTyped
<1>9. ASSUME NEW s \in Starts, End(s) PROVE Goal
  <2>1. busy[s] \in Nat
    BY <1>1 DEF PileTypeOK
  <2>2. rows' = rows /\ (runs' = runs \/ Moved)
    BY <1>9, <2>1 DEF End, documents
  <2>3. waiting' \in [Starts -> Seq(Nat)] /\ busy' \in [Starts -> Nat]
    <3>1. <<>> \in Seq(Nat)
      OBVIOUS
    <3>2. /\ waiting' = waiting \/ waiting' = [waiting EXCEPT ![s] = <<>>]
          /\ busy' = [busy EXCEPT ![s] = 0]
      BY <1>9 DEF End, Abandon
    <3> QED BY <1>1, <3>1, <3>2 DEF PileTypeOK
  <2>4. failures' \in 0..MaxFailures /\ UNCHANGED <<resumed, crashed>>
    BY <1>1, <1>2, <1>9 DEF End, PileTypeOK
  <2> QED BY <1>1, <1>7, <2>1, <2>2, <2>3, <2>4 DEF TasksTyped
<1>10. ASSUME NEW r \in DOMAIN runs,
              ResumeRun(r) \/ EndResume(r) \/ DeleteRun(r)
       PROVE  Goal
  <2>1. r \in Nat
    BY <1>1 DEF PileTypeOK
  <2>2. /\ UNCHANGED <<rows, waiting, busy, crashed>>
        /\ runs' = runs \/ Moved
    BY <1>10, <2>1 DEF ResumeRun, EndResume, DeleteRun, documents,
                       tasks
  <2>3. resumed' \subseteq DOMAIN runs /\ failures' \in 0..MaxFailures
    BY <1>1, <1>2, <1>10 DEF ResumeRun, EndResume, DeleteRun, tasks,
                             PileTypeOK
  <2> QED BY <1>1, <1>7, <2>1, <2>2, <2>3 DEF TasksTyped
<1>11. CASE Crash
  BY <1>1, <1>7, <1>11 DEF Crash, documents, TasksTyped
<1>12. ASSUME UNCHANGED <<runs, tasks, crashed>>, rows \subseteq rows', failures' \in 0..MaxFailures
       PROVE  Goal
  BY <1>1, <1>12 DEF tasks, TasksTyped, RunsAreOfRecords
<1>13. ASSUME NEW u \in Uploads, NEW p, NEW n,
              BeginUpload(u, p, n) \/ ReadFile(u) \/ CommitUpload(u)
       PROVE  Goal
  <2>1. /\ UNCHANGED <<runs, tasks, crashed>>
        /\ rows \subseteq rows' /\ failures' \in 0..MaxFailures
    BY <1>1, <1>2, <1>13 DEF BeginUpload, ReadFile, CommitUpload,
                             documents, TasksTyped
  <2> QED BY <1>12, <2>1
<1>14. ASSUME NEW p, CreatePile(p) \/ DeletePile(p) PROVE Goal
  BY <1>1, <1>12, <1>14 DEF CreatePile, DeletePile, TasksTyped
<1>15. CASE UNCHANGED pileVars
  BY <1>1, <1>12, <1>15 DEF pileVars, documents, TasksTyped
<1> QED BY <1>5, <1>6, <1>8, <1>9, <1>10, <1>11, <1>13, <1>14, <1>15 DEF PileNext

\* Every reachable state satisfies the inductive invariant.
THEOREM PileInvariant == PileSpec => []PileInv
<1>1. PileInit => PileInv
  <2> SUFFICES ASSUME PileInit PROVE PileInv
    OBVIOUS
  <2>1. PileTypeOK
    <3>1. <<>> \in Seq(Nat) /\ <<>> \in Seq(Run)
      OBVIOUS
    <3>2. 1 \in 1..MaxDocs + 1 /\ 0 \in 0..MaxFiles /\ 0 \in 0..MaxFailures
      BY PileBounds
    <3> QED BY <3>1, <3>2 DEF PileInit, PileTypeOK
  <2>2. Stored /\ RunsAreOfRecords
    BY DEF PileInit, Stored, Numbered, SessionsAreOwn, Unanswered, Recorded,
           AnsweredIsStored, RunsAreOfRecords
  <2> QED BY <2>1, <2>2 DEF PileInv
<1>2. PileInv /\ [PileNext]_pileVars => PileInv'
  <2> SUFFICES ASSUME PileInv, [PileNext]_pileVars PROVE PileInv'
    OBVIOUS
  <2>1. UploadsTyped' /\ TasksTyped' /\ Stored' /\ RunsAreOfRecords'
    BY UploadsTypedKept, TasksKept, StoredKept DEF PileInv
  <2> QED BY <2>1 DEF PileInv, PileTypeOK, UploadsTyped, TasksTyped
<1> QED BY <1>1, <1>2, PTL DEF PileSpec

\* The tables, the uploads and the tasks keep their types (piles_api.py,
\* upload_api.py, main.py 164-425).
THEOREM PilesAreTyped == PileSpec => []PileTypeOK
BY PileInvariant, PTL DEF PileInv

\* However many uploads run, fail or are cut off by a crash, each document an answer
\* named has its records, its file and its place in the pile (upload_api.py,
\* piles_api.py).
THEOREM AnswersAreKept == PileSpec => []AnsweredIsStored
<1>1. PileInv => AnsweredIsStored
  BY DEF PileInv, Stored
<1> QED BY <1>1, PileInvariant, PTL

\* A clean-up of one upload never takes the file of a recorded document or of a run
\* (upload_api.py, main.py 224-347).
THEOREM DocumentsAreFiles == PileSpec => []DocumentsHaveFiles
<1>1. PileInv => DocumentsHaveFiles
  BY DEF PileInv, Stored, Recorded, RunsAreOfRecords, DocumentsHaveFiles
<1> QED BY <1>1, PileInvariant, PTL
=============================================================================
