----------------------------- MODULE RunStream -----------------------------
(***************************************************************************)
(* One run as a page sees it: the events its executor broadcasts to the    *)
(* queues of the open streams (main.py, demo_executor.py), GET /state, and *)
(* the hook usePipelineState, which follows the stream and falls back to   *)
(* polling.  A page may leave the run and come back; the server notices    *)
(* later that a stream was left.  A resumed run may be executed in a       *)
(* thread, so its writes and its broadcasts are separate steps.  Of what   *)
(* the page shows we keep the status of the run.                           *)
(***************************************************************************)
EXTENDS Integers, Sequences

CONSTANTS
  N, Gate,     \* the nodes are 1..N; Gate is human_review
  Conns,       \* bound on the streams ever opened
  Requests,    \* slots: a bound on the GET /state in flight
  MaxFaults    \* bound on exceptions, broken streams and failed requests

ASSUME BoundsAssumption == {N, Conns, MaxFaults} \subseteq Nat /\ Gate \in 1..N

VARIABLES
  status, step, going,          \* runs.status, the last step row, whether it is running
  pc, node, outcome, by,        \* the executor, and the task that runs it
  said,                         \* number of events broadcast so far
  conn, queue, taken,           \* streams: stage, queue, the events before its first
  es, connected, timer, poll,   \* the page: EventSource, sseConnected, timeout, interval
  view,                         \* runState.run_status
  req,                          \* its requests
  faults

run    == <<status, step, going>>
exec   == <<pc, node, outcome, by>>
server == <<conn, taken>>
page   == <<es, connected, timer, poll, view>>
vars   == <<run, exec, said, server, queue, page, req, faults>>

Ends     == {"completed", "completed_with_persistence_gap", "failed", "cancelled"}
Statuses == Ends \cup {"pending", "running", "paused"}
Idle     == [by |-> "none", got |-> "none"]     \* a free slot
Stream   == 1..Conns
Away     == -1      \* the page shows no run
Closed   == 0
Event    == [type : {"node_start", "node_complete", "run_paused", "run_complete"},
             status : Statuses]

\* what the server keeps for a run: the queues of _sse_subscribers
Subscribed == {c \in Stream : conn[c] \in {"registered", "live"}}

TypeOK ==
  /\ status \in Statuses /\ step \in 0..N /\ going \in BOOLEAN
  /\ pc \in {"idle", "start", "run", "wrote", "settle", "end"}
  /\ node \in 1..N + 1 /\ outcome \in Ends \cup {"next", "paused"}
  /\ by \in {"start", "resume"}
  /\ said \in Nat
  /\ conn \in [Stream -> {"free", "asked", "registered", "live", "over"}]
  /\ queue \in [Stream -> Seq(Event)] /\ taken \in [Stream -> Nat]
  /\ es \in {Away, Closed} \cup Stream
  /\ {connected, timer, poll} \subseteq BOOLEAN /\ view \in Statuses
  /\ req \in [Requests -> [by : {"none", "open", "poll"}, got : {"none"} \cup Statuses]]
  /\ faults \in 0..MaxFaults

Init ==
  /\ status = "pending" /\ step = 0 /\ going = FALSE
  /\ pc = "idle" /\ node = 1 /\ outcome = "next" /\ by = "start"
  /\ said = 0
  /\ conn = [c \in Stream |-> "free"]
  /\ queue = [c \in Stream |-> <<>>] /\ taken = [c \in Stream |-> 0]
  /\ es = Away /\ connected = FALSE /\ timer = FALSE /\ poll = FALSE
  /\ view = "pending"
  /\ req = [k \in Requests |-> Idle]
  /\ faults = 0

Fault == faults < MaxFaults /\ faults' = faults + 1

-----------------------------------------------------------------------------
(* The executor *)

\* broadcast_sse
Broadcast(type, new) ==
  /\ said' = said + 1
  /\ queue' = [c \in Stream |-> IF c \in Subscribed
                                THEN Append(queue[c], [type |-> type, status |-> new])
                                ELSE queue[c]]

Launch ==
  /\ status = "pending" /\ pc = "idle"
  /\ status' = "running" /\ pc' = "start"
  /\ UNCHANGED <<step, going, node, outcome, by, said, server, queue, page, req, faults>>

\* from the last checkpoint; only the server dispatches a resume
Resume ==
  /\ status \in {"paused", "running"} /\ pc = "idle"
  /\ status' = "running" /\ pc' = "start" /\ by' = "resume"
  /\ node' = (IF going THEN step ELSE step + 1) /\ outcome' = "next"
  /\ UNCHANGED <<step, going, said, server, queue, page, req, faults>>

StartNode ==
  /\ pc = "start" /\ node <= N
  /\ Broadcast("node_start", "running")
  /\ step' = node /\ going' = TRUE /\ pc' = "run"
  /\ UNCHANGED <<status, node, outcome, by, server, page, req, faults>>

\* cooperative cancellation is looked for before each node
StopCancelled ==
  /\ pc = "start" /\ node <= N
  /\ status' = "cancelled" /\ outcome' = "cancelled" /\ pc' = "end"
  /\ UNCHANGED <<step, going, node, by, said, server, queue, page, req, faults>>

\* a node is done, pauses the run, or errs for good
EndNode ==
  /\ pc = "run" /\ pc' = "wrote" /\ going' = FALSE
  /\ outcome' \in {"next", "failed"} \cup (IF node = Gate THEN {"paused"} ELSE {})
  /\ UNCHANGED <<status, step, node, by, said, server, queue, page, req, faults>>

\* mutant: node_complete carries the status the run is going to have
ReportedOutcome == IF outcome = "next" THEN "running" ELSE outcome

ReportedStatus == IF outcome = "paused" THEN "paused" ELSE "running"

TellNode ==
  /\ pc = "wrote" /\ Broadcast("node_complete", ReportedStatus)
  /\ IF outcome = "next" THEN pc' = "start" /\ node' = node + 1
     ELSE pc' = "settle" /\ UNCHANGED node
  /\ UNCHANGED <<run, outcome, by, server, page, req, faults>>

WriteStatus ==
  /\ \/ pc = "settle" /\ outcome' = outcome
     \/ /\ pc = "start" /\ node > N
        /\ outcome' \in {"completed", "completed_with_persistence_gap"}
  /\ status' = outcome' /\ pc' = "end"
  /\ UNCHANGED <<step, going, node, by, said, server, queue, page, req, faults>>

TellStatus ==
  /\ pc = "end" /\ pc' = "idle"
  /\ Broadcast(IF outcome = "paused" THEN "run_paused" ELSE "run_complete", outcome)
  /\ UNCHANGED <<run, node, outcome, by, server, page, req, faults>>

\* A write raises.  The task of the start marks the run failed and says so, unless
\* that raises, too; the task of a resume only logs.
Raise ==
  /\ pc \notin {"idle", "end"} /\ Fault
  /\ \/ by = "start" /\ status' = "failed" /\ outcome' = "failed" /\ pc' = "end"
     \/ pc' = "idle" /\ UNCHANGED <<status, outcome>>
  /\ UNCHANGED <<step, going, node, by, said, server, queue, page, req>>

-----------------------------------------------------------------------------
(* The streams.  An event leaves its queue when the page handles it; what is *)
(* on the wire is lost with the stream, as the queue is.                     *)

\* stream_run_events registers the queue before its generator starts
Register(c) ==
  /\ conn[c] = "asked" /\ conn' = [conn EXCEPT ![c] = "registered"]
  /\ taken' = [taken EXCEPT ![c] = said]
  /\ UNCHANGED <<run, exec, said, queue, page, req, faults>>

\* "connected": the page relies on the stream from here on
Greet(c) ==
  /\ conn[c] = "registered" /\ conn' = [conn EXCEPT ![c] = "live"]
  /\ IF es = c THEN connected' = TRUE /\ poll' = FALSE ELSE UNCHANGED <<connected, poll>>
  /\ UNCHANGED <<run, exec, said, taken, queue, es, timer, view, req, faults>>

\* mutant: the run's list of queues goes with the first that is removed
RemoveAll(c) == [d \in Stream |-> IF d \in Subscribed THEN <<>> ELSE queue[d]]

Remove(c) == [queue EXCEPT ![c] = <<>>]

\* applySSEEvent; both sides end the stream after run_complete
Deliver(c) ==
  /\ conn[c] = "live" /\ es = c /\ queue[c] # <<>>
  /\ LET e == Head(queue[c])
     IN  /\ view' = e.status
         /\ IF e.type = "run_complete"
            THEN /\ es' = Closed /\ conn' = [conn EXCEPT ![c] = "over"]
                 /\ queue' = Remove(c) /\ taken' = [taken EXCEPT ![c] = 0]
            ELSE /\ queue' = [queue EXCEPT ![c] = Tail(@)]
                 /\ taken' = [taken EXCEPT ![c] = @ + 1]
                 /\ UNCHANGED <<es, conn>>
  /\ UNCHANGED <<run, exec, said, connected, timer, poll, req, faults>>

\* The server notices that the page is gone.  A generator that has not started has
\* no finally: until it does, the queue stays.
Disconnect(c) ==
  /\ conn[c] = "live" /\ es # c
  /\ conn' = [conn EXCEPT ![c] = "over"] /\ queue' = Remove(c)
  /\ taken' = [taken EXCEPT ![c] = 0]
  /\ UNCHANGED <<run, exec, said, page, req, faults>>

-----------------------------------------------------------------------------
(* The page *)

Ask(k, what) ==
  req[k] = Idle /\ req' = [req EXCEPT ![k].by = what]

Open(c, k) ==
  /\ es = Away /\ conn[c] = "free" /\ \A d \in 1..c - 1 : conn[d] # "free"
  /\ es' = c /\ conn' = [conn EXCEPT ![c] = "asked"]
  /\ connected' = FALSE /\ timer' = TRUE
  /\ Ask(k, "open")
  /\ UNCHANGED <<run, exec, said, taken, queue, poll, view, faults>>

\* the effect's cleanup; the answers to its requests still come
Leave ==
  /\ es # Away /\ es' = Away /\ timer' = FALSE /\ poll' = FALSE
  /\ UNCHANGED <<run, exec, said, server, queue, connected, view, req, faults>>

\* mutant: an error closes the stream and nothing else
BreakOnly(c) ==
  /\ es = c /\ Fault
  /\ es' = Closed /\ connected' = FALSE
  /\ UNCHANGED <<run, exec, said, server, queue, timer, poll, view, req>>

\* onerror: polling takes over
Break(c) ==
  /\ es = c /\ Fault
  /\ es' = Closed /\ connected' = FALSE /\ poll' = TRUE
  /\ UNCHANGED <<run, exec, said, server, queue, timer, view, req>>

\* a second after the page opened
Timeout ==
  /\ timer /\ timer' = FALSE /\ poll' = (poll \/ ~connected)
  /\ UNCHANGED <<run, exec, said, server, queue, es, connected, view, req, faults>>

Tick(k) ==
  /\ poll /\ Ask(k, "poll")
  /\ UNCHANGED <<run, exec, said, server, queue, page, faults>>

\* get_run_state
Sample(k) ==
  /\ req[k].by # "none" /\ req[k].got = "none"
  /\ req' = [req EXCEPT ![k].got = status]
  /\ UNCHANGED <<run, exec, said, server, queue, page, faults>>

\* An answer is shown whenever it comes, unless the page is away then.
Answer(k) ==
  /\ req[k].got # "none" /\ req' = [req EXCEPT ![k] = Idle]
  /\ IF es = Away THEN UNCHANGED <<view, poll>>
     ELSE /\ view' = req[k].got
          /\ poll' = (poll /\ ~(req[k].by = "poll" /\ req[k].got \in {"completed", "failed"}))
  /\ UNCHANGED <<run, exec, said, server, queue, es, connected, timer, faults>>

Fail(k) ==
  /\ req[k] # Idle /\ Fault /\ req' = [req EXCEPT ![k] = Idle]
  /\ UNCHANGED <<run, exec, said, server, queue, page>>

Next ==
  \/ Launch \/ Resume \/ StartNode \/ StopCancelled \/ EndNode \/ TellNode
  \/ WriteStatus \/ TellStatus \/ Raise
  \/ \E c \in Stream : \/ Register(c) \/ Greet(c) \/ Deliver(c) \/ Disconnect(c)
                      \/ Break(c)
                      \/ \E k \in Requests : Open(c, k)
  \/ Leave \/ Timeout
  \/ \E k \in Requests : Tick(k) \/ Sample(k) \/ Answer(k) \/ Fail(k)

Spec == Init /\ [][Next]_vars

(* The loops of server and browser go on.  Nothing makes a run end, a page stay *)
(* or a stream break.                                                           *)
FairSpec ==
  /\ Spec
  /\ \A c \in Stream : WF_vars(Register(c)) /\ WF_vars(es = c /\ Greet(c))
                      /\ WF_vars(Deliver(c))
  /\ \A k \in Requests : WF_vars(Sample(k)) /\ WF_vars(Answer(k))
  /\ WF_vars(\E k \in Requests : Tick(k))

-----------------------------------------------------------------------------
(* Properties *)

\* An open stream misses no event, whichever streams of the run end, are left or
\* are opened meanwhile: its queue holds all that was broadcast since it registered
\* and has not been taken (get_sse_queue, broadcast_sse and remove_sse_queue share
\* the list).
NothingIsMissed == \A c \in Subscribed : taken[c] + Len(queue[c]) = said

\* The page shows a run as over only when it is over in the database, and with that
\* result, whatever the order in which events and answers of different times and of
\* different executors reach it.
EndShownIsReal == view \in Ends => view = status

\* Once a run is over, no answer from before is on its way, and the news is in the
\* page's stream or the page polls instead of a stream ...
EndUnderway ==
  /\ status \in Ends
  /\ \A k \in Requests : req[k].got \in {"none", status}
  /\ \/ \E c \in Subscribed : /\ es = c
                              /\ \E i \in DOMAIN queue[c] : queue[c][i].type = "run_complete"
     \/ es = Closed /\ poll

\* ... the page comes to show the end or leaves the run, also when the stream breaks
\* before it could tell (onerror starts polling).
EndIsShown == EndUnderway ~> (view = status \/ es = Away)
=============================================================================
