---------------------------- MODULE ReviewClient ----------------------------
(***************************************************************************)
(* The review page of the web client: the queue store, the polling hook,   *)
(* the optimistic submission of decisions, and the choice of a run, over a *)
(* server on which other reviewers decide, too.                            *)
(*                                                                         *)
(* The browser runs one handler at a time; between two handlers any answer *)
(* may arrive, in any order.  A poll is a list the server read at one time *)
(* and the page shows at another.                                          *)
(***************************************************************************)
EXTENDS FiniteSets

CONSTANTS
  Items,   \* queue items of the server
  Runs,    \* their runs
  RunOf,   \* the run of each item
  Polls,   \* slots: a bound on the polls in flight
  Posts    \* slots: a bound on the decisions in flight

ASSUME RunOfAssumption == RunOf \in [Items -> Runs]
ASSUME TokensAssumption == {"none", "all"} \cap Runs = {}

Values   == {"approved", "rejected"}
Statuses == {"absent", "pending"} \cup Values
Views    == Runs \cup {"all"}            \* what the sidebar offers
Lists    == [Items -> Statuses]          \* a list of items with their statuses
Nothing  == [i \in Items |-> "absent"]

VARIABLES
  server,      \* approval_queue.status of each item
  \* the page
  selected,    \* runProgressStore.selectedRunId
  runs,        \* runProgressStore.runs, as far as GET /runs has come
  visible,     \* document.visibilityState
  interval,    \* usePolling.intervalRef: the view its timer polls
  leaked,      \* views whose timers run although intervalRef has lost them
  submitting,  \* ReviewPage.isSubmitting
  \* the queue store
  items,       \* the list on the screen
  optimistic,  \* optimisticStatuses, "absent" where there is no entry
  \* requests in flight
  pollAt, pollView, pollList,
  postAt, postItem, postValue, fresh

page  == <<selected, runs, visible, interval, leaked, submitting>>
store == <<items, optimistic>>
polls == <<pollAt, pollView, pollList>>
posts == <<postAt, postItem, postValue, fresh>>
vars  == <<server, page, store, polls, posts>>

TypeOK ==
  /\ server \in Lists
  /\ selected \in Views \cup {"none"}
  /\ runs \in {"awaited", "listed", "missing"}
  /\ visible \in BOOLEAN
  /\ interval \in Views \cup {"none"}
  /\ leaked \in SUBSET Views
  /\ submitting \in BOOLEAN
  /\ items \in Lists
  /\ optimistic \in [Items -> Values \cup {"absent"}]
  /\ pollAt \in [Polls -> {"idle", "asked", "answered"}]
  /\ pollView \in [Polls -> Views \cup {"none"}]
  /\ pollList \in [Polls -> Lists]
  /\ postAt \in [Posts -> {"idle", "clicked", "sent", "refused", "fresh", "over"}]
  /\ postItem \in [Posts -> Items \cup {"none"}]
  /\ postValue \in [Posts -> Values \cup {"none"}]
  /\ fresh \in [Posts -> Statuses]

\* The page is opened, in the foreground or in a background tab.
Init ==
  /\ server = Nothing
  /\ selected = "none"
  /\ runs = "awaited"
  /\ visible \in BOOLEAN
  /\ interval = "none"
  /\ leaked = {}
  /\ submitting = FALSE
  /\ items = Nothing
  /\ optimistic = Nothing
  /\ pollAt = [p \in Polls |-> "idle"]
  /\ pollView = [p \in Polls |-> "none"]
  /\ pollList = [p \in Polls |-> Nothing]
  /\ postAt = [k \in Posts |-> "idle"]
  /\ postItem = [k \in Posts |-> "none"]
  /\ postValue = [k \in Posts |-> "none"]
  /\ fresh = [k \in Posts |-> "absent"]

(***************************************************************************)
(* The server                                                              *)
(***************************************************************************)

\* What the server answers to a poll: every item of a run, or the pending ones
\* of all runs.
Listed(v) ==
  [i \in Items |->
     IF RunOf[i] = v \/ (v = "all" /\ server[i] = "pending")
     THEN server[i] ELSE "absent"]

\* human_review opens an item.
Open(i) ==
  /\ server[i] = "absent"
  /\ server' = [server EXCEPT ![i] = "pending"]
  /\ UNCHANGED <<page, store, polls, posts>>

\* Somebody else decides it.
OtherDecides(i, d) ==
  /\ server[i] = "pending"
  /\ server' = [server EXCEPT ![i] = d]
  /\ UNCHANGED <<page, store, polls, posts>>

(***************************************************************************)
(* Polling                                                                 *)
(***************************************************************************)

\* doFetch sends its requests.
Ask(p, v) ==
  /\ pollAt[p] = "idle"
  /\ pollAt' = [pollAt EXCEPT ![p] = "asked"]
  /\ pollView' = [pollView EXCEPT ![p] = v]
  /\ UNCHANGED pollList

\* A timer fires: that of intervalRef, or one nobody can clear any more.
Tick(v) ==
  /\ v \in leaked \cup ({interval} \ {"none"})
  /\ \E p \in Polls : Ask(p, v)
  /\ UNCHANGED <<server, page, store, posts>>

\* The server reads the queue.
Answer(p) ==
  /\ pollAt[p] = "asked"
  /\ pollAt' = [pollAt EXCEPT ![p] = "answered"]
  /\ pollList' = [pollList EXCEPT ![p] = Listed(pollView[p])]
  /\ UNCHANGED <<server, page, store, pollView, posts>>

Forget(p) ==
  /\ pollAt' = [pollAt EXCEPT ![p] = "idle"]
  /\ pollView' = [pollView EXCEPT ![p] = "none"]
  /\ pollList' = [pollList EXCEPT ![p] = Nothing]

\* mutant: the merge keeps what the list no longer has
MergeUnion(p) ==
  [i \in Items |-> IF pollList[p][i] = "absent" THEN items[i] ELSE pollList[p][i]]

\* mergeItems: the list replaces the one on the screen, whichever view is shown.
Merge(p) == pollList[p]

\* The answer arrives.
Deliver(p) ==
  /\ pollAt[p] = "answered"
  /\ items' = Merge(p)
  /\ Forget(p)
  /\ UNCHANGED <<server, page, optimistic, posts>>

\* A request fails or its answer is lost: the stores keep what they have, the
\* next tick tries again.
PollFails(p) ==
  /\ pollAt[p] = "asked"
  /\ Forget(p)
  /\ UNCHANGED <<server, page, store, posts>>

(***************************************************************************)
(* Choosing a run, leaving the tab and coming back                         *)
(***************************************************************************)

\* The effects of usePolling: the cleanup clears the timer of intervalRef, then a
\* fetch and a new timer start, in a hidden tab, too.
Follow(v) == interval' = v

\* The stores take the new view.  The effects run only when it is another one.
Show(v) ==
  /\ selected' = v
  /\ items' = Nothing
  /\ optimistic' = Nothing
  /\ IF v = selected
     THEN UNCHANGED <<interval, polls>>
     ELSE Follow(v) /\ \E p \in Polls : Ask(p, v)

\* The reviewer chooses a run, or all pending items, in the sidebar.
SelectRun(v) ==
  /\ visible
  /\ v \in Runs => runs = "listed"
  /\ Show(v)
  /\ UNCHANGED <<server, runs, visible, leaked, submitting, posts>>

\* GET /runs is answered: the page shows the run its closure chooses, whatever
\* has been selected since.
LoadRuns(r) ==
  /\ runs = "awaited"
  /\ runs' = "listed"
  /\ Show(r)
  /\ UNCHANGED <<server, visible, leaked, submitting, posts>>

\* There is no run, or the request fails: it is not repeated.
LoadsNothing ==
  /\ runs = "awaited"
  /\ runs' = "missing"
  /\ UNCHANGED <<server, selected, visible, interval, leaked, submitting, store, polls, posts>>

Hide ==
  /\ visible
  /\ visible' = FALSE
  /\ interval' = "none"
  /\ UNCHANGED <<server, selected, runs, leaked, submitting, store, polls, posts>>

\* mutant: one fetch, no new timer
ResumeOnce == UNCHANGED <<interval, leaked>>

\* handleVisibilityChange overwrites intervalRef; a timer that was started while
\* the tab was hidden goes on.
Resume ==
  /\ interval' = selected
  /\ leaked' = leaked \cup ({interval} \ {"none"})

Reappear ==
  /\ ~visible
  /\ visible' = TRUE
  /\ IF selected = "none"
     THEN UNCHANGED <<interval, leaked, polls>>
     ELSE Resume /\ \E p \in Polls : Ask(p, selected)
  /\ UNCHANGED <<server, selected, runs, submitting, store, posts>>

(***************************************************************************)
(* Deciding                                                                *)
(***************************************************************************)

\* A click on Approve or Reject of an item shown as pending.  The decision is
\* sent when the sweep animation is over; until then nothing is disabled.
Click(k, i, d) ==
  /\ visible
  /\ postAt[k] = "idle"
  /\ items[i] = "pending"
  /\ ~submitting
  /\ postAt' = [postAt EXCEPT ![k] = "clicked"]
  /\ postItem' = [postItem EXCEPT ![k] = i]
  /\ postValue' = [postValue EXCEPT ![k] = d]
  /\ UNCHANGED <<server, page, store, polls, fresh>>

\* mutant: the list itself takes the decision
ApplyToList(k) ==
  /\ items' = [items EXCEPT ![postItem[k]] = postValue[k]]
  /\ UNCHANGED optimistic

Apply(k) ==
  /\ optimistic' = [optimistic EXCEPT ![postItem[k]] = postValue[k]]
  /\ UNCHANGED items

\* submitItemDecision marks the item and posts the decision.
Send(k) ==
  /\ postAt[k] = "clicked"
  /\ postAt' = [postAt EXCEPT ![k] = "sent"]
  /\ submitting' = TRUE
  /\ Apply(k)
  /\ UNCHANGED <<server, selected, runs, visible, interval, leaked, polls,
                 postItem, postValue, fresh>>

\* The server takes the decision; the answer may be lost afterwards.
Accept(k) ==
  /\ postAt[k] = "sent"
  /\ server[postItem[k]] = "pending"
  /\ server' = [server EXCEPT ![postItem[k]] = postValue[k]]
  /\ postAt' = [postAt EXCEPT ![k] = "over"]
  /\ UNCHANGED <<page, store, polls, postItem, postValue, fresh>>

\* 409: somebody was first.
Conflict(k) ==
  /\ postAt[k] = "sent"
  /\ server[postItem[k]] \in Values
  /\ postAt' = [postAt EXCEPT ![k] = "refused"]
  /\ UNCHANGED <<server, page, store, polls, postItem, postValue, fresh>>

\* fetchItem reads the item as it is now.
FetchItem(k) ==
  /\ postAt[k] = "refused"
  /\ postAt' = [postAt EXCEPT ![k] = "fresh"]
  /\ fresh' = [fresh EXCEPT ![k] = server[postItem[k]]]
  /\ UNCHANGED <<server, page, store, polls, postItem, postValue>>

\* The POST, or the fetch after a conflict, fails.
PostFails(k) ==
  /\ postAt[k] \in {"sent", "refused"}
  /\ postAt' = [postAt EXCEPT ![k] = "over"]
  /\ UNCHANGED <<server, page, store, polls, postItem, postValue, fresh>>

\* mutant: a fresh item is shown without clearing its mark
UnmarkUnlessFresh(k) ==
  optimistic' = IF postAt[k] = "fresh" THEN optimistic
                ELSE [optimistic EXCEPT ![postItem[k]] = "absent"]

\* clearOptimisticUpdate and rollbackOptimisticUpdate
Unmark(k) == optimistic' = [optimistic EXCEPT ![postItem[k]] = "absent"]

\* The submission returns; a fresh item replaces the one in the list, if the list
\* has it.
Finish(k) ==
  /\ postAt[k] \in {"over", "fresh"}
  /\ items' = IF postAt[k] = "fresh" /\ items[postItem[k]] # "absent"
              THEN [items EXCEPT ![postItem[k]] = fresh[k]] ELSE items
  /\ Unmark(k)
  /\ submitting' = FALSE
  /\ postAt' = [postAt EXCEPT ![k] = "idle"]
  /\ postItem' = [postItem EXCEPT ![k] = "none"]
  /\ postValue' = [postValue EXCEPT ![k] = "none"]
  /\ fresh' = [fresh EXCEPT ![k] = "absent"]
  /\ UNCHANGED <<server, selected, runs, visible, interval, leaked, polls>>

(***************************************************************************)
(* Specification                                                           *)
(***************************************************************************)

Server == \E i \in Items : Open(i) \/ \E d \in Values : OtherDecides(i, d)
Poll(p) == Answer(p) \/ Deliver(p) \/ PollFails(p)
Post(k) ==
  \/ Send(k) \/ Accept(k) \/ Conflict(k) \/ FetchItem(k)
  \/ PostFails(k) \/ Finish(k)
Reviewer ==
  \/ \E v \in Views : SelectRun(v)
  \/ Hide \/ Reappear
  \/ \E k \in Posts, i \in Items, d \in Values : Click(k, i, d)

Next ==
  \/ Server
  \/ Reviewer
  \/ LoadsNothing \/ \E r \in Runs : LoadRuns(r)
  \/ \E v \in Views : Tick(v)
  \/ \E p \in Polls : Poll(p)
  \/ \E k \in Posts : Post(k)

Spec == Init /\ [][Next]_vars

\* Timers fire, handlers run and requests end; polls of a view that are repeated
\* for ever do not fail for ever.
FairSpec ==
  /\ Spec
  /\ \A v \in Views :
       /\ SF_vars(interval = v /\ Tick(v))
       /\ SF_vars(\E p \in Polls : pollView[p] = v /\ Answer(p))
  /\ \A p \in Polls : WF_vars(Deliver(p))
  /\ \A k \in Posts : WF_vars(Post(k))

(***************************************************************************)
(* Properties                                                              *)
(***************************************************************************)

\* An item is shown as decided only when that decision stands on the server: no
\* order of polls, refreshes and submissions shows a verdict nobody gave
\* (decisionService.ts, queueStore.ts).
ShownIsReal ==
  \A i \in Items : items[i] \in Values => server[i] = items[i]

\* An item is marked as being decided only while a submission for it is under
\* way, whichever of several submissions ends first (decisionService.ts 31-74).
MarkedWhileSubmitting ==
  \A i \in Items : optimistic[i] # "absent" =>
    \E k \in Posts : postItem[k] = i /\ postAt[k] \notin {"idle", "clicked"}

\* A page that can be seen has a timer that polls the selected view, however
\* often the tab was left and the run changed (usePolling.ts 72-119).
PollsWhatIsShown ==
  visible => interval = selected

\* The server the page talks to keeps what ApprovalQueue promises: the page, with
\* its repeated, refused and lost submissions, is one more client of the ledger.
Verdicts == {<<i, server[i]>> : i \in {j \in Items : server[j] \in Values}}

Ledger == INSTANCE DecisionLedger WITH queue <- server, verdicts <- Verdicts

ServerIsALedger == Ledger!Spec

\* The list catches up with the server: what it says of an item is what the
\* server would answer now, unless the reviewer goes elsewhere (usePolling.ts).
CatchesUp ==
  \A v \in Views, i \in Items :
    (selected = v /\ visible)
      ~> (items[i] = Listed(v)[i] \/ selected # v \/ ~visible)
=============================================================================
