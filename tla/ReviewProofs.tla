---------------------------- MODULE ReviewProofs ----------------------------
(***************************************************************************)
(* Proofs about the review page.  A list on its way, on the screen or in   *)
(* the answer to a conflict tells of decisions that stand, because the     *)
(* server never takes one back; the other two properties rest on what each *)
(* handler leaves behind.                                                  *)
(***************************************************************************)
EXTENDS ReviewClient, TLAPS

\* A list says of no item that it has a verdict it has not.
Real(list) == \A i \in Items : list[i] \in Values => server[i] = list[i]

\* The lists polls carry are real.
ListsAreReal == \A p \in Polls : Real(pollList[p])

\* A submission under way decides an item, and what fetchItem brought is real.
PostsAreMeant ==
  \A k \in Posts :
    /\ postAt[k] # "idle" => postItem[k] \in Items /\ postValue[k] \in Values
    /\ fresh[k] \in Values =>
         postAt[k] = "fresh" /\ server[postItem[k]] = fresh[k]

\* Whatever tells of a decision, tells of one that stands.
Truth == ShownIsReal /\ ListsAreReal /\ PostsAreMeant

\* Without a selection there is no timer.
NothingToPoll == selected = "none" => interval = "none"

TimersFollow == PollsWhatIsShown /\ NothingToPoll

ClientInv ==
  /\ TypeOK
  /\ Truth
  /\ MarkedWhileSubmitting
  /\ TimersFollow

\* The lists the handlers make are lists.
LEMMA ListsTyped ==
  /\ Nothing \in Lists
  /\ Nothing \in [Items -> Values \cup {"absent"}]
  /\ \A l \in Lists, i \in Items, s \in Statuses : [l EXCEPT ![i] = s] \in Lists
BY DEF Nothing, Lists, Statuses

\* So is what the server answers.
LEMMA ListedTyped ==
  ASSUME server \in Lists, NEW v
  PROVE  Listed(v) \in Lists
BY DEF Listed, Lists, Statuses

\* Sending a poll keeps the slots typed.
LEMMA AskTyped ==
  ASSUME TypeOK, NEW p \in Polls, NEW v \in Views, Ask(p, v)
  PROVE  /\ pollAt' \in [Polls -> {"idle", "asked", "answered"}]
         /\ pollView' \in [Polls -> Views \cup {"none"}]
         /\ pollList' \in [Polls -> Lists]
BY DEF Ask, TypeOK

\* Showing a view keeps what it changes typed.
LEMMA ShowTyped ==
  ASSUME TypeOK, NEW v \in Views, Show(v)
  PROVE  /\ selected' \in Views \cup {"none"}
         /\ items' \in Lists
         /\ optimistic' \in [Items -> Values \cup {"absent"}]
         /\ interval' \in Views \cup {"none"}
         /\ pollAt' \in [Polls -> {"idle", "asked", "answered"}]
         /\ pollView' \in [Polls -> Views \cup {"none"}]
         /\ pollList' \in [Polls -> Lists]
<1>1. CASE v = selected
  BY <1>1, ListsTyped DEF Show, TypeOK, polls
<1>2. CASE v # selected
  BY <1>2, ListsTyped, AskTyped DEF Show, Follow, TypeOK
<1>3. QED
  BY <1>1, <1>2

\* Every step keeps the variables in their types.
LEMMA TypeKept == ClientInv /\ [Next]_vars => TypeOK'
<1> SUFFICES ASSUME ClientInv, [Next]_vars PROVE TypeOK'
  OBVIOUS
<1>0. TypeOK /\ PostsAreMeant
  BY DEF ClientInv, Truth, TimersFollow
<1> USE DEF TypeOK, Values, Statuses, PostsAreMeant, vars, page, store, polls,
            posts
<1>1. ASSUME NEW i \in Items, Open(i) PROVE TypeOK'
  BY <1>0, <1>1, ListsTyped DEF Open
<1>2. ASSUME NEW i \in Items, NEW d \in Values, OtherDecides(i, d)
      PROVE TypeOK'
  BY <1>0, <1>2, ListsTyped DEF OtherDecides
<1>3. ASSUME NEW v \in Views, SelectRun(v) PROVE TypeOK'
  BY <1>0, <1>3, ShowTyped DEF SelectRun
<1>4. ASSUME NEW r \in Runs, LoadRuns(r) PROVE TypeOK'
  BY <1>0, <1>4, ShowTyped DEF LoadRuns, Views
<1>5. ASSUME LoadsNothing PROVE TypeOK'
  BY <1>0, <1>5, ListsTyped DEF LoadsNothing
<1>6. ASSUME Hide PROVE TypeOK'
  BY <1>0, <1>6, ListsTyped DEF Hide
<1>7. ASSUME Reappear PROVE TypeOK'
  <2>1. CASE selected = "none"
    <3>1. /\ visible' = TRUE
          /\ UNCHANGED <<server, selected, runs, submitting, store, posts, interval,
                         leaked, polls>>
      BY <1>7, <2>1 DEF Reappear
    <3> QED BY <1>0, <3>1
  <2>2. CASE selected # "none"
    BY <1>0, <1>7, <2>2, AskTyped DEF Reappear, Resume
  <2>3. QED
    BY <2>1, <2>2
<1>8. ASSUME NEW k \in Posts, NEW i \in Items, NEW d \in Values, Click(k, i, d)
      PROVE TypeOK'
  BY <1>0, <1>8, ListsTyped DEF Click
<1>9. ASSUME NEW v \in Views, Tick(v) PROVE TypeOK'
  BY <1>0, <1>9, AskTyped DEF Tick
<1>10. ASSUME NEW p \in Polls, Answer(p) PROVE TypeOK'
  BY <1>0, <1>10, ListedTyped DEF Answer
<1>11. ASSUME NEW p \in Polls, Deliver(p) PROVE TypeOK'
  BY <1>0, <1>11, ListsTyped DEF Deliver, Merge, Forget
<1>12. ASSUME NEW p \in Polls, PollFails(p) PROVE TypeOK'
  BY <1>0, <1>12, ListsTyped DEF PollFails, Forget
<1>13. ASSUME NEW k \in Posts, Send(k) PROVE TypeOK'
  BY <1>0, <1>13, ListsTyped DEF Send, Apply
<1>14. ASSUME NEW k \in Posts, Accept(k) PROVE TypeOK'
  BY <1>0, <1>14, ListsTyped DEF Accept
<1>15. ASSUME NEW k \in Posts, Conflict(k) PROVE TypeOK'
  BY <1>0, <1>15, ListsTyped DEF Conflict
<1>16. ASSUME NEW k \in Posts, FetchItem(k) PROVE TypeOK'
  BY <1>0, <1>16 DEF FetchItem, Lists
<1>17. ASSUME NEW k \in Posts, PostFails(k) PROVE TypeOK'
  BY <1>0, <1>17, ListsTyped DEF PostFails
<1>18. ASSUME NEW k \in Posts, Finish(k) PROVE TypeOK'
  BY <1>0, <1>18, ListsTyped DEF Finish, Unmark
<1>19. CASE UNCHANGED vars
  BY <1>0, <1>19, ListsTyped
<1>20. QED
  BY <1>1, <1>2, <1>3, <1>4, <1>5, <1>6, <1>7, <1>8, <1>9, <1>10, <1>11,
     <1>12, <1>13, <1>14, <1>15, <1>16, <1>17, <1>18, <1>19 DEF Next, Server,
     Reviewer, Poll, Post

\* No step brings a verdict to a list, to the screen or into an answer that
\* the server has not, because the server keeps every verdict.
LEMMA RealKept == ClientInv /\ [Next]_vars => Truth'
<1> SUFFICES ASSUME ClientInv, [Next]_vars PROVE Truth'
  OBVIOUS
<1>0. TypeOK /\ Truth
  BY DEF ClientInv, Truth, TimersFollow
<1> USE DEF Truth, TypeOK, ShownIsReal, ListsAreReal, PostsAreMeant, Real,
            Values, Statuses, Lists, Nothing, vars, page, store, polls, posts
<1>1. ASSUME NEW i \in Items, Open(i) PROVE Truth'
  BY <1>0, <1>1 DEF Open
<1>2. ASSUME NEW i \in Items, NEW d \in Values, OtherDecides(i, d) PROVE Truth'
  BY <1>0, <1>2 DEF OtherDecides
<1>3. ASSUME NEW v \in Views, SelectRun(v) PROVE Truth'
  BY <1>0, <1>3 DEF SelectRun, Show, Follow, Ask
<1>4. ASSUME NEW r \in Runs, LoadRuns(r) PROVE Truth'
  BY <1>0, <1>4 DEF LoadRuns, Show, Follow, Ask
<1>5. ASSUME LoadsNothing PROVE Truth'
  BY <1>0, <1>5 DEF LoadsNothing
<1>6. ASSUME Hide PROVE Truth'
  BY <1>0, <1>6 DEF Hide
<1>7. ASSUME Reappear PROVE Truth'
  BY <1>0, <1>7 DEF Reappear, Resume, Ask
<1>8. ASSUME NEW k \in Posts, NEW i \in Items, NEW d \in Values, Click(k, i, d)
      PROVE Truth'
  BY <1>0, <1>8 DEF Click
<1>9. ASSUME NEW v \in Views, Tick(v) PROVE Truth'
  BY <1>0, <1>9 DEF Tick, Ask
<1>10. ASSUME NEW p \in Polls, Answer(p) PROVE Truth'
  <2>1. Real(Listed(pollView[p]))
    BY <1>0 DEF Listed
  <2>2. QED
    BY <1>0, <1>10, <2>1 DEF Answer
<1>11. ASSUME NEW p \in Polls, Deliver(p) PROVE Truth'
  BY <1>0, <1>11 DEF Deliver, Merge, Forget
<1>12. ASSUME NEW p \in Polls, PollFails(p) PROVE Truth'
  BY <1>0, <1>12 DEF PollFails, Forget
<1>13. ASSUME NEW k \in Posts, Send(k) PROVE Truth'
  BY <1>0, <1>13 DEF Send, Apply
<1>14. ASSUME NEW k \in Posts, Accept(k) PROVE Truth'
  BY <1>0, <1>14 DEF Accept
<1>15. ASSUME NEW k \in Posts, Conflict(k) PROVE Truth'
  BY <1>0, <1>15 DEF Conflict
<1>16. ASSUME NEW k \in Posts, FetchItem(k) PROVE Truth'
  BY <1>0, <1>16 DEF FetchItem
<1>17. ASSUME NEW k \in Posts, PostFails(k) PROVE Truth'
  BY <1>0, <1>17 DEF PostFails
<1>18. ASSUME NEW k \in Posts, Finish(k) PROVE Truth'
  BY <1>0, <1>18 DEF Finish, Unmark
<1>19. CASE UNCHANGED vars
  BY <1>0, <1>19
<1>20. QED
  BY <1>1, <1>2, <1>3, <1>4, <1>5, <1>6, <1>7, <1>8, <1>9, <1>10, <1>11,
     <1>12, <1>13, <1>14, <1>15, <1>16, <1>17, <1>18, <1>19 DEF Next, Server,
     Reviewer, Poll, Post

\* A mark has a submission behind it after every step.
LEMMA MarksKept == ClientInv /\ [Next]_vars => MarkedWhileSubmitting'
<1> SUFFICES ASSUME ClientInv, [Next]_vars PROVE MarkedWhileSubmitting'
  OBVIOUS
<1>0. TypeOK /\ PostsAreMeant /\ MarkedWhileSubmitting
  BY DEF ClientInv, Truth, TimersFollow
<1> USE DEF TypeOK, PostsAreMeant, MarkedWhileSubmitting, Values, Statuses,
            Lists, Nothing, vars, page, store, polls, posts
<1>1. ASSUME NEW i \in Items, Open(i) PROVE MarkedWhileSubmitting'
  BY <1>0, <1>1 DEF Open
<1>2. ASSUME NEW i \in Items, NEW d \in Values, OtherDecides(i, d)
      PROVE MarkedWhileSubmitting'
  BY <1>0, <1>2 DEF OtherDecides
<1>3. ASSUME NEW v \in Views, SelectRun(v) PROVE MarkedWhileSubmitting'
  BY <1>0, <1>3 DEF SelectRun, Show, Follow, Ask
<1>4. ASSUME NEW r \in Runs, LoadRuns(r) PROVE MarkedWhileSubmitting'
  BY <1>0, <1>4 DEF LoadRuns, Show, Follow, Ask
<1>5. ASSUME LoadsNothing PROVE MarkedWhileSubmitting'
  BY <1>0, <1>5 DEF LoadsNothing
<1>6. ASSUME Hide PROVE MarkedWhileSubmitting'
  BY <1>0, <1>6 DEF Hide
<1>7. ASSUME Reappear PROVE MarkedWhileSubmitting'
  BY <1>0, <1>7 DEF Reappear, Resume, Ask
<1>8. ASSUME NEW k \in Posts, NEW i \in Items, NEW d \in Values, Click(k, i, d)
      PROVE MarkedWhileSubmitting'
  BY <1>0, <1>8 DEF Click
<1>9. ASSUME NEW v \in Views, Tick(v) PROVE MarkedWhileSubmitting'
  BY <1>0, <1>9 DEF Tick, Ask
<1>10. ASSUME NEW p \in Polls, Answer(p) PROVE MarkedWhileSubmitting'
  BY <1>0, <1>10 DEF Answer
<1>11. ASSUME NEW p \in Polls, Deliver(p) PROVE MarkedWhileSubmitting'
  BY <1>0, <1>11 DEF Deliver, Merge, Forget
<1>12. ASSUME NEW p \in Polls, PollFails(p) PROVE MarkedWhileSubmitting'
  BY <1>0, <1>12 DEF PollFails, Forget
<1>13. ASSUME NEW k \in Posts, Send(k) PROVE MarkedWhileSubmitting'
  BY <1>0, <1>13 DEF Send, Apply
<1>14. ASSUME NEW k \in Posts, Accept(k) PROVE MarkedWhileSubmitting'
  BY <1>0, <1>14 DEF Accept
<1>15. ASSUME NEW k \in Posts, Conflict(k) PROVE MarkedWhileSubmitting'
  BY <1>0, <1>15 DEF Conflict
<1>16. ASSUME NEW k \in Posts, FetchItem(k) PROVE MarkedWhileSubmitting'
  BY <1>0, <1>16 DEF FetchItem
<1>17. ASSUME NEW k \in Posts, PostFails(k) PROVE MarkedWhileSubmitting'
  BY <1>0, <1>17 DEF PostFails
<1>18. ASSUME NEW k \in Posts, Finish(k) PROVE MarkedWhileSubmitting'
  BY <1>0, <1>18 DEF Finish, Unmark
<1>19. CASE UNCHANGED vars
  BY <1>0, <1>19
<1>20. QED
  BY <1>1, <1>2, <1>3, <1>4, <1>5, <1>6, <1>7, <1>8, <1>9, <1>10, <1>11,
     <1>12, <1>13, <1>14, <1>15, <1>16, <1>17, <1>18, <1>19 DEF Next, Server,
     Reviewer, Poll, Post

\* The timer follows the selection after every step.
LEMMA TimersKept == ClientInv /\ [Next]_vars => TimersFollow'
<1> SUFFICES ASSUME ClientInv, [Next]_vars PROVE TimersFollow'
  OBVIOUS
<1>0. TypeOK /\ TimersFollow
  BY DEF ClientInv, Truth, TimersFollow
<1> USE DEF TimersFollow, TypeOK, PollsWhatIsShown, NothingToPoll, Views,
            vars, page, store, polls, posts
<1>1. ASSUME NEW i \in Items, Open(i) PROVE TimersFollow'
  BY <1>0, <1>1, TokensAssumption DEF Open
<1>2. ASSUME NEW i \in Items, NEW d \in Values, OtherDecides(i, d)
      PROVE TimersFollow'
  BY <1>0, <1>2, TokensAssumption DEF OtherDecides
<1>3. ASSUME NEW v \in Views, SelectRun(v) PROVE TimersFollow'
  BY <1>0, <1>3, TokensAssumption DEF SelectRun, Show, Follow, Ask
<1>4. ASSUME NEW r \in Runs, LoadRuns(r) PROVE TimersFollow'
  BY <1>0, <1>4, TokensAssumption DEF LoadRuns, Show, Follow, Ask
<1>5. ASSUME LoadsNothing PROVE TimersFollow'
  BY <1>0, <1>5, TokensAssumption DEF LoadsNothing
<1>6. ASSUME Hide PROVE TimersFollow'
  BY <1>0, <1>6, TokensAssumption DEF Hide
<1>7. ASSUME Reappear PROVE TimersFollow'
  BY <1>0, <1>7, TokensAssumption DEF Reappear, Resume, Ask
<1>8. ASSUME NEW k \in Posts, NEW i \in Items, NEW d \in Values, Click(k, i, d)
      PROVE TimersFollow'
  BY <1>0, <1>8, TokensAssumption DEF Click
<1>9. ASSUME NEW v \in Views, Tick(v) PROVE TimersFollow'
  BY <1>0, <1>9, TokensAssumption DEF Tick, Ask
<1>10. ASSUME NEW p \in Polls, Answer(p) PROVE TimersFollow'
  BY <1>0, <1>10, TokensAssumption DEF Answer
<1>11. ASSUME NEW p \in Polls, Deliver(p) PROVE TimersFollow'
  BY <1>0, <1>11, TokensAssumption DEF Deliver, Merge, Forget
<1>12. ASSUME NEW p \in Polls, PollFails(p) PROVE TimersFollow'
  BY <1>0, <1>12, TokensAssumption DEF PollFails, Forget
<1>13. ASSUME NEW k \in Posts, Send(k) PROVE TimersFollow'
  BY <1>0, <1>13, TokensAssumption DEF Send, Apply
<1>14. ASSUME NEW k \in Posts, Accept(k) PROVE TimersFollow'
  BY <1>0, <1>14, TokensAssumption DEF Accept
<1>15. ASSUME NEW k \in Posts, Conflict(k) PROVE TimersFollow'
  BY <1>0, <1>15, TokensAssumption DEF Conflict
<1>16. ASSUME NEW k \in Posts, FetchItem(k) PROVE TimersFollow'
  BY <1>0, <1>16, TokensAssumption DEF FetchItem
<1>17. ASSUME NEW k \in Posts, PostFails(k) PROVE TimersFollow'
  BY <1>0, <1>17, TokensAssumption DEF PostFails
<1>18. ASSUME NEW k \in Posts, Finish(k) PROVE TimersFollow'
  BY <1>0, <1>18, TokensAssumption DEF Finish, Unmark
<1>19. CASE UNCHANGED vars
  BY <1>0, <1>19, TokensAssumption
<1>20. QED
  BY <1>1, <1>2, <1>3, <1>4, <1>5, <1>6, <1>7, <1>8, <1>9, <1>10, <1>11,
     <1>12, <1>13, <1>14, <1>15, <1>16, <1>17, <1>18, <1>19 DEF Next, Server,
     Reviewer, Poll, Post

\* Every reachable state of the page satisfies the inductive invariant.
THEOREM ClientInvariant == Spec => []ClientInv
<1>1. Init => ClientInv
  <2> SUFFICES ASSUME Init PROVE ClientInv
    OBVIOUS
  <2>1. TypeOK
    BY ListsTyped DEF Init, TypeOK, Statuses
  <2>2. ShownIsReal /\ ListsAreReal /\ PostsAreMeant /\ MarkedWhileSubmitting
    BY DEF Init, ShownIsReal, ListsAreReal, Real, PostsAreMeant,
           MarkedWhileSubmitting, Nothing, Values
  <2>3. PollsWhatIsShown /\ NothingToPoll
    BY DEF Init, PollsWhatIsShown, NothingToPoll
  <2>4. QED
    BY <2>1, <2>2, <2>3 DEF ClientInv, Truth, TimersFollow
<1>2. ClientInv /\ [Next]_vars => ClientInv'
  BY TypeKept, RealKept, MarksKept, TimersKept DEF ClientInv
<1>3. QED
  BY <1>1, <1>2, PTL DEF Spec

\* Every reachable state is typed, for any items, runs and requests in flight
\* (the stores of the web client).
THEOREM ClientIsTyped == Spec => []TypeOK
<1>1. ClientInv => TypeOK
  BY DEF ClientInv, Truth, TimersFollow
<1>2. QED
  BY <1>1, ClientInvariant, PTL

\* However many polls and submissions are under way, and in whatever order they
\* end, an item shown as decided has that decision (queueStore.ts, usePolling.ts,
\* decisionService.ts).
THEOREM DecisionsShownAreReal == Spec => []ShownIsReal
<1>1. ClientInv => ShownIsReal
  BY DEF ClientInv, Truth, TimersFollow
<1>2. QED
  BY <1>1, ClientInvariant, PTL

\* However many submissions are under way, an item is marked only by one of its
\* own (decisionService.ts 31-74).
THEOREM MarksEnd == Spec => []MarkedWhileSubmitting
<1>1. ClientInv => MarkedWhileSubmitting
  BY DEF ClientInv, Truth, TimersFollow
<1>2. QED
  BY <1>1, ClientInvariant, PTL

\* Whatever the order in which runs are chosen and the tab is left and found
\* again, a visible page polls its selection (usePolling.ts 72-119).
THEOREM SelectionIsPolled == Spec => []PollsWhatIsShown
<1>1. ClientInv => PollsWhatIsShown
  BY DEF ClientInv, Truth, TimersFollow
<1>2. QED
  BY <1>1, ClientInvariant, PTL

\* An item that is settled adds its verdict.
LEMMA SettleItem ==
  ASSUME TypeOK, NEW i \in Items, NEW d \in Values, server[i] = "pending",
         server' = [server EXCEPT ![i] = d]
  PROVE  Ledger!Settle(i, d)
<1>1. \A j \in Items : server'[j] = IF j = i THEN d ELSE server[j]
  BY DEF TypeOK, Lists
<1>2. Verdicts' = Verdicts \cup {<<i, d>>}
  BY <1>1 DEF Verdicts, Values
<1>3. QED
  BY <1>2 DEF Ledger!Settle

\* Other reviewers and the submissions that are accepted settle items, human_review
\* opens them; nothing else the page or the network does reaches the server.
LEMMA StepsOfTheLedger ==
  ASSUME ClientInv, [Next]_vars
  PROVE  [Ledger!Next]_<<server, Verdicts>>
<1>1. TypeOK /\ PostsAreMeant
  BY DEF ClientInv, Truth
<1>2. server' = server => UNCHANGED <<server, Verdicts>>
  BY DEF Verdicts
<1>3. ASSUME NEW i \in Items, Open(i) PROVE Ledger!Next
  <2>1. Ledger!Open(i)
    BY <1>1, <1>3 DEF Open, Ledger!Open, Verdicts, TypeOK, Lists, Values
  <2>2. QED
    BY <2>1 DEF Ledger!Next
<1>4. ASSUME NEW i \in Items, NEW d \in Values, OtherDecides(i, d) PROVE Ledger!Next
  BY <1>1, <1>4, SettleItem DEF OtherDecides, Ledger!Next
<1>5. ASSUME NEW k \in Posts, Accept(k) PROVE Ledger!Next
  <2>1. postItem[k] \in Items /\ postValue[k] \in Values
    BY <1>1, <1>5 DEF PostsAreMeant, Accept
  <2>2. Ledger!Settle(postItem[k], postValue[k])
    BY <1>1, <1>5, <2>1, SettleItem DEF Accept
  <2>3. QED
    BY <2>1, <2>2 DEF Ledger!Next
<1>6. CASE Reviewer \/ LoadsNothing \/ (\E r \in Runs : LoadRuns(r))
           \/ (\E v \in Views : Tick(v)) \/ (\E p \in Polls : Poll(p))
  BY <1>2, <1>6 DEF Reviewer, SelectRun, Hide, Reappear, Click, LoadsNothing, LoadRuns,
                    Tick, Poll, Answer, Deliver, PollFails
<1>7. ASSUME NEW k \in Posts, Post(k) PROVE Accept(k) \/ server' = server
  BY <1>7 DEF Post, Send, Conflict, FetchItem, PostFails, Finish
<1>8. CASE UNCHANGED vars
  BY <1>2, <1>8 DEF vars
<1>9. QED
  BY <1>2, <1>3, <1>4, <1>5, <1>6, <1>7, <1>8 DEF Next, Server

\* However often submissions are repeated, refused or lost, the page and the other
\* reviewers together get one verdict for an item (decisionService.ts, approval_api.py).
THEOREM PageKeepsLedger == Spec => ServerIsALedger
<1>1. Init => Ledger!Init
  BY DEF Init, Ledger!Init, Nothing, Verdicts, Values
<1>2. ClientInv /\ [Next]_vars => [Ledger!Next]_<<server, Verdicts>>
  BY StepsOfTheLedger
<1>3. QED
  BY <1>1, <1>2, ClientInvariant, PTL DEF Spec, ServerIsALedger, Ledger!Spec
=============================================================================
