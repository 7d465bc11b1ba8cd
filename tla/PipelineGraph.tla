---------------------------- MODULE PipelineGraph ----------------------------
(***************************************************************************)
(* The thirteen nodes of the pipeline and the conditional edges between    *)
(* them: graph.py registers the nodes, routing.py decides where a state    *)
(* goes, nodes/*.py say how a node leaves the state.  One step runs one    *)
(* node and takes one edge.  Texts, embeddings and findings are left out;  *)
(* a verdict keeps what the routing reads of it.                           *)
(***************************************************************************)
EXTENDS Naturals

CONSTANTS
  Claims,      \* claim ids the extraction may produce
  RetryLimits, \* the values config.max_retries may have
  Judgements   \* verdicts the rule matching service may return

ASSUME RetryLimitsAssumption == RetryLimits \subseteq Nat

VARIABLES
  node,      \* the node to run next, or "__end__"
  state,     \* PipelineState
  again,     \* tells a retry from the attempt before it: a retry is a step
  items,     \* the run's approval_queue items and the decisions on them
  written    \* what FinalizeWriter committed: approved and rejected claims

vars == <<node, state, again, items, written>>

PATH_MAPS ==
  [ingest            |-> [next |-> "extract_text", escalate |-> "route_to_queue"],
   extract_text      |-> [next |-> "classify_document", retry |-> "extract_text",
                          escalate |-> "route_to_queue"],
   classify_document |-> [next |-> "chunk", retry |-> "classify_document",
                          escalate |-> "route_to_queue"],
   chunk             |-> [next |-> "embed", escalate |-> "route_to_queue"],
   embed             |-> [next |-> "extract_claims", retry |-> "embed",
                          escalate |-> "route_to_queue"],
   extract_claims    |-> [next |-> "match_rules", retry |-> "extract_claims",
                          escalate |-> "route_to_queue"],
   match_rules       |-> [next |-> "match_rules_against_sources",
                          retry |-> "match_rules", escalate |-> "route_to_queue"],
   match_rules_against_sources |->
                         [next |-> "merge_findings",
                          retry |-> "match_rules_against_sources",
                          escalate |-> "route_to_queue"],
   merge_findings    |-> [next |-> "score_confidence", escalate |-> "route_to_queue"],
   score_confidence  |-> [next |-> "route_to_queue", retry |-> "score_confidence",
                          escalate |-> "route_to_queue"],
   route_to_queue    |-> [next |-> "finalize", retry |-> "route_to_queue",
                          escalate |-> "human_review"],
   human_review      |-> [finalize |-> "finalize", escalate |-> "route_to_queue"],
   finalize          |-> [end |-> "__end__", retry |-> "finalize",
                          escalate |-> "__end__"]]

Nodes == DOMAIN PATH_MAPS
Stay  == {"route_to_queue", "human_review", "finalize"}
Prep  == Nodes \ Stay

Kinds    == {"none", "compliant", "non_compliant", "indeterminate", "review_required"}
Verdict  == [kind : Kinds, sure : BOOLEAN, flag : BOOLEAN]

ASSUME JudgementsAssumption == Judgements \subseteq {v \in Verdict : v.kind # "none"}

NoVerdict == [kind |-> "none", sure |-> FALSE, flag |-> FALSE]
Texts    == {"none", "empty", "short", "long"}
Labels   == {"none", "unclassified", "classified"}
Statuses == {"completed", "skipped", "error"}
Errors   == {"none", "transient", "permanent"}
Buckets  == {"none", "auto_approve", "escalate", "auto_reject"}
Answers  == {"none", "approved", "rejected"}
Items    == Answers \cup {"pending"}

State ==
  [status : Statuses, error : Errors,
   max_retries : RetryLimits, retries : [Nodes -> Nat], skipped : SUBSET Nodes,
   completed : SUBSET Nodes,
   repeated : BOOLEAN,           \* completed_nodes names a node twice
   text : Texts, label : Labels,
   claims : SUBSET Claims, duplicates : SUBSET Claims,
   verdicts : [Claims -> Verdict],
   buckets : [Claims -> Buckets], decisions : [Claims -> Answers]]

TypeOK ==
  /\ node \in Nodes \cup {"__end__"}
  /\ state \in State
  /\ again \in BOOLEAN
  /\ items \in [Claims -> Items]
  /\ written \in [approved : SUBSET Claims, rejected : SUBSET Claims]

Init ==
  /\ node = "ingest"
  /\ \E m \in RetryLimits :
     state = [status |-> "completed", error |-> "none", max_retries |-> m,
              retries |-> [n \in Nodes |-> 0], skipped |-> {}, completed |-> {},
              repeated |-> FALSE,
              text |-> "none", label |-> "none", claims |-> {}, duplicates |-> {},
              verdicts |-> [c \in Claims |-> NoVerdict],
              buckets |-> [c \in Claims |-> "none"],
              decisions |-> [c \in Claims |-> "none"]]
  /\ again = FALSE
  /\ items = [c \in Claims |-> "none"]
  /\ written = [approved |-> {}, rejected |-> {}]

In(s, b) == {c \in Claims : s.buckets[c] = b}

-----------------------------------------------------------------------------
(* Routing *)

Retryable(n, s) == s.error = "transient" /\ s.retries[n] < s.max_retries

\* nodes whose routing function knows "skipped", and "retry"
MaySkip  == Prep \ {"ingest", "classify_document"}
MayRetry == Nodes \ {"ingest", "chunk", "human_review"}

\* mutant: reviewed claims are partitioned again
CompletedRouteBack(n, s) ==
  CASE n = "classify_document" /\ s.label = "unclassified" -> "escalate"
    [] n = "route_to_queue" /\ In(s, "escalate") # {} -> "escalate"
    [] n = "human_review" -> "escalate"
    [] n = "finalize" -> "end"
    [] OTHER -> "next"

CompletedRoute(n, s) ==
  CASE n = "classify_document" /\ s.label = "unclassified" -> "escalate"
    [] n = "route_to_queue" /\ In(s, "escalate") # {} -> "escalate"
    [] n = "human_review" -> "finalize"
    [] n = "finalize" -> "end"
    [] OTHER -> "next"

\* make_routing_fn(n)(s); what it does not expect, it escalates
Route(n, s) ==
  CASE s.status = "completed" -> CompletedRoute(n, s)
    [] s.status = "skipped" /\ n \in MaySkip /\ n \in s.skipped -> "next"
    [] s.status = "error" /\ n \in MayRetry /\ Retryable(n, s) -> "retry"
    [] OTHER -> "escalate"

-----------------------------------------------------------------------------
(* How a node leaves the state *)

Completed(s, n) ==
  [s EXCEPT !.status = "completed", !.error = "none", !.completed = @ \cup {n},
            !.repeated = @ \/ n \in s.completed]
Skipped(s, n) ==
  [s EXCEPT !.status = "skipped", !.error = "none", !.completed = @ \cup {n},
            !.skipped = @ \cup {n}, !.repeated = @ \/ n \in s.completed]
Failed(s, e) == [s EXCEPT !.status = "error", !.error = e]

\* n returns state s, the graph takes the edge
Leave(n, s) ==
  /\ node = n
  /\ state' = s
  /\ Route(n, s) \in DOMAIN PATH_MAPS[n]
  /\ node' = PATH_MAPS[n][Route(n, s)]
  /\ again' = (node' = n /\ ~again)

\* n returns an error of type e
Fails(n, e) == Leave(n, Failed(state, e)) /\ UNCHANGED <<items, written>>

Ingest ==
  /\ Leave("ingest", Completed(state, "ingest"))
  /\ UNCHANGED <<items, written>>

\* text/plain is not extracted; ingest has refused empty files
ExtractText ==
  /\ \/ \E t \in {"short", "long"} :
          Leave("extract_text", Skipped([state EXCEPT !.text = t], "extract_text"))
     \/ \E t \in {"empty", "short", "long"} :
          Leave("extract_text", Completed([state EXCEPT !.text = t], "extract_text"))
  /\ UNCHANGED <<items, written>>

ClassifyDocument ==
  /\ state.text \notin {"none", "empty"}
  /\ \E l \in {"unclassified", "classified"} :
       Leave("classify_document",
             Completed([state EXCEPT !.label = l], "classify_document"))
  /\ UNCHANGED <<items, written>>

Chunk ==
  /\ Leave("chunk", CASE state.text = "short" -> Skipped(state, "chunk")
                      [] state.text = "long" -> Completed(state, "chunk")
                      [] OTHER -> Failed(state, "permanent"))
  /\ UNCHANGED <<items, written>>

Embed ==
  /\ Leave("embed", Completed(state, "embed"))
  /\ UNCHANGED <<items, written>>

\* the first of a group of equal claims is not a duplicate
ExtractClaims ==
  /\ \E cs \in SUBSET Claims : \E ds \in {{}} \cup (SUBSET cs \ {cs}) :
       Leave("extract_claims",
             Completed([state EXCEPT !.claims = cs, !.duplicates = ds],
                       "extract_claims"))
  /\ UNCHANGED <<items, written>>

\* one verdict for every claim; for one without a citation, an unsure one
MatchRules ==
  /\ \E vs \in [state.claims -> Judgements] :
       Leave("match_rules",
             Completed([state EXCEPT !.verdicts =
                          [c \in Claims |-> IF c \in state.claims THEN vs[c]
                                            ELSE NoVerdict]],
                       "match_rules"))
  /\ UNCHANGED <<items, written>>

MatchRulesAgainstSources ==
  /\ Leave("match_rules_against_sources",
           Completed(state, "match_rules_against_sources"))
  /\ UNCHANGED <<items, written>>

MergeFindings ==
  /\ Leave("merge_findings", Completed(state, "merge_findings"))
  /\ UNCHANGED <<items, written>>

\* the confidence may be refined; the flag follows from it
ScoreConfidence ==
  /\ \E sure \in [state.claims -> BOOLEAN] :
       Leave("score_confidence",
             Completed([state EXCEPT !.verdicts =
                [c \in Claims |->
                   IF c \in state.claims /\ @[c].kind # "none"
                   THEN [kind |-> @[c].kind, sure |-> sure[c],
                         flag |-> @[c].kind = "non_compliant" \/ ~sure[c]]
                   ELSE @[c]]],
                       "score_confidence"))
  /\ UNCHANGED <<items, written>>

\* a verdict no human has to see
Clean(v) == v.kind = "compliant" /\ v.sure /\ ~v.flag

\* a verdict that sends its claim to a human
Suspect(v) ==
  v.kind # "none" /\ (v.kind \in {"non_compliant", "review_required"} \/ ~v.sure \/ v.flag)

\* mutant: the flag of the verdict is not looked at
BucketByConfidence(s, c) ==
  IF c \notin s.claims THEN "none"
  ELSE IF s.error = "permanent" THEN "escalate"
  ELSE IF c \in s.duplicates THEN "auto_reject"
  ELSE IF s.verdicts[c].sure THEN "auto_approve" ELSE "escalate"

Bucket(s, c) ==
  IF c \notin s.claims THEN "none"
  ELSE IF s.error = "permanent" \/ Suspect(s.verdicts[c]) THEN "escalate"
  ELSE IF c \in s.duplicates THEN "auto_reject"
  ELSE IF Clean(s.verdicts[c]) THEN "auto_approve" ELSE "escalate"

RouteToQueue ==
  /\ Leave("route_to_queue",
           Completed([state EXCEPT !.buckets = [c \in Claims |-> Bucket(state, c)]],
                     "route_to_queue"))
  /\ UNCHANGED <<items, written>>

\* The approval queue while human_review runs: an escalated claim may get an
\* item, a pending item may be decided, a decision stays - also one on a claim
\* that only an earlier partition escalated.
Reviewed ==
  {q \in [Claims -> Items] :
     \A c \in Claims :
       CASE items[c] = "pending" -> q[c] # "none"
         [] items[c] = "none" /\ state.buckets[c] = "escalate" -> TRUE
         [] OTHER -> q[c] = items[c]}

\* resumed when every escalated claim is decided; read_decisions(run_id)
\* returns all decisions of the run
HumanReview ==
  /\ \E q \in Reviewed :
       /\ \A c \in In(state, "escalate") : q[c] \notin {"none", "pending"}
       /\ items' = q
       /\ Leave("human_review",
                Completed([state EXCEPT !.decisions =
                             [c \in Claims |-> IF q[c] = "pending" THEN "none"
                                               ELSE q[c]]],
                          "human_review"))
  /\ UNCHANGED written

\* the insert, the interruption or the read raises
HumanReviewFails ==
  /\ Leave("human_review", Failed(state, "transient"))
  /\ items' \in Reviewed
  /\ UNCHANGED written

Decided(s, a) == {c \in Claims : s.decisions[c] = a}

\* mutant: the rejected claims are not told apart
FinalizeAll ==
  /\ Leave("finalize", Completed(state, "finalize"))
  /\ UNCHANGED items
  /\ written' = [approved |-> In(state, "auto_approve") \cup Decided(state, "approved"),
                 rejected |-> In(state, "auto_reject")]

Finalize ==
  /\ Leave("finalize", Completed(state, "finalize"))
  /\ UNCHANGED items
  /\ written' = [approved |-> In(state, "auto_approve") \cup Decided(state, "approved"),
                 rejected |-> In(state, "auto_reject") \cup Decided(state, "rejected")]

\* a service does not answer
TransientFailure ==
  \/ \E n \in MayRetry \ {"merge_findings"} :
       /\ n \in {"match_rules", "score_confidence"} => state.claims # {}
       /\ Fails(n, "transient")
  \/ HumanReviewFails

\* a file cannot be extracted or understood, rules or config are missing
PermanentFailure ==
  \/ \E n \in {"ingest", "extract_text", "score_confidence"} : Fails(n, "permanent")
  \/ state.claims # {} /\ Fails("match_rules", "permanent")
  \/ state.text \in {"none", "empty"} /\ Fails("classify_document", "permanent")

Succeed ==
  \/ Ingest \/ ExtractText \/ ClassifyDocument \/ Chunk \/ Embed
  \/ ExtractClaims \/ MatchRules \/ MatchRulesAgainstSources \/ MergeFindings
  \/ ScoreConfidence \/ RouteToQueue \/ HumanReview \/ Finalize

Next == Succeed \/ TransientFailure \/ PermanentFailure

Spec == Init /\ [][Next]_vars

\* The graph keeps running, and a service called again and again answers in
\* the end.
FairSpec ==
  /\ Spec /\ WF_vars(Next)
  /\ SF_vars(Succeed \/ PermanentFailure)
  /\ SF_vars(HumanReview)

-----------------------------------------------------------------------------
(* Properties *)

\* Whatever a node returns, its routing function answers with an edge the
\* graph has: LangGraph never meets an unknown branch, a walk that has not
\* ended can go on.
EdgesExist ==
  node # "__end__" =>
    \A st \in Statuses, e \in Errors :
      (st = "error" /\ e = "transient" => node # "merge_findings") =>
        Route(node, [state EXCEPT !.status = st, !.error = e])
          \in DOMAIN PATH_MAPS[node]

\* No claim is approved unless a human approved it or a clean verdict spoke
\* for it.  It is not rejected as well, unless the partition was repeated and
\* no longer sends the claim to the reviewers whose decision is on record: a
\* claim they were asked about last is written once, as they said.
ApprovalsAreJustified ==
  /\ \A c \in written.approved :
       state.decisions[c] = "approved" \/ Clean(state.verdicts[c])
  /\ \A c \in written.approved \cap written.rejected :
       state.repeated /\ state.buckets[c] # "escalate"

\* When finalize has committed what the queue's partition and the reviewers
\* said, every claim is approved or rejected: none is lost between the buckets
\* and the decisions, and none is written that was not extracted.
NoClaimIsLost ==
  {"route_to_queue", "finalize"} \subseteq state.completed =>
    written.approved \cup written.rejected = state.claims

\* finalize never runs past claims a human has still to decide.
ReviewedBeforeFinalize ==
  node = "finalize" =>
    \A c \in Claims : state.buckets[c] = "escalate" => state.decisions[c] # "none"

\* A node before the queue is completed at most once: retries and
\* escalations never lead back to work that was done.
NoRework == node \in Prep => node \notin state.completed

\* If services recover, the walk ends, whatever failed on the way: neither
\* the retry edges nor the cycle of route_to_queue and human_review hold it.
EndsWhenServicesRecover == <>(node = "__end__")
=============================================================================
