----------------------------- MODULE GraphProofs -----------------------------
(***************************************************************************)
(* Proofs about PipelineGraph, for any set of claims and any retry limits: *)
(* where the edges lead, the inductive invariant GraphInv, and the safety  *)
(* properties that follow from it.                                         *)
(***************************************************************************)
EXTENDS PipelineGraph, TLAPS

\* The nodes completed when the walk arrives at a node before the queue.
Before ==
  [ingest            |-> {},
   extract_text      |-> {"ingest"},
   classify_document |-> {"ingest", "extract_text"},
   chunk             |-> {"ingest", "extract_text", "classify_document"},
   embed             |-> {"ingest", "extract_text", "classify_document", "chunk"},
   extract_claims    |-> {"ingest", "extract_text", "classify_document", "chunk",
                          "embed"},
   match_rules       |-> {"ingest", "extract_text", "classify_document", "chunk",
                          "embed", "extract_claims"},
   match_rules_against_sources |->
                         {"ingest", "extract_text", "classify_document", "chunk",
                          "embed", "extract_claims", "match_rules"},
   merge_findings    |-> {"ingest", "extract_text", "classify_document", "chunk",
                          "embed", "extract_claims", "match_rules",
                          "match_rules_against_sources"},
   score_confidence  |-> {"ingest", "extract_text", "classify_document", "chunk",
                          "embed", "extract_claims", "match_rules",
                          "match_rules_against_sources", "merge_findings"}]

PrepNames == DOMAIN Before

\* The two ways to name the nodes agree.
LEMMA NodeNames ==
  /\ Prep = PrepNames
  /\ Nodes = PrepNames \cup Stay
BY DEF Prep, PrepNames, Nodes, Stay, PATH_MAPS, Before

\* Leaving a node before the queue leads to the queue, to the node itself after
\* an error, or to the next node.
LEMMA PrepEdge ==
  ASSUME NEW n \in Prep, NEW s, Leave(n, s)
  PROVE  /\ node = n /\ state' = s
         /\ node' \in Nodes
         /\ \/ node' = "route_to_queue"
            \/ node' = n /\ s.status = "error"
            \/ node' \in Prep /\ Before[node'] = Before[n] \cup {n}
<1> DEFINE r == Route(n, s)
<1>0. /\ node = n /\ state' = s
      /\ r \in DOMAIN PATH_MAPS[n] /\ node' = PATH_MAPS[n][r]
      /\ r = "retry" => s.status = "error"
  BY NodeNames DEF Leave, Route, CompletedRoute, PrepNames, Before
<1> HIDE DEF r
<1> USE <1>0, NodeNames DEF PATH_MAPS, Before, PrepNames, Stay
<1>1. CASE n = "ingest" BY <1>1
<1>2. CASE n = "extract_text" BY <1>2
<1>3. CASE n = "classify_document" BY <1>3
<1>4. CASE n = "chunk" BY <1>4
<1>5. CASE n = "embed" BY <1>5
<1>6. CASE n = "extract_claims" BY <1>6
<1>7. CASE n = "match_rules" BY <1>7
<1>8. CASE n = "match_rules_against_sources" BY <1>8
<1>9. CASE n = "merge_findings" BY <1>9
<1>10. CASE n = "score_confidence" BY <1>10
<1> QED BY <1>1, <1>2, <1>3, <1>4, <1>5, <1>6, <1>7, <1>8, <1>9, <1>10

\* The three last nodes: what leads where.
LEMMA StayEdge ==
  ASSUME NEW n \in Stay, NEW s, Leave(n, s)
  PROVE  /\ node = n /\ state' = s
         /\ node' \in Stay \cup {"__end__"}
         /\ n = "finalize" =>
              /\ node' \in {"finalize", "__end__"}
              /\ s.status = "completed" => node' = "__end__"
         /\ n = "human_review" =>
              node' = IF s.status = "completed" THEN "finalize" ELSE "route_to_queue"
         /\ n = "route_to_queue" =>
              /\ node' \in Stay
              /\ node' = "finalize" => s.status = "completed" /\ In(s, "escalate") = {}
<1> USE NodeNames DEF Leave, Route, CompletedRoute, Retryable, PATH_MAPS, Before,
                      PrepNames, Stay, MaySkip, MayRetry
<1>1. CASE n = "route_to_queue" BY <1>1
<1>2. CASE n = "human_review" BY <1>2
<1>3. CASE n = "finalize" BY <1>3
<1> QED BY <1>1, <1>2, <1>3

-----------------------------------------------------------------------------
(* The inductive invariant. *)

\* Nodes are completed in order.
InOrder == node \in Prep => state.completed \subseteq Before[node]

\* No bucket is filled and no item exists before the queue, no decision is read
\* before human_review has completed.
NotYet ==
  /\ "route_to_queue" \notin state.completed =>
       \A c \in Claims : state.buckets[c] = "none" /\ items[c] = "none"
  /\ node \notin {"finalize", "__end__"} =>
       \A c \in Claims : state.decisions[c] = "none"

\* Only a repeated partition leaves an item for a claim that is not escalated.
ItemsAreMeant ==
  ~state.repeated =>
    \A c \in Claims : items[c] # "none" => state.buckets[c] = "escalate"

\* What a claim's bucket, item and decision say about it.
BucketsAreMeant ==
  \A c \in Claims :
    /\ state.buckets[c] = "auto_approve" => Clean(state.verdicts[c])
    /\ state.decisions[c] # "none" => state.decisions[c] = items[c]
    /\ items[c] # "none" => c \in state.claims
    /\ "route_to_queue" \in state.completed =>
         (c \in state.claims <=> state.buckets[c] # "none")
    /\ node \in {"finalize", "__end__"} /\ state.buckets[c] = "escalate" =>
         state.decisions[c] # "none"

Verdicts == [approved |-> In(state, "auto_approve") \cup Decided(state, "approved"),
             rejected |-> In(state, "auto_reject") \cup Decided(state, "rejected")]

\* What finalize has written follows from the buckets and the decisions.
WrittenIsMeant ==
  IF "finalize" \in state.completed
  THEN node = "__end__" /\ written = Verdicts
  ELSE written = [approved |-> {}, rejected |-> {}]

GraphInv ==
  TypeOK /\ InOrder /\ NotYet /\ ItemsAreMeant /\ BucketsAreMeant /\ WrittenIsMeant

\* What precedes a node before the queue is before the queue, too.
LEMMA BeforeIsPrep ==
  /\ \A n \in Prep : Before[n] \subseteq Prep
  /\ \A n \in Prep : n \notin Stay /\ n # "__end__" /\ n \notin Before[n]
BY NodeNames DEF Before, PrepNames, Stay

\* A step of a node before the queue keeps the invariant if it leaves buckets,
\* decisions and the written claims alone.
LEMMA PrepStep ==
  ASSUME GraphInv, node \in Prep, state' \in State, again' \in BOOLEAN,
         state'.buckets = state.buckets, state'.decisions = state.decisions,
         items' = items, written' = written, node' \in Nodes,
         \/ state'.completed = state.completed
         \/ state'.completed = state.completed \cup {node} /\ node' # node,
         \/ node' = "route_to_queue"
         \/ node' = node
         \/ node' \in Prep /\ Before[node'] = Before[node] \cup {node}
  PROVE  GraphInv'
<1> USE DEF GraphInv
<1>0. "route_to_queue" \notin state.completed
  BY BeforeIsPrep DEF InOrder, Stay
<1>1. TypeOK' BY DEF TypeOK
<1>2. InOrder'
  BY BeforeIsPrep DEF InOrder, Stay
<1>3. NotYet'
  BY <1>0, BeforeIsPrep, NodeNames DEF NotYet, Stay
<1>4. "route_to_queue" \notin state'.completed /\ "finalize" \notin state'.completed
  BY BeforeIsPrep DEF InOrder, Stay
<1>5. BucketsAreMeant'
  BY <1>0, <1>4, BeforeIsPrep DEF BucketsAreMeant, NotYet, TypeOK, State, Stay
<1>7. ItemsAreMeant' BY <1>0 DEF NotYet, ItemsAreMeant
<1>6. WrittenIsMeant'
  BY <1>4, BeforeIsPrep DEF WrittenIsMeant, InOrder, Stay
<1> QED BY <1>1, <1>2, <1>3, <1>5, <1>6, <1>7

\* What Completed, Skipped and Failed make of a state.
LEMMA CompletedType ==
  ASSUME NEW s \in State, NEW n \in Nodes
  PROVE  /\ Completed(s, n) \in State
         /\ Completed(s, n).buckets = s.buckets /\ Completed(s, n).decisions = s.decisions
         /\ Completed(s, n).status = "completed"
         /\ Completed(s, n).completed = s.completed \cup {n}
         /\ n \in s.completed => Completed(s, n).repeated
         /\ s.repeated => Completed(s, n).repeated
         /\ Completed(s, n).claims = s.claims /\ Completed(s, n).verdicts = s.verdicts
BY DEF State, Completed, Statuses, Errors

\* A skipped node changes status, error and the lists of nodes.
LEMMA SkippedType ==
  ASSUME NEW s \in State, NEW n \in Nodes
  PROVE  /\ Skipped(s, n) \in State
         /\ Skipped(s, n).buckets = s.buckets /\ Skipped(s, n).decisions = s.decisions
         /\ Skipped(s, n).status = "skipped"
         /\ Skipped(s, n).completed = s.completed \cup {n}
BY DEF State, Skipped, Statuses, Errors

\* A failed node changes status and error only.
LEMMA FailedType ==
  ASSUME NEW s \in State, NEW e \in Errors
  PROVE  /\ Failed(s, e) \in State
         /\ Failed(s, e).buckets = s.buckets /\ Failed(s, e).decisions = s.decisions
         /\ Failed(s, e).status = "error"
         /\ Failed(s, e).completed = s.completed /\ Failed(s, e).repeated = s.repeated
         /\ Failed(s, e).claims = s.claims /\ Failed(s, e).verdicts = s.verdicts
BY DEF State, Failed, Statuses

\* A node before the queue that completes keeps the invariant, ...
LEMMA PrepCompletes ==
  ASSUME GraphInv, NEW n \in Prep, NEW s \in State, Leave(n, Completed(s, n)),
         s.buckets = state.buckets, s.decisions = state.decisions,
         s.completed = state.completed, items' = items, written' = written
  PROVE  GraphInv'
<1>1. /\ node = n /\ state' = Completed(s, n) /\ node' \in Nodes
      /\ \/ node' = "route_to_queue"
         \/ node' = n /\ Completed(s, n).status = "error"
         \/ node' \in Prep /\ Before[node'] = Before[n] \cup {n}
  BY PrepEdge
<1>2. again' \in BOOLEAN BY DEF Leave
<1>3. n \in Nodes BY DEF Prep
<1>4. /\ state' \in State
      /\ state'.buckets = state.buckets /\ state'.decisions = state.decisions
      /\ state'.status = "completed" /\ state'.completed = state.completed \cup {n}
  BY <1>1, <1>3, CompletedType
<1>5. node' # n BY <1>1, <1>4, BeforeIsPrep DEF Stay
<1> QED BY <1>1, <1>2, <1>4, <1>5, PrepStep

\* ... and so does one that is skipped, ...
LEMMA PrepSkips ==
  ASSUME GraphInv, NEW n \in Prep, NEW s \in State, Leave(n, Skipped(s, n)),
         s.buckets = state.buckets, s.decisions = state.decisions,
         s.completed = state.completed, items' = items, written' = written
  PROVE  GraphInv'
<1>1. /\ node = n /\ state' = Skipped(s, n) /\ node' \in Nodes
      /\ \/ node' = "route_to_queue"
         \/ node' = n /\ Skipped(s, n).status = "error"
         \/ node' \in Prep /\ Before[node'] = Before[n] \cup {n}
  BY PrepEdge
<1>2. again' \in BOOLEAN BY DEF Leave
<1>3. n \in Nodes BY DEF Prep
<1>4. /\ state' \in State
      /\ state'.buckets = state.buckets /\ state'.decisions = state.decisions
      /\ state'.status = "skipped" /\ state'.completed = state.completed \cup {n}
  BY <1>1, <1>3, SkippedType
<1>5. node' # n BY <1>1, <1>4, BeforeIsPrep DEF Stay
<1> QED BY <1>1, <1>2, <1>4, <1>5, PrepStep

\* What the approval queue can become while human_review runs.
LEMMA ReviewedMeans ==
  ASSUME NEW q \in Reviewed
  PROVE  /\ q \in [Claims -> Items]
         /\ \A c \in Claims : items[c] = "none" /\ state.buckets[c] # "escalate"
              => q[c] = "none"
BY DEF Reviewed

\* ... and one that fails, wherever it is; human_review may leave items.
LEMMA FailsStep ==
  ASSUME GraphInv, NEW n \in Nodes, NEW e \in Errors, Leave(n, Failed(state, e)),
         n # "human_review" => items' = items,
         n = "human_review" => items' \in Reviewed,
         written' = written
  PROVE  GraphInv'
<1>1. /\ node = n /\ again' \in BOOLEAN /\ state' = Failed(state, e)
  BY DEF Leave
<1>i. /\ items' \in [Claims -> Items]
      /\ \A c \in Claims :
           items'[c] # "none" => items[c] # "none" \/ state.buckets[c] = "escalate"
  <2>1. CASE n = "human_review" BY <2>1, ReviewedMeans
  <2>2. CASE n # "human_review" BY <2>2 DEF GraphInv, TypeOK
  <2> QED BY <2>1, <2>2
<1>2. /\ state' \in State
      /\ state'.buckets = state.buckets /\ state'.decisions = state.decisions
      /\ state'.status = "error" /\ state'.completed = state.completed
      /\ state'.repeated = state.repeated
      /\ state'.claims = state.claims /\ state'.verdicts = state.verdicts
  BY <1>1, FailedType DEF GraphInv, TypeOK
<1>3. CASE n \in Prep
  <2>1. /\ node' \in Nodes
        /\ \/ node' = "route_to_queue"
           \/ node' = n
           \/ node' \in Prep /\ Before[node'] = Before[n] \cup {n}
    BY <1>1, <1>3, PrepEdge
  <2>2. items' = items BY <1>3 DEF Prep, Stay
  <2> QED BY <1>1, <1>2, <1>3, <2>1, <2>2, PrepStep
<1>4. CASE n \in Stay
  <2>1. /\ node' \in Stay \cup {"__end__"}
        /\ n = "finalize" => node' \in {"finalize", "__end__"}
        /\ n \in {"human_review", "route_to_queue"} =>
             node' \in {"human_review", "route_to_queue"}
    BY <1>1, <1>2, <1>4, StayEdge DEF Stay
  <2>2. TypeOK' BY <1>1, <1>2, <1>i, <2>1, NodeNames DEF GraphInv, TypeOK
  <2>3. InOrder' BY <2>1, BeforeIsPrep DEF InOrder
  <2>4. NotYet'
    BY <1>1, <1>2, <1>4, <1>i, <2>1, BeforeIsPrep DEF GraphInv, NotYet, Stay
  <2>7. ItemsAreMeant' BY <1>2, <1>i DEF GraphInv, ItemsAreMeant
  <2>5. BucketsAreMeant'
    <3>1. ASSUME NEW c \in Claims, items'[c] # "none" PROVE c \in state.claims
      BY <1>i, <3>1 DEF GraphInv, NotYet, BucketsAreMeant
    <3>2. n = "human_review" => \A c \in Claims : state'.decisions[c] = "none"
      BY <1>1, <1>2 DEF GraphInv, NotYet
    <3>3. n # "human_review" => items' = items OBVIOUS
    <3> QED
      BY <1>1, <1>2, <1>4, <2>1, <3>1, <3>2, <3>3 DEF GraphInv, BucketsAreMeant, Stay
  <2>6. WrittenIsMeant'
    BY <1>1, <1>2, <1>4, <2>1 DEF GraphInv, WrittenIsMeant, Stay
  <2> QED BY <2>2, <2>3, <2>4, <2>5, <2>6, <2>7 DEF GraphInv
<1> QED BY <1>3, <1>4, NodeNames

\* The partition puts every claim into one bucket and approves only clean
\* verdicts.
LEMMA BucketMeans ==
  ASSUME NEW s, NEW c
  PROVE  /\ Bucket(s, c) \in Buckets
         /\ Bucket(s, c) # "none" <=> c \in s.claims
         /\ Bucket(s, c) = "auto_approve" => Clean(s.verdicts[c])
BY DEF Bucket, Buckets

\* The partition keeps the invariant.
LEMMA RouteToQueueStep ==
  ASSUME GraphInv, RouteToQueue
  PROVE  GraphInv'
<1> DEFINE s == [state EXCEPT !.buckets = [c \in Claims |-> Bucket(state, c)]]
<1>1. /\ Leave("route_to_queue", Completed(s, "route_to_queue"))
      /\ items' = items /\ written' = written
  BY DEF RouteToQueue
<1>2. s \in State /\ state \in State
  BY BucketMeans DEF GraphInv, TypeOK, State
<1>3. /\ \A c \in Claims : s.buckets[c] = Bucket(state, c)
      /\ s.decisions = state.decisions /\ s.completed = state.completed
      /\ s.claims = state.claims /\ s.verdicts = state.verdicts
      /\ s.repeated = state.repeated
  BY <1>2 DEF State
<1> HIDE DEF s
<1>4. /\ node = "route_to_queue" /\ state' = Completed(s, "route_to_queue")
      /\ node' \in Stay /\ again' \in BOOLEAN
      /\ node' = "finalize" => In(state', "escalate") = {}
      /\ state' \in State
      /\ state'.buckets = s.buckets /\ state'.decisions = s.decisions
      /\ state'.completed = s.completed \cup {"route_to_queue"}
      /\ "route_to_queue" \in s.completed => state'.repeated
      /\ state'.claims = s.claims /\ state'.verdicts = s.verdicts
  BY <1>1, <1>2, StayEdge, CompletedType, NodeNames DEF Leave, Stay
<1>5. TypeOK' BY <1>1, <1>4, NodeNames DEF GraphInv, TypeOK
<1>6. InOrder' BY <1>4, BeforeIsPrep DEF InOrder
<1>7. NotYet' BY <1>3, <1>4, BeforeIsPrep DEF GraphInv, NotYet
<1>8. BucketsAreMeant'
  BY <1>1, <1>3, <1>4, BucketMeans DEF GraphInv, BucketsAreMeant, NotYet, In, Stay
<1>9. WrittenIsMeant'
  BY <1>1, <1>3, <1>4 DEF GraphInv, WrittenIsMeant
<1>10. ItemsAreMeant'
  BY <1>1, <1>3, <1>4 DEF GraphInv, ItemsAreMeant, NotYet
<1> QED BY <1>5, <1>6, <1>7, <1>8, <1>9, <1>10 DEF GraphInv

\* A completed review keeps the invariant.
LEMMA HumanReviewStep ==
  ASSUME GraphInv, HumanReview
  PROVE  GraphInv'
<1>1. PICK q \in Reviewed :
        /\ \A c \in In(state, "escalate") : q[c] \notin {"none", "pending"}
        /\ items' = q
        /\ Leave("human_review",
                 Completed([state EXCEPT !.decisions =
                              [c \in Claims |-> IF q[c] = "pending" THEN "none"
                                                ELSE q[c]]],
                           "human_review"))
  BY DEF HumanReview
<1> DEFINE ds == [c \in Claims |-> IF q[c] = "pending" THEN "none" ELSE q[c]]
           s == [state EXCEPT !.decisions = ds]
<1>q. /\ q \in [Claims -> Items]
      /\ \A c \in Claims : items[c] = "none" /\ state.buckets[c] # "escalate"
           => q[c] = "none"
  BY ReviewedMeans
<1>d. /\ ds \in [Claims -> Answers]
      /\ \A c \in Claims : ds[c] # "none" => ds[c] = q[c]
      /\ \A c \in Claims : state.buckets[c] = "escalate" => ds[c] # "none"
  BY <1>1, <1>q DEF Items, Answers, In
<1> HIDE DEF ds
<1>2. s \in State /\ state \in State
  BY <1>d DEF GraphInv, TypeOK, State
<1>3. /\ s.decisions = ds
      /\ s.buckets = state.buckets /\ s.completed = state.completed
      /\ s.claims = state.claims /\ s.verdicts = state.verdicts
      /\ s.repeated = state.repeated
  BY <1>2 DEF State
<1>l. Leave("human_review", Completed(s, "human_review")) BY <1>1 DEF ds
<1> HIDE DEF s
<1>4. /\ node = "human_review" /\ state' = Completed(s, "human_review")
      /\ node' = "finalize" /\ again' \in BOOLEAN
      /\ state' \in State
      /\ state'.buckets = s.buckets /\ state'.decisions = s.decisions
      /\ state'.completed = s.completed \cup {"human_review"}
      /\ s.repeated => state'.repeated
      /\ state'.claims = s.claims /\ state'.verdicts = s.verdicts
  BY <1>l, <1>2, StayEdge, CompletedType, NodeNames DEF Leave, Stay
<1>w. written' = written BY DEF HumanReview
<1>5. TypeOK' BY <1>w, <1>1, <1>q, <1>4, NodeNames DEF GraphInv, TypeOK, Stay
<1>6. InOrder' BY <1>4, BeforeIsPrep DEF InOrder, Stay
<1>i. \A c \in Claims :
        items'[c] # "none" => items[c] # "none" \/ state.buckets[c] = "escalate"
  BY <1>1, <1>q
<1>7. NotYet' BY <1>i, <1>3, <1>4 DEF GraphInv, NotYet, Stay
<1>8. BucketsAreMeant'
  BY <1>1, <1>d, <1>i, <1>3, <1>4 DEF GraphInv, BucketsAreMeant, NotYet
<1>9. WrittenIsMeant'
  BY <1>w, <1>3, <1>4 DEF GraphInv, WrittenIsMeant
<1>10. ItemsAreMeant' BY <1>i, <1>3, <1>4 DEF GraphInv, ItemsAreMeant
<1> QED BY <1>5, <1>6, <1>7, <1>8, <1>9, <1>10 DEF GraphInv

\* Finalization keeps the invariant.
LEMMA FinalizeStep ==
  ASSUME GraphInv, Finalize
  PROVE  GraphInv'
<1>1. /\ Leave("finalize", Completed(state, "finalize"))
      /\ items' = items /\ written' = Verdicts
  BY DEF Finalize, Verdicts
<1>2. /\ node = "finalize" /\ state' = Completed(state, "finalize")
      /\ node' = "__end__" /\ again' \in BOOLEAN
      /\ state' \in State
      /\ state'.buckets = state.buckets /\ state'.decisions = state.decisions
      /\ state'.completed = state.completed \cup {"finalize"}
      /\ state.repeated => state'.repeated
      /\ state'.claims = state.claims /\ state'.verdicts = state.verdicts
  BY <1>1, StayEdge, CompletedType, NodeNames DEF Leave, Stay, GraphInv, TypeOK
<1>3. Verdicts \in [approved : SUBSET Claims, rejected : SUBSET Claims]
  BY DEF Verdicts, In, Decided
<1>4. TypeOK' BY <1>1, <1>2, <1>3, NodeNames DEF GraphInv, TypeOK
<1>5. InOrder' BY <1>2, BeforeIsPrep DEF InOrder
<1>6. NotYet' BY <1>1, <1>2 DEF GraphInv, NotYet
<1>7. BucketsAreMeant' BY <1>1, <1>2 DEF GraphInv, BucketsAreMeant
<1>10. ItemsAreMeant' BY <1>1, <1>2 DEF GraphInv, ItemsAreMeant
<1>8. Verdicts' = Verdicts BY <1>2 DEF Verdicts, In, Decided
<1>9. WrittenIsMeant' BY <1>1, <1>2, <1>8 DEF WrittenIsMeant
<1> QED BY <1>4, <1>5, <1>6, <1>7, <1>9, <1>10 DEF GraphInv

\* Everything the nodes before the queue do.
LEMMA PrepActions ==
  ASSUME GraphInv,
         \/ Ingest \/ ExtractText \/ ClassifyDocument \/ Chunk \/ Embed
         \/ ExtractClaims \/ MatchRules \/ MatchRulesAgainstSources
         \/ MergeFindings \/ ScoreConfidence
  PROVE  GraphInv'
<1>0. state \in State BY DEF GraphInv, TypeOK
<1>p. PrepNames \subseteq Prep BY NodeNames
<1>1. CASE Ingest
  BY <1>0, <1>1, <1>p, PrepCompletes DEF Ingest, PrepNames, Before
<1>2. CASE ExtractText
  <2>1. \A t \in Texts : LET s == [state EXCEPT !.text = t] IN
          /\ s \in State /\ s.buckets = state.buckets
          /\ s.decisions = state.decisions /\ s.completed = state.completed
    BY <1>0 DEF State
  <2>2. CASE \E t \in {"short", "long"} :
          Leave("extract_text", Skipped([state EXCEPT !.text = t], "extract_text"))
    BY <1>2, <2>1, <2>2, <1>p, PrepSkips DEF ExtractText, PrepNames, Before, Texts
  <2>3. CASE \E t \in {"empty", "short", "long"} :
          Leave("extract_text", Completed([state EXCEPT !.text = t], "extract_text"))
    BY <1>2, <2>1, <2>3, <1>p, PrepCompletes DEF ExtractText, PrepNames, Before, Texts
  <2> QED BY <1>2, <2>2, <2>3 DEF ExtractText
<1>3. CASE ClassifyDocument
  <2>1. \A l \in Labels : LET s == [state EXCEPT !.label = l] IN
          /\ s \in State /\ s.buckets = state.buckets
          /\ s.decisions = state.decisions /\ s.completed = state.completed
    BY <1>0 DEF State
  <2> QED
    BY <1>3, <2>1, <1>p, PrepCompletes DEF ClassifyDocument, PrepNames, Before, Labels
<1>4. CASE Chunk
  <2>1. CASE state.text = "short"
    BY <1>0, <1>4, <2>1, <1>p, PrepSkips DEF Chunk, PrepNames, Before
  <2>2. CASE state.text = "long"
    BY <1>0, <1>4, <2>2, <1>p, PrepCompletes DEF Chunk, PrepNames, Before
  <2>3. CASE state.text \notin {"short", "long"}
    <3>1. /\ Leave("chunk", Failed(state, "permanent"))
          /\ items' = items /\ written' = written
      BY <1>4, <2>3 DEF Chunk
    <3>2. "chunk" \in Nodes BY NodeNames DEF PrepNames, Before
    <3> QED BY <3>1, <3>2, FailsStep DEF Errors
  <2> QED BY <2>1, <2>2, <2>3
<1>5. CASE Embed
  BY <1>0, <1>5, <1>p, PrepCompletes DEF Embed, PrepNames, Before
<1>6. CASE ExtractClaims
  <2>1. PICK cs \in SUBSET Claims, ds \in SUBSET Claims :
          Leave("extract_claims",
                Completed([state EXCEPT !.claims = cs, !.duplicates = ds],
                          "extract_claims"))
    BY <1>6 DEF ExtractClaims
  <2> DEFINE s == [state EXCEPT !.claims = cs, !.duplicates = ds]
  <2>2. /\ s \in State /\ s.buckets = state.buckets
        /\ s.decisions = state.decisions /\ s.completed = state.completed
    BY <1>0 DEF State
  <2>3. Leave("extract_claims", Completed(s, "extract_claims")) BY <2>1
  <2> HIDE DEF s
  <2> QED
    BY <1>6, <2>2, <2>3, <1>p, PrepCompletes DEF ExtractClaims, PrepNames, Before
<1>7. CASE MatchRules
  <2>1. PICK vs \in [state.claims -> Verdict] :
          Leave("match_rules",
                Completed([state EXCEPT !.verdicts =
                             [c \in Claims |-> IF c \in state.claims THEN vs[c]
                                               ELSE NoVerdict]],
                          "match_rules"))
    BY <1>7, JudgementsAssumption DEF MatchRules
  <2> DEFINE s == [state EXCEPT !.verdicts =
                     [c \in Claims |-> IF c \in state.claims THEN vs[c]
                                       ELSE NoVerdict]]
  <2>2. NoVerdict \in Verdict BY DEF NoVerdict, Verdict, Kinds
  <2>3. /\ s \in State /\ s.buckets = state.buckets
        /\ s.decisions = state.decisions /\ s.completed = state.completed
    BY <1>0, <2>2 DEF State
  <2>4. Leave("match_rules", Completed(s, "match_rules")) BY <2>1
  <2> HIDE DEF s
  <2> QED BY <1>7, <2>3, <2>4, <1>p, PrepCompletes DEF MatchRules, PrepNames, Before
<1>8. CASE MatchRulesAgainstSources
  BY <1>0, <1>8, <1>p, PrepCompletes DEF MatchRulesAgainstSources, PrepNames, Before
<1>9. CASE MergeFindings
  BY <1>0, <1>9, <1>p, PrepCompletes DEF MergeFindings, PrepNames, Before
<1>10. CASE ScoreConfidence
  <2>1. PICK sure \in [state.claims -> BOOLEAN] :
          Leave("score_confidence",
                Completed([state EXCEPT !.verdicts =
                   [c \in Claims |->
                      IF c \in state.claims /\ @[c].kind # "none"
                      THEN [kind |-> @[c].kind, sure |-> sure[c],
                            flag |-> @[c].kind = "non_compliant" \/ ~sure[c]]
                      ELSE @[c]]],
                          "score_confidence"))
    BY <1>10 DEF ScoreConfidence
  <2> DEFINE vs == [c \in Claims |->
                      IF c \in state.claims /\ state.verdicts[c].kind # "none"
                      THEN [kind |-> state.verdicts[c].kind, sure |-> sure[c],
                            flag |-> state.verdicts[c].kind = "non_compliant" \/ ~sure[c]]
                      ELSE state.verdicts[c]]
             s == [state EXCEPT !.verdicts = vs]
  <2>2. vs \in [Claims -> Verdict] BY <1>0 DEF State, Verdict
  <2>3. Leave("score_confidence", Completed(s, "score_confidence"))
    BY <2>1, <1>0 DEF State
  <2> HIDE DEF vs
  <2>4. /\ s \in State /\ s.buckets = state.buckets
        /\ s.decisions = state.decisions /\ s.completed = state.completed
    BY <1>0, <2>2 DEF State
  <2> HIDE DEF s
  <2> QED
    BY <1>10, <2>3, <2>4, <1>p, PrepCompletes DEF ScoreConfidence, PrepNames, Before
<1> QED BY <1>1, <1>2, <1>3, <1>4, <1>5, <1>6, <1>7, <1>8, <1>9, <1>10

\* The inductive invariant of the walk holds in every reachable state.
THEOREM GraphInvariant == Spec => []GraphInv
<1>1. Init => GraphInv
  <2> SUFFICES ASSUME Init PROVE GraphInv OBVIOUS
  <2>1. TypeOK
    <3>1. NoVerdict \in Verdict BY DEF NoVerdict, Verdict, Kinds
    <3>2. [c \in Claims |-> NoVerdict] \in [Claims -> Verdict] BY <3>1
    <3>3. [n \in Nodes |-> 0] \in [Nodes -> Nat] OBVIOUS
    <3>4. state \in State
      BY <3>2, <3>3 DEF Init, State, Statuses, Errors, Texts, Labels, Buckets, Answers
    <3>5. node \in Nodes BY NodeNames DEF Init, PrepNames, Before
    <3> QED BY <3>4, <3>5 DEF Init, TypeOK, Items, Answers
  <2>2. InOrder /\ NotYet /\ ItemsAreMeant /\ BucketsAreMeant /\ WrittenIsMeant
    BY DEF Init, InOrder, NotYet, ItemsAreMeant, BucketsAreMeant, WrittenIsMeant,
           Before
  <2> QED BY <2>1, <2>2 DEF GraphInv
<1>2. GraphInv /\ [Next]_vars => GraphInv'
  <2> SUFFICES ASSUME GraphInv, [Next]_vars PROVE GraphInv' OBVIOUS
  <2>1. CASE UNCHANGED vars
    BY <2>1 DEF vars, GraphInv, TypeOK, InOrder, NotYet, ItemsAreMeant, BucketsAreMeant,
       WrittenIsMeant, Verdicts, In, Decided
  <2>2. CASE Ingest \/ ExtractText \/ ClassifyDocument \/ Chunk \/ Embed
             \/ ExtractClaims \/ MatchRules \/ MatchRulesAgainstSources
             \/ MergeFindings \/ ScoreConfidence
    BY <2>2, PrepActions
  <2>3. CASE RouteToQueue BY <2>3, RouteToQueueStep
  <2>4. CASE HumanReview BY <2>4, HumanReviewStep
  <2>5. CASE Finalize BY <2>5, FinalizeStep
  <2>6. CASE TransientFailure
    <3>1. CASE HumanReviewFails
      BY <3>1, FailsStep, NodeNames DEF HumanReviewFails, Errors, Stay
    <3>2. CASE \E n \in MayRetry \ {"merge_findings"} : Fails(n, "transient")
      <4>1. PICK n \in MayRetry : Fails(n, "transient") BY <3>2
      <4>2. n \in Nodes /\ n # "human_review" BY DEF MayRetry
      <4>3. Leave(n, Failed(state, "transient")) /\ items' = items /\ written' = written
        BY <4>1 DEF Fails
      <4> QED BY <4>2, <4>3, FailsStep DEF Errors
    <3> QED BY <2>6, <3>1, <3>2 DEF TransientFailure
  <2>7. CASE PermanentFailure
    <3>1. PICK n \in PrepNames : Fails(n, "permanent")
      BY <2>7 DEF PermanentFailure, PrepNames, Before
    <3>2. Leave(n, Failed(state, "permanent")) /\ items' = items /\ written' = written
      BY <3>1 DEF Fails
    <3>3. n \in Nodes /\ n # "human_review" BY NodeNames DEF PrepNames, Before
    <3> QED BY <3>2, <3>3, FailsStep DEF Errors
  <2> QED BY <2>1, <2>2, <2>3, <2>4, <2>5, <2>6, <2>7 DEF Next, Succeed
<1> QED BY <1>1, <1>2, PTL DEF Spec

-----------------------------------------------------------------------------
(* The properties. *)

\* Every reachable state is typed.
THEOREM GraphIsTyped == Spec => []TypeOK
<1>1. GraphInv => TypeOK BY DEF GraphInv
<1> QED BY <1>1, GraphInvariant, PTL

\* Approved claims have a clean verdict or a human's word; one that is rejected
\* as well was decided before the partition was repeated without it.
THEOREM ApprovalsHold == Spec => []ApprovalsAreJustified
<1>1. GraphInv => ApprovalsAreJustified
  <2> SUFFICES ASSUME GraphInv PROVE ApprovalsAreJustified OBVIOUS
  <2>1. ASSUME NEW c \in written.approved
        PROVE  state.decisions[c] = "approved" \/ Clean(state.verdicts[c])
    BY <2>1 DEF GraphInv, TypeOK, BucketsAreMeant, WrittenIsMeant, Verdicts, In, Decided
  <2>2. ASSUME NEW c \in written.approved \cap written.rejected
        PROVE  state.repeated /\ state.buckets[c] # "escalate"
    <3>1. /\ c \in Claims /\ written = Verdicts
      BY <2>2 DEF GraphInv, TypeOK, WrittenIsMeant
    <3>2. state.buckets[c] # "escalate" /\ state.decisions[c] # "none"
      BY <2>2, <3>1 DEF Verdicts, In, Decided
    <3> QED BY <3>1, <3>2 DEF GraphInv, BucketsAreMeant, ItemsAreMeant
  <2> QED BY <2>1, <2>2 DEF ApprovalsAreJustified
<1> QED BY <1>1, GraphInvariant, PTL

\* No claim of a partitioned and finalized run is lost.
THEOREM ClaimsAreKept == Spec => []NoClaimIsLost
<1>1. GraphInv => NoClaimIsLost
  <2> SUFFICES ASSUME GraphInv, {"route_to_queue", "finalize"} \subseteq state.completed
               PROVE  \A c : c \in written.approved \cup written.rejected
                               <=> c \in state.claims
    BY DEF NoClaimIsLost
  <2>1. node = "__end__" /\ written = Verdicts
    BY DEF GraphInv, WrittenIsMeant
  <2>2. /\ state.claims \subseteq Claims
        /\ \A c \in Claims : state.buckets[c] \in Buckets /\ state.decisions[c] \in Answers
    BY DEF GraphInv, TypeOK, State
  <2>3. ASSUME NEW c \in Claims
        PROVE  c \in written.approved \cup written.rejected <=> c \in state.claims
    BY <2>1, <2>2 DEF GraphInv, BucketsAreMeant, Verdicts, In, Decided, Buckets, Answers
  <2> QED BY <2>1, <2>2, <2>3 DEF Verdicts, In, Decided
<1> QED BY <1>1, GraphInvariant, PTL

\* finalize runs only when every escalated claim is decided.
THEOREM ReviewHolds == Spec => []ReviewedBeforeFinalize
<1>1. GraphInv => ReviewedBeforeFinalize
  BY DEF GraphInv, BucketsAreMeant, ReviewedBeforeFinalize
<1> QED BY <1>1, GraphInvariant, PTL

\* No node before the queue is completed twice.
THEOREM NothingIsRedone == Spec => []NoRework
<1>1. GraphInv => NoRework BY BeforeIsPrep DEF GraphInv, InOrder, NoRework
<1> QED BY <1>1, GraphInvariant, PTL

\* The graph has an edge for every answer of every routing function.
THEOREM EdgesHold == Spec => []EdgesExist
<1>1. TypeOK => EdgesExist
  <2> SUFFICES ASSUME node \in Nodes, NEW st \in Statuses, NEW e \in Errors,
                      state \in State,
                      st = "error" /\ e = "transient" => node # "merge_findings"
               PROVE  Route(node, [state EXCEPT !.status = st, !.error = e])
                        \in DOMAIN PATH_MAPS[node]
    BY NodeNames DEF TypeOK, EdgesExist, PrepNames, Before, Stay
  <2> DEFINE s == [state EXCEPT !.status = st, !.error = e]
  <2>0. s.status = st /\ s.error = e BY DEF State
  <2> HIDE DEF s
  <2> USE <2>0, NodeNames DEF Route, CompletedRoute, Retryable, PATH_MAPS, Before,
          PrepNames, Stay, MaySkip, MayRetry, Statuses, Errors
  <2>1. CASE node = "ingest" BY <2>1
  <2>2. CASE node = "extract_text" BY <2>2
  <2>3. CASE node = "classify_document" BY <2>3
  <2>4. CASE node = "chunk" BY <2>4
  <2>5. CASE node = "embed" BY <2>5
  <2>6. CASE node = "extract_claims" BY <2>6
  <2>7. CASE node = "match_rules" BY <2>7
  <2>8. CASE node = "match_rules_against_sources" BY <2>8
  <2>9. CASE node = "merge_findings" BY <2>9
  <2>10. CASE node = "score_confidence" BY <2>10
  <2>11. CASE node = "route_to_queue" BY <2>11
  <2>12. CASE node = "human_review" BY <2>12
  <2>13. CASE node = "finalize" BY <2>13
  <2>14. Route(node, s) \in DOMAIN PATH_MAPS[node]
    BY <2>1, <2>2, <2>3, <2>4, <2>5, <2>6, <2>7, <2>8, <2>9, <2>10, <2>11, <2>12, <2>13
  <2> QED BY <2>14 DEF s
<1> QED BY <1>1, GraphIsTyped, PTL
=============================================================================
