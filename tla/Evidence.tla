------------------------------ MODULE Evidence ------------------------------
(***************************************************************************)
(* What the executor's nodes make of a document (demo_executor.py), from   *)
(* the claims a model extracts to the report (main.py): extract_claims and *)
(* the durable record of the claims, the two checks, merge_findings,       *)
(* score_confidence and route_to_queue.                                    *)
(*                                                                         *)
(* A model's answer is anything its JSON can say, or no answer.  A claim   *)
(* is known by its position, from which claim_id is made.  Confidences and *)
(* the threshold are percentages.                                          *)
(***************************************************************************)
EXTENDS Naturals, Sequences, FiniteSets, SpanResolution, SourceFindings

CONSTANTS
  Contents,     \* what a claim may say, Missing aside
  Missing,      \* a claim that says a fact was not found
  Confidences,  \* of verdicts
  Thresholds,   \* confidence_threshold of a configuration
  NoAnswer,     \* of a model
  MaxClaims, MaxAnswers,     \* bounds
  ClaimTexts, SourceTexts,   \* that are located, and searched
  RuleLists, StructuredLists, ChunkLists, Replies   \* of the check of the document

ASSUME EvidenceAssumption ==
  /\ Missing \notin Contents
  /\ Confidences \subseteq 0..100 /\ Thresholds \subseteq 0..100
  /\ MaxClaims \in Nat /\ MaxAnswers \in Nat

ASSUME InputsAssumption ==
  /\ ClaimTexts \cup SourceTexts \subseteq Seq(Words \cup Spaces \cup Marks)
  /\ StructuredLists \subseteq Seq(STRING) /\ ChunkLists \subseteq Seq(Chunks)
  /\ Replies \subseteq Answers(STRING)

VARIABLES
  stage,      \* the node that runs next
  threshold,
  claims, rows, gap,   \* the state's claims, the run's rows in claims, _persistence_gap
  tries,      \* attempts to write the rows
  answer,     \* of the claim check: a sequence of judgements, or NoAnswer
  verdicts,
  sources,    \* source_findings, by verdict
  findings,   \* of both checks, by verdict
  buckets

vars == <<stage, threshold, claims, rows, gap, tries, answer, verdicts, sources,
          findings, buckets>>

Verdicts  == {"compliant", "non_compliant", "indeterminate", "review_required"}
Bad       == {"non_compliant", "review_required"}
UpTo(S, n) == UNION {[1..k -> S] : k \in 0..n}

\* what the prompt allows, and a word outside of it; on any id, also of no claim
Judgements == [claim: 1..MaxClaims, verdict: Verdicts \cup {"other"},
               confidence: Confidences]

ASSUME NoAnswerAssumption == NoAnswer \notin UpTo(Judgements, MaxAnswers)

TypeOK ==
  /\ stage \in {"extract", "persist", "match", "sources", "merge", "score", "route",
                "done", "failed"}
  /\ threshold \in Thresholds /\ gap \in BOOLEAN
  /\ claims \in UpTo(Contents \cup {Missing}, MaxClaims)
  /\ rows \in UpTo(Contents \cup {Missing}, MaxClaims)
  /\ tries \in 0..2
  /\ answer \in UpTo(Judgements, MaxAnswers) \cup {NoAnswer}
  /\ \A i \in DOMAIN verdicts : verdicts[i].verdict \in Verdicts
  /\ sources \subseteq Bad \cup {"fail", "other"}
  /\ findings \subseteq Bad \cup {"fail", "other"}
  /\ DOMAIN buckets = {"auto_approve", "escalate"}

Init ==
  /\ stage = "extract" /\ threshold \in Thresholds
  /\ claims = <<>> /\ rows = <<>> /\ gap = FALSE /\ tries = 0
  /\ answer = NoAnswer /\ verdicts = <<>> /\ sources = {} /\ findings = {}
  /\ buckets = [auto_approve |-> {}, escalate |-> {}]

\* extract_claims: the model's claims of each batch of chunks, or those of the
\* patterns where it fails, numbered in one sequence; without claims no row is touched
Extract ==
  /\ stage = "extract"
  /\ claims' \in UpTo(Contents \cup {Missing}, MaxClaims)
  /\ stage' = IF claims' = <<>> THEN "match" ELSE "persist"
  /\ UNCHANGED <<threshold, rows, gap, tries, answer, verdicts, sources, findings, buckets>>

\* mutant: the run's earlier rows are left in place
AddRows(table, list) == table \o list

\* persist_extraction_results: the run's rows are replaced in one transaction
ReplaceRows(table, list) == list

Persist ==
  /\ stage = "persist"
  /\ rows' = ReplaceRows(rows, claims) /\ stage' = "match"
  /\ UNCHANGED <<threshold, claims, gap, tries, answer, verdicts, sources, findings, buckets>>

\* The transaction fails, or it is committed and the answer is lost: one retry, then
\* the gap is recorded and the run goes on.
PersistFails ==
  /\ stage = "persist"
  /\ rows' \in {rows, ReplaceRows(rows, claims)}
  /\ tries' = tries + 1
  /\ IF tries' < 2 THEN UNCHANGED <<stage, gap>> ELSE stage' = "match" /\ gap' = TRUE
  /\ UNCHANGED <<threshold, claims, answer, verdicts, sources, findings, buckets>>

\* match_rules: a word the prompt does not allow is indeterminate
Verdict(judgement) ==
  [claim      |-> judgement.claim,
   verdict    |-> IF judgement.verdict \in Verdicts THEN judgement.verdict
                  ELSE "indeterminate",
   confidence |-> judgement.confidence,
   review     |-> judgement.verdict \in Bad \/ judgement.confidence < 70]

\* ... and without an answer every claim is left to a person
Fallback(i) ==
  [claim      |-> i,
   verdict    |-> IF claims[i] = Missing THEN "review_required" ELSE "indeterminate",
   confidence |-> IF claims[i] = Missing THEN 0 ELSE 50,
   review     |-> TRUE]

MatchRules ==
  /\ stage = "match" /\ stage' = "sources"
  /\ IF claims = <<>> THEN verdicts' = <<>> /\ UNCHANGED answer
     ELSE \/ \E said \in UpTo(Judgements, MaxAnswers) :
               /\ answer' = said
               /\ verdicts' = [i \in DOMAIN said |-> Verdict(said[i])]
          \/ /\ verdicts' = [i \in DOMAIN claims |-> Fallback(i)]
             /\ UNCHANGED answer
  /\ UNCHANGED <<threshold, claims, rows, gap, tries, sources, findings, buckets>>

\* match_rules_against_sources: no claims, no check; a call that fails finds nothing
MatchSourceSpans ==
  /\ stage = "sources" /\ stage' = "merge"
  /\ sources' \in IF claims = <<>> THEN {{}}
                  ELSE SUBSET (Bad \cup {"fail", "other"})
  /\ UNCHANGED <<threshold, claims, rows, gap, tries, answer, verdicts, findings, buckets>>

ClaimFindings == {verdicts[i].verdict : i \in DOMAIN verdicts} \cap Bad

\* mutant: the findings of the document itself are not merged
MergeClaims(claim, source) == claim
Merged(claim, source) == claim \cup source

MergeFindings ==
  /\ stage = "merge" /\ stage' = "score"
  /\ findings' = Merged(ClaimFindings, sources)
  /\ UNCHANGED <<threshold, claims, rows, gap, tries, answer, verdicts, sources, buckets>>

ScoreConfidence ==
  /\ stage = "score" /\ stage' = "route"
  /\ verdicts' = [i \in DOMAIN verdicts |->
                    [verdicts[i] EXCEPT !.review = \/ @
                                                   \/ verdicts[i].confidence < threshold
                                                   \/ verdicts[i].verdict \in Bad]]
  /\ UNCHANGED <<threshold, claims, rows, gap, tries, answer, sources, findings, buckets>>

\* verdict_map: of several verdicts on a claim the last one counts
Judged(i)      == {k \in DOMAIN verdicts : verdicts[k].claim = i}
LastVerdict(i) == {verdicts[k] : k \in {j \in Judged(i) : \A m \in Judged(i) : m <= j}}

\* mutant: a claim nothing was said about goes through
ApprovedUnlessBad(i) == \A v \in LastVerdict(i) : ~v.review
Approved(i) ==
  \E v \in LastVerdict(i) : v.verdict \notin Bad /\ ~v.review /\ v.confidence >= threshold

RouteToQueue ==
  /\ stage = "route" /\ stage' = "done"
  /\ buckets' = [auto_approve |-> {i \in DOMAIN claims : Approved(i)},
                 escalate     |-> {i \in DOMAIN claims : ~Approved(i)}]
  /\ UNCHANGED <<threshold, claims, rows, gap, tries, answer, verdicts, sources, findings>>

\* A step could not be recorded: the run fails.
Fail ==
  /\ stage \notin {"done", "failed"} /\ stage' = "failed"
  /\ UNCHANGED <<threshold, claims, rows, gap, tries, answer, verdicts, sources, findings, buckets>>

Next == \/ Extract \/ Persist \/ PersistFails \/ MatchRules \/ MatchSourceSpans
        \/ MergeFindings \/ ScoreConfidence \/ RouteToQueue \/ Fail

Spec == Init /\ [][Next]_vars

-----------------------------------------------------------------------------
\* get_run_report
Ready == stage = "failed" \/ (stage = "done" /\ ~gap)

Counted(verdict) == Cardinality({i \in DOMAIN verdicts : verdicts[i].verdict = verdict})

Report ==
  IF Counted("non_compliant") > 0 \/ findings \cap {"fail", "non_compliant"} # {}
  THEN "NON-COMPLIANT"
  ELSE IF \/ Counted("review_required") > 0 \/ "review_required" \in findings
          \/ 10 * Counted("indeterminate") > 3 * Len(claims)
       THEN "REQUIRES REVIEW"
  ELSE IF Counted("indeterminate") > 0 THEN "MOSTLY COMPLIANT" ELSE "COMPLIANT"

-----------------------------------------------------------------------------
\* A claim no person sees was judged by the model, last of all with a verdict that is
\* not against it and with a confidence of at least 0.7 and the threshold: a check
\* that failed or forgot the claim approves nothing (match_rules, score_confidence
\* and route_to_queue together).
NoVerdictNoApproval ==
  \A i \in buckets.auto_approve :
    /\ answer # NoAnswer
    /\ \E k \in DOMAIN answer :
         /\ answer[k].claim = i
         /\ \A m \in DOMAIN answer : answer[m].claim = i => m <= k
         /\ answer[k].verdict \notin Bad
         /\ answer[k].confidence >= 70 /\ answer[k].confidence >= threshold

\* A run that ends as plainly completed has its claims in the table, each once: not
\* when a write was given up, nor when the answer to one was lost and it was done
\* again ("resumed/retried runs never duplicate", source_linker.py, and "a silent
\* gap is unacceptable", demo_executor.py).
CompletedIsDurable == stage = "done" /\ ~gap => rows = claims

\* What a reviewer is shown as the place of a claim says the claim (span_resolution.py,
\* citation_payload.py), and a finding against the document cites a place that was
\* evaluated, whatever the model answers (match_rules_against_sources.py,
\* evaluators.py); no state matters to either, so it is stated once, at the start.
CitationsAreReal ==
  stage = "extract" =>
    /\ \A claim \in ClaimTexts, text \in SourceTexts : SnippetSaysTheClaim(claim, text)
    /\ \A rules \in RuleLists, structured \in StructuredLists, chunks \in ChunkLists :
         \A replies \in [DOMAIN chunks -> Replies] :
           FindingsAreGrounded(rules, structured, chunks, replies)

\* The report of a run that completed says at least what either check found, in the
\* words of the prompts: a violation makes it NON-COMPLIANT, a matter for review is
\* never a mild verdict.  (A finding of the document with any other word for its
\* verdict is listed, and counts for nothing.)
BadNewsReachesTheReport ==
  (stage = "done" /\ Ready) =>
    LET said == IF answer = NoAnswer THEN {} ELSE {answer[k].verdict : k \in DOMAIN answer}
    IN  /\ "non_compliant" \in said \/ {"fail", "non_compliant"} \cap sources # {}
             => Report = "NON-COMPLIANT"
        /\ \/ "review_required" \in said \cup sources
           \/ \E i \in DOMAIN claims : claims[i] = Missing /\ answer = NoAnswer
           => Report \in {"NON-COMPLIANT", "REQUIRES REVIEW"}
=============================================================================
