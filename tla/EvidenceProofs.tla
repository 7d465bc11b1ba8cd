--------------------------- MODULE EvidenceProofs ---------------------------
(***************************************************************************)
(* Proofs about Evidence, for any number of claims and judgements and any *)
(* confidences and thresholds.  The inductive invariant says what  *)
(* each stage has made of the answer of the claim check: before the check  *)
(* there are no verdicts; after it they are those of the answer, one by    *)
(* one, or verdicts for review; after merging, the findings are what both  *)
(* checks found.                                                           *)
(*                                                                         *)
(* And about what is cited, for any texts and chunks: findings lie in the  *)
(* chunk they are about, and each of the three searches for a claim finds  *)
(* a part of the text that says it.  Places are compared by their rank     *)
(* among the characters that normalizing keeps.                            *)
(***************************************************************************)
EXTENDS Evidence, FiniteSetTheorems, SequenceTheorems, WellFoundedInduction, TLAPS

Unchecked == {"extract", "persist", "match"}
Records   == [claim : Nat, verdict : Verdicts, confidence : 0..100, review : BOOLEAN]

\* Nothing is judged before the check, and nothing approved before the end.
NotYet ==
  /\ stage \in Unchecked => answer = NoAnswer /\ verdicts = <<>>
  /\ stage # "done" => buckets.auto_approve = {}

\* A verdict is what the model said, and one that needs no review is not
\* against the claim.
Judges(k) ==
  /\ verdicts[k] \in Records
  /\ verdicts[k].claim = answer[k].claim
  /\ verdicts[k].confidence = answer[k].confidence
  /\ verdicts[k].verdict = IF answer[k].verdict \in Verdicts THEN answer[k].verdict
                           ELSE "indeterminate"
  /\ ~verdicts[k].review => answer[k].verdict \notin Bad /\ answer[k].confidence >= 70

SaidIsKept ==
  answer # NoAnswer => /\ DOMAIN verdicts = DOMAIN answer
                       /\ \A k \in DOMAIN answer : Judges(k)

\* Without an answer all verdicts are for review, and a missing fact is named.
SilenceIsForReview ==
  answer = NoAnswer /\ stage \notin Unchecked \cup {"failed"} =>
    /\ \A k \in DOMAIN verdicts : verdicts[k] \in Records /\ verdicts[k].review
    /\ \A i \in DOMAIN claims :
         claims[i] = Missing => i \in DOMAIN verdicts /\ verdicts[i].verdict = "review_required"

\* Before the claims are found there are no rows; while they are written, any.
RowsAreWritten ==
  /\ stage = "persist" => tries < 2
  /\ stage = "extract" => rows = <<>> /\ tries = 0
  /\ stage \notin {"extract", "persist", "failed"} /\ ~gap => rows = claims

FindingsAreMerged ==
  stage \in {"score", "route", "done"} => findings = ClaimFindings \cup sources

EvidenceInv ==
  /\ TypeOK
  /\ NotYet
  /\ SaidIsKept
  /\ SilenceIsForReview
  /\ RowsAreWritten
  /\ FindingsAreMerged
  /\ NoVerdictNoApproval
-----------------------------------------------------------------------------
\* A sequence of bounded length maps positions to members.
LEMMA UpToMembers ==
  ASSUME NEW S, NEW n \in Nat, NEW f \in UpTo(S, n)
  PROVE  \E k \in 0..n : f \in [1..k -> S]
BY DEF UpTo

\* Nothing is a sequence, too.
LEMMA EmptyUpTo ==
  ASSUME NEW S, NEW n \in Nat
  PROVE  <<>> \in UpTo(S, n)
<1>1. <<>> \in [1..0 -> S] OBVIOUS
<1> QED BY <1>1 DEF UpTo

\* The assumption, part by part.
LEMMA Limits == MaxClaims \in Nat /\ MaxAnswers \in Nat
BY EvidenceAssumption

\* ... and for the percentages.
LEMMA Percentages == Confidences \subseteq 0..100 /\ Thresholds \subseteq 0..100
BY EvidenceAssumption

\* What the check makes of an answer keeps what was said.
LEMMA VerdictsAreKept ==
  ASSUME NEW j \in Judgements
  PROVE  /\ Verdict(j) \in Records
         /\ Verdict(j).claim = j.claim /\ Verdict(j).confidence = j.confidence
         /\ Verdict(j).verdict = IF j.verdict \in Verdicts THEN j.verdict
                                 ELSE "indeterminate"
         /\ ~Verdict(j).review => j.verdict \notin Bad /\ j.confidence >= 70
<1>1. j.claim \in Nat /\ j.confidence \in 0..100
  <2>1. j.claim \in 1..MaxClaims BY DEF Judgements
  <2>2. j.confidence \in Confidences BY DEF Judgements
  <2>3. j.claim \in Nat BY <2>1, Limits
  <2>4. j.confidence \in 0..100 BY <2>2, Percentages
  <2> QED BY <2>3, <2>4
<1>2. Verdict(j) \in Records
  <2>1. (j.verdict \in Bad \/ j.confidence < 70) \in BOOLEAN OBVIOUS
  <2> QED BY <1>1, <2>1 DEF Verdict, Records, Verdicts
<1>3. ~Verdict(j).review => j.verdict \notin Bad /\ j.confidence >= 70
  <2>1. ~Verdict(j).review => j.verdict \notin Bad /\ ~(j.confidence < 70)
    BY DEF Verdict
  <2> QED BY <1>1, <2>1
<1> QED BY <1>2, <1>3 DEF Verdict

\* Without an answer a claim is left to a person, and a missing fact is named.
LEMMA FallbackIsForReview ==
  ASSUME NEW i \in Nat
  PROVE  /\ Fallback(i) \in Records /\ Fallback(i).review
         /\ claims[i] = Missing => Fallback(i).verdict = "review_required"
BY DEF Fallback, Records, Verdicts

\* Scoring only adds to what is for review.
LEMMA ScoringKeeps ==
  ASSUME NEW v \in Records, NEW b \in BOOLEAN
  PROVE  LET w == [v EXCEPT !.review = @ \/ b]
         IN  /\ w \in Records /\ w.claim = v.claim /\ w.verdict = v.verdict
             /\ w.confidence = v.confidence /\ v.review => w.review
BY DEF Records
-----------------------------------------------------------------------------
\* At the start nothing has been said.
LEMMA InitInv == Init => EvidenceInv
<1> SUFFICES ASSUME Init PROVE EvidenceInv OBVIOUS
<1>1. /\ <<>> \in UpTo(Contents \cup {Missing}, MaxClaims)
      /\ 0 \in 0..2
  BY EvidenceAssumption, EmptyUpTo
<1>2. TypeOK
  <2>1. stage = "extract" /\ threshold \in Thresholds /\ gap = FALSE BY DEF Init
  <2>2. claims = <<>> /\ rows = <<>> /\ answer = NoAnswer /\ verdicts = <<>>
    BY DEF Init
  <2>3. tries = 0 /\ sources = {} /\ findings = {} BY DEF Init
  <2>4. DOMAIN buckets = {"auto_approve", "escalate"} BY DEF Init
  <2>5. claims \in UpTo(Contents \cup {Missing}, MaxClaims)
        /\ rows \in UpTo(Contents \cup {Missing}, MaxClaims)
    BY <1>1, <2>2
  <2>6. \A i \in DOMAIN verdicts : verdicts[i].verdict \in Verdicts BY <2>2
  <2>7. tries \in 0..2 BY <1>1, <2>3
  <2> QED BY <2>1, <2>2, <2>3, <2>4, <2>5, <2>6, <2>7 DEF TypeOK
<1> QED
  BY <1>2 DEF Init, EvidenceInv, NotYet, SaidIsKept, SilenceIsForReview, RowsAreWritten,
     FindingsAreMerged, NoVerdictNoApproval, Unchecked

\* Without verdicts or with them, what is judged is a record.
LEMMA VerdictsAreRecords ==
  ASSUME EvidenceInv, stage \notin Unchecked \cup {"failed"}, NEW k \in DOMAIN verdicts
  PROVE  verdicts[k] \in Records
BY DEF EvidenceInv, SaidIsKept, SilenceIsForReview, Judges

\* The check: its verdicts are those of an answer, or all for review.
LEMMA MatchOutcome ==
  ASSUME EvidenceInv, MatchRules
  PROVE  /\ \A k \in DOMAIN verdicts' : verdicts'[k] \in Records
         /\ SaidIsKept' /\ SilenceIsForReview'
<1>1. answer = NoAnswer /\ claims' = claims
  BY DEF MatchRules, EvidenceInv, NotYet, Unchecked
<1>2. CASE claims = <<>>
  <2>1. verdicts' = <<>> /\ answer' = NoAnswer BY <1>1, <1>2 DEF MatchRules
  <2> QED BY <1>1, <1>2, <2>1 DEF SaidIsKept, SilenceIsForReview
<1>3. ASSUME NEW said \in UpTo(Judgements, MaxAnswers),
             answer' = said, verdicts' = [i \in DOMAIN said |-> Verdict(said[i])]
      PROVE  /\ \A k \in DOMAIN verdicts' : verdicts'[k] \in Records
             /\ SaidIsKept' /\ SilenceIsForReview'
  <2>1. \A k \in DOMAIN said : said[k] \in Judgements
    BY UpToMembers, Limits
  <2>2. DOMAIN verdicts' = DOMAIN answer' BY <1>3
  <2>3. \A k \in DOMAIN said : Judges(k)'
    BY <1>3, <2>1, VerdictsAreKept DEF Judges
  <2>4. answer' # NoAnswer BY <1>3, NoAnswerAssumption
  <2> QED BY <1>3, <2>2, <2>3, <2>4 DEF SaidIsKept, SilenceIsForReview, Judges
<1>4. ASSUME verdicts' = [i \in DOMAIN claims |-> Fallback(i)], answer' = answer
      PROVE  /\ \A k \in DOMAIN verdicts' : verdicts'[k] \in Records
             /\ SaidIsKept' /\ SilenceIsForReview'
  <2>1. DOMAIN claims \subseteq Nat
    <3>1. claims \in UpTo(Contents \cup {Missing}, MaxClaims) BY DEF EvidenceInv, TypeOK
    <3>2. PICK n \in 0..MaxClaims : claims \in [1..n -> Contents \cup {Missing}]
      BY <3>1, UpToMembers, Limits
    <3> QED BY <3>2
  <2>2. \A k \in DOMAIN verdicts' : verdicts'[k] \in Records /\ verdicts'[k].review
    BY <1>4, <2>1, FallbackIsForReview
  <2>3. \A i \in DOMAIN claims' : claims'[i] = Missing =>
          i \in DOMAIN verdicts' /\ verdicts'[i].verdict = "review_required"
    BY <1>1, <1>4, <2>1, FallbackIsForReview
  <2> QED BY <1>1, <1>4, <2>2, <2>3 DEF SaidIsKept, SilenceIsForReview
<1> QED BY <1>2, <1>3, <1>4 DEF MatchRules

\* Scoring changes no verdict and takes none out of review.
LEMMA ScoreOutcome ==
  ASSUME EvidenceInv, ScoreConfidence
  PROVE  /\ DOMAIN verdicts' = DOMAIN verdicts
         /\ \A k \in DOMAIN verdicts :
              /\ verdicts'[k] \in Records
              /\ verdicts'[k].claim = verdicts[k].claim
              /\ verdicts'[k].verdict = verdicts[k].verdict
              /\ verdicts'[k].confidence = verdicts[k].confidence
              /\ verdicts[k].review => verdicts'[k].review
<1>1. DOMAIN verdicts' = DOMAIN verdicts BY DEF ScoreConfidence
<1>2. SUFFICES ASSUME NEW k \in DOMAIN verdicts
               PROVE  /\ verdicts'[k] \in Records
                      /\ verdicts'[k].claim = verdicts[k].claim
                      /\ verdicts'[k].verdict = verdicts[k].verdict
                      /\ verdicts'[k].confidence = verdicts[k].confidence
                      /\ verdicts[k].review => verdicts'[k].review
  BY <1>1
<1>3. verdicts[k] \in Records BY VerdictsAreRecords DEF ScoreConfidence, Unchecked
<1> DEFINE more == verdicts[k].confidence < threshold \/ verdicts[k].verdict \in Bad
<1>4. more \in BOOLEAN OBVIOUS
<1>5. verdicts'[k] = [verdicts[k] EXCEPT !.review = @ \/ more] BY DEF ScoreConfidence
<1> HIDE DEF more
<1> QED BY <1>3, <1>4, <1>5, ScoringKeeps

\* The steps, part by part of the invariant.
LEMMA StepTypes ==
  ASSUME EvidenceInv, [Next]_vars
  PROVE  TypeOK'
<1> USE DEF EvidenceInv, TypeOK
<1>1. CASE Extract BY <1>1 DEF Extract
<1>2. CASE Persist BY <1>2 DEF Persist, ReplaceRows
<1>3. CASE PersistFails
  <2>1. tries' \in 0..2 BY <1>3 DEF PersistFails, RowsAreWritten
  <2>2. rows' \in UpTo(Contents \cup {Missing}, MaxClaims)
    BY <1>3 DEF PersistFails, ReplaceRows
  <2> QED BY <2>1, <2>2, <1>3 DEF PersistFails
<1>6. CASE MatchRules
  <2>1. (\A i \in DOMAIN verdicts : verdicts[i].verdict \in Verdicts)'
    BY <1>6, MatchOutcome DEF Records
  <2>2. answer' \in UpTo(Judgements, MaxAnswers) \cup {NoAnswer} BY <1>6 DEF MatchRules
  <2> QED BY <2>1, <2>2, <1>6 DEF MatchRules
<1>7. CASE MatchSourceSpans BY <1>7 DEF MatchSourceSpans
<1>8. CASE MergeFindings
  <2>1. findings' = ClaimFindings \cup sources BY <1>8 DEF MergeFindings, Merged
  <2>2. findings' \subseteq Bad \cup {"fail", "other"}
    BY <2>1 DEF ClaimFindings, Bad
  <2> QED BY <2>2, <1>8 DEF MergeFindings
<1>9. CASE ScoreConfidence
  <2>1. (\A i \in DOMAIN verdicts : verdicts[i].verdict \in Verdicts)'
    BY <1>9, ScoreOutcome DEF Records
  <2> QED BY <2>1, <1>9 DEF ScoreConfidence
<1>10. CASE RouteToQueue BY <1>10 DEF RouteToQueue
<1>11. CASE Fail BY <1>11 DEF Fail
<1>12. CASE UNCHANGED vars BY <1>12 DEF vars
<1> QED
  BY <1>1, <1>2, <1>3, <1>6, <1>7, <1>8, <1>9, <1>10, <1>11, <1>12 DEF Next

\* Nothing is judged or approved before its time.
LEMMA StepNotYet ==
  ASSUME EvidenceInv, [Next]_vars
  PROVE  NotYet'
<1> USE DEF EvidenceInv, NotYet, Unchecked
<1>1. CASE Extract BY <1>1 DEF Extract
<1>2. CASE Persist BY <1>2 DEF Persist
<1>3. CASE PersistFails BY <1>3 DEF PersistFails
<1>6. CASE MatchRules BY <1>6 DEF MatchRules
<1>7. CASE MatchSourceSpans BY <1>7 DEF MatchSourceSpans
<1>8. CASE MergeFindings BY <1>8 DEF MergeFindings
<1>9. CASE ScoreConfidence BY <1>9 DEF ScoreConfidence
<1>10. CASE RouteToQueue BY <1>10 DEF RouteToQueue
<1>11. CASE Fail BY <1>11 DEF Fail
<1>12. CASE UNCHANGED vars BY <1>12 DEF vars
<1> QED
  BY <1>1, <1>2, <1>3, <1>6, <1>7, <1>8, <1>9, <1>10, <1>11, <1>12 DEF Next

\* Only the check and the scoring touch verdicts; the claims change before them.
LEMMA StepVerdicts ==
  ASSUME EvidenceInv, [Next]_vars
  PROVE  SaidIsKept' /\ SilenceIsForReview'
<1>1. CASE MatchRules BY <1>1, MatchOutcome
<1>2. CASE ScoreConfidence
  <2>1. answer' = answer /\ claims' = claims /\ stage = "score"
    BY <1>2 DEF ScoreConfidence
  <2>2. SaidIsKept'
    <3>1. SUFFICES ASSUME answer # NoAnswer, NEW k \in DOMAIN answer
                   PROVE  Judges(k)'
      BY <1>2, <2>1, ScoreOutcome DEF SaidIsKept, EvidenceInv
    <3>2. k \in DOMAIN verdicts /\ Judges(k) BY <3>1 DEF SaidIsKept, EvidenceInv
    <3> QED BY <1>2, <2>1, <3>2, ScoreOutcome DEF Judges
  <2>3. SilenceIsForReview'
    BY <1>2, <2>1, ScoreOutcome DEF SilenceIsForReview, EvidenceInv, Unchecked
  <2> QED BY <2>2, <2>3
<1>3. CASE UNCHANGED <<answer, verdicts>> /\ stage' \in Unchecked \cup {"failed"}
  BY <1>3 DEF SaidIsKept, SilenceIsForReview, Judges, EvidenceInv, Unchecked
<1>4. CASE /\ UNCHANGED <<answer, verdicts, claims>>
           /\ stage \notin Unchecked \cup {"failed"} \/ stage' = stage
  BY <1>4 DEF SaidIsKept, SilenceIsForReview, Judges, EvidenceInv, Unchecked
<1>5. CASE Extract BY <1>5, <1>3 DEF Extract, Unchecked
<1>6. CASE Persist BY <1>6, <1>3 DEF Persist, Unchecked
<1>7. CASE PersistFails BY <1>7, <1>3 DEF PersistFails, Unchecked
<1>10. CASE Fail BY <1>10, <1>3 DEF Fail
<1>11. CASE MatchSourceSpans BY <1>11, <1>4 DEF MatchSourceSpans, Unchecked
<1>12. CASE MergeFindings BY <1>12, <1>4 DEF MergeFindings, Unchecked
<1>13. CASE RouteToQueue BY <1>13, <1>4 DEF RouteToQueue, Unchecked
<1>14. CASE UNCHANGED vars BY <1>14, <1>4 DEF vars
<1> QED
  BY <1>1, <1>2, <1>5, <1>6, <1>7, <1>10, <1>11, <1>12, <1>13, <1>14 DEF Next

\* Rows are replaced before the checks and not touched by them.
LEMMA StepRows ==
  ASSUME EvidenceInv, [Next]_vars
  PROVE  RowsAreWritten'
<1> USE DEF EvidenceInv, RowsAreWritten
<1>1. CASE Extract BY <1>1 DEF Extract
<1>2. CASE Persist BY <1>2 DEF Persist, ReplaceRows
<1>3. CASE PersistFails BY <1>3 DEF PersistFails
<1>6. CASE MatchRules BY <1>6 DEF MatchRules
<1>7. CASE MatchSourceSpans BY <1>7 DEF MatchSourceSpans
<1>8. CASE MergeFindings BY <1>8 DEF MergeFindings
<1>9. CASE ScoreConfidence BY <1>9 DEF ScoreConfidence
<1>10. CASE RouteToQueue BY <1>10 DEF RouteToQueue
<1>11. CASE Fail BY <1>11 DEF Fail
<1>12. CASE UNCHANGED vars BY <1>12 DEF vars
<1> QED
  BY <1>1, <1>2, <1>3, <1>6, <1>7, <1>8, <1>9, <1>10, <1>11, <1>12 DEF Next

\* What both checks found stays merged.
LEMMA StepFindings ==
  ASSUME EvidenceInv, [Next]_vars
  PROVE  FindingsAreMerged'
<1> USE DEF EvidenceInv, FindingsAreMerged
<1>1. CASE Extract BY <1>1 DEF Extract
<1>2. CASE Persist BY <1>2 DEF Persist
<1>3. CASE PersistFails BY <1>3 DEF PersistFails
<1>6. CASE MatchRules BY <1>6 DEF MatchRules
<1>7. CASE MatchSourceSpans BY <1>7 DEF MatchSourceSpans
<1>8. CASE MergeFindings BY <1>8 DEF MergeFindings, Merged, ClaimFindings
<1>9. CASE ScoreConfidence
  <2>1. findings' = findings /\ sources' = sources /\ stage = "score"
    BY <1>9 DEF ScoreConfidence
  <2>2. ClaimFindings' = ClaimFindings BY <1>9, ScoreOutcome DEF ClaimFindings
  <2> QED BY <2>1, <2>2
<1>10. CASE RouteToQueue BY <1>10 DEF RouteToQueue, ClaimFindings
<1>11. CASE Fail BY <1>11 DEF Fail
<1>12. CASE UNCHANGED vars BY <1>12 DEF vars, ClaimFindings
<1> QED
  BY <1>1, <1>2, <1>3, <1>6, <1>7, <1>8, <1>9, <1>10, <1>11, <1>12 DEF Next

\* A claim that is approved at the end has a verdict, and so an answer.
LEMMA StepApprovals ==
  ASSUME EvidenceInv, [Next]_vars
  PROVE  NoVerdictNoApproval'
<1>1. CASE RouteToQueue
  <2>1. answer' = answer /\ threshold' = threshold /\ stage = "route"
    BY <1>1 DEF RouteToQueue
  <2>2. SUFFICES ASSUME NEW i \in buckets'.auto_approve
                 PROVE  /\ answer # NoAnswer
                        /\ \E k \in DOMAIN answer :
                             /\ answer[k].claim = i
                             /\ \A m \in DOMAIN answer : answer[m].claim = i => m <= k
                             /\ answer[k].verdict \notin Bad
                             /\ answer[k].confidence >= 70
                             /\ answer[k].confidence >= threshold
    BY <2>1 DEF NoVerdictNoApproval
  <2>3. Approved(i) BY <1>1, <2>2 DEF RouteToQueue
  <2>4. PICK k \in Judged(i) : /\ \A m \in Judged(i) : m <= k
                               /\ ~verdicts[k].review
                               /\ verdicts[k].confidence >= threshold
    BY <2>3 DEF Approved, LastVerdict
  <2>5. k \in DOMAIN verdicts /\ verdicts[k].claim = i BY <2>4 DEF Judged
  <2>6. answer # NoAnswer
    BY <2>1, <2>4, <2>5 DEF EvidenceInv, SilenceIsForReview, Unchecked
  <2>7. /\ DOMAIN verdicts = DOMAIN answer
        /\ \A m \in DOMAIN answer : Judges(m)
    BY <2>6 DEF EvidenceInv, SaidIsKept
  <2>8. answer[k].verdict \notin Bad /\ answer[k].confidence >= 70
        /\ answer[k].confidence = verdicts[k].confidence
    BY <2>4, <2>5, <2>7 DEF Judges
  <2>9. \A m \in DOMAIN answer : answer[m].claim = i => m \in Judged(i)
    BY <2>7 DEF Judged, Judges
  <2> QED BY <2>4, <2>5, <2>6, <2>7, <2>8, <2>9 DEF Judges
<1>2. CASE stage' # "done"
  <2>1. NotYet' BY StepNotYet
  <2> QED BY <1>2, <2>1 DEF NotYet, NoVerdictNoApproval
<1>3. CASE UNCHANGED vars BY <1>3 DEF vars, NoVerdictNoApproval, EvidenceInv
<1>4. Next /\ ~RouteToQueue => stage' # "done"
  BY DEF Next, Extract, Persist, PersistFails, MatchRules,
     MatchSourceSpans, MergeFindings, ScoreConfidence, Fail, EvidenceInv, TypeOK
<1> QED BY <1>1, <1>2, <1>3, <1>4
-----------------------------------------------------------------------------
\* Every stage is left by one that finds what the invariant says, whatever the
\* models answer and whatever fails (demo_executor.py, extract_claims to
\* route_to_queue).
THEOREM EvidenceInvariant == Spec => []EvidenceInv
<1>1. EvidenceInv /\ [Next]_vars => EvidenceInv'
  BY StepTypes, StepNotYet, StepVerdicts, StepRows, StepFindings, StepApprovals
  DEF EvidenceInv
<1> QED BY InitInv, <1>1, PTL DEF Spec

\* The lists of the pipeline state hold what TypeOK says.
THEOREM EvidenceIsTyped == Spec => []TypeOK
BY EvidenceInvariant, PTL DEF EvidenceInv

\* No claim is approved without a verdict that justifies it: whatever the
\* model says, about whatever claim and how often, or when it says nothing
\* (match_rules, score_confidence, route_to_queue).
THEOREM ApprovalsAreVerdicts == Spec => []NoVerdictNoApproval
BY EvidenceInvariant, PTL DEF EvidenceInv

\* A plainly completed run has its claims in the table, each once, whichever of
\* the two attempts failed, and committed or not (extract_claims,
\* persist_extraction_results).
THEOREM CompletedRunsAreDurable == Spec => []CompletedIsDurable
<1>1. EvidenceInv => CompletedIsDurable BY DEF EvidenceInv, RowsAreWritten, CompletedIsDurable
<1> QED BY EvidenceInvariant, <1>1, PTL

\* Nothing either check found is missing from the report (get_run_report).
THEOREM ReportIsHonest == Spec => []BadNewsReachesTheReport
<1>1. EvidenceInv => BadNewsReachesTheReport
  <2> SUFFICES ASSUME EvidenceInv, stage = "done" PROVE BadNewsReachesTheReport
    BY DEF BadNewsReachesTheReport
  <2> DEFINE said == IF answer = NoAnswer THEN {}
                     ELSE {answer[k].verdict : k \in DOMAIN answer}
  <2>1. findings = ClaimFindings \cup sources BY DEF EvidenceInv, FindingsAreMerged
  <2>2. said \cap Bad \subseteq ClaimFindings
    <3> SUFFICES ASSUME answer # NoAnswer, NEW k \in DOMAIN answer, answer[k].verdict \in Bad
                 PROVE  answer[k].verdict \in ClaimFindings
      OBVIOUS
    <3>1. k \in DOMAIN verdicts /\ Judges(k) BY DEF EvidenceInv, SaidIsKept
    <3>2. verdicts[k].verdict = answer[k].verdict
      BY <3>1 DEF Judges, Bad, Verdicts
    <3> QED BY <3>1, <3>2 DEF ClaimFindings
  <2>3. ASSUME NEW i \in DOMAIN claims, claims[i] = Missing, answer = NoAnswer
        PROVE  "review_required" \in ClaimFindings
    BY <2>3 DEF EvidenceInv, SilenceIsForReview, Unchecked, ClaimFindings, Bad
  <2>4. findings \cap {"fail", "non_compliant"} # {} => Report = "NON-COMPLIANT"
    BY DEF Report
  <2>5. "review_required" \in findings => Report \in {"NON-COMPLIANT", "REQUIRES REVIEW"}
    BY DEF Report
  <2>6. "non_compliant" \in said \/ {"fail", "non_compliant"} \cap sources # {}
          => Report = "NON-COMPLIANT"
    BY <2>1, <2>2, <2>4 DEF Bad
  <2>7. "review_required" \in said \cup sources
          => Report \in {"NON-COMPLIANT", "REQUIRES REVIEW"}
    BY <2>1, <2>2, <2>5 DEF Bad
  <2>8. (\E i \in DOMAIN claims : claims[i] = Missing /\ answer = NoAnswer)
          => Report \in {"NON-COMPLIANT", "REQUIRES REVIEW"}
    BY <2>1, <2>3, <2>5
  <2> QED BY <2>6, <2>7, <2>8 DEF BadNewsReachesTheReport
<1> QED BY EvidenceInvariant, <1>1, PTL
-----------------------------------------------------------------------------
(* Places in the text *)

\* A set of naturals has a least member.
LEMMA LeastExists ==
  ASSUME NEW S \in SUBSET Nat, S # {}
  PROVE  Min(S) \in S /\ \A n \in S : Min(S) <= n
<1> DEFINE R == {ss \in Nat \X Nat : ss[1] < ss[2]}
<1>1. IsWellFoundedOn(R, Nat)
  <2>1. OpToRel(<, Nat) = R
    BY Zenon DEF OpToRel
  <2> QED BY <2>1, NatLessThanWellFounded
<1>2. \A m, n \in Nat : n < m => <<n, m>> \in R
  OBVIOUS
<1> HIDE DEF R
<1>3. PICK m \in S : \A n \in S : <<n, m>> \notin R
  BY <1>1, WFMin
<1>4. ASSUME NEW n \in S PROVE m <= n
  <2>1. m \in Nat /\ n \in Nat /\ ~(n < m)
    BY <1>2, <1>3
  <2> QED BY <2>1
<1> QED BY <1>4 DEF Min

\* Of two numbers the least and the greatest exist.
LEMMA OfTwo ==
  ASSUME NEW a \in Int, NEW b \in Int
  PROVE  /\ Min({a, b}) = IF a <= b THEN a ELSE b
         /\ Max({a, b}) = IF a <= b THEN b ELSE a
<1>1. CASE a <= b
  <2>1. \A x \in {a, b} : (\A y \in {a, b} : x <= y) <=> x = a
    BY <1>1
  <2>2. \A x \in {a, b} : (\A y \in {a, b} : x >= y) <=> x = b
    BY <1>1
  <2> QED BY <1>1, <2>1, <2>2 DEF Min, Max
<1>2. CASE ~(a <= b)
  <2>1. \A x \in {a, b} : (\A y \in {a, b} : x <= y) <=> x = b
    BY <1>2
  <2>2. \A x \in {a, b} : (\A y \in {a, b} : x >= y) <=> x = a
    BY <1>2
  <2> QED BY <1>2, <2>1, <2>2 DEF Min, Max
<1> QED BY <1>1, <1>2

\* Clamping ends between the limits, for every number.
LEMMA ClampedWithin ==
  ASSUME NEW n \in Int, NEW low \in Int, NEW high \in Int, low <= high
  PROVE  Clamp(n, low, high) \in low..high
<1>1. Min({n, high}) \in Int /\ Min({n, high}) <= high
  BY OfTwo
<1> QED BY <1>1, OfTwo DEF Clamp
-----------------------------------------------------------------------------
\* A place in a chunk.
Within(span, chunk) ==
  chunk.start <= span.start /\ span.start <= span.end /\ span.end <= chunk.end

\* Whatever offsets are given, the place is in the chunk.
LEMMA CitedWithin ==
  ASSUME NEW chunk \in Chunks, NEW from \in Int, NEW to \in Int
  PROVE  Within(CitedSpan(chunk, from, to), chunk)
<1> DEFINE length == chunk.end - chunk.start
           start  == Clamp(from, 0, length)
           end    == Clamp(to, start, length)
<1>1. chunk.start \in Int /\ chunk.end \in Int /\ length \in Nat
  BY DEF Chunks
<1>2. length \in Int /\ 0 <= length /\ chunk.end = chunk.start + length
  BY <1>1
<1>3. CitedSpan(chunk, from, to) = [start |-> chunk.start + start, end |-> chunk.start + end]
  BY DEF CitedSpan
<1> HIDE DEF length
<1>4. start \in 0..length
  <2>1. 0 \in Int
    OBVIOUS
  <2> QED BY <1>2, <2>1, ClampedWithin, Zenon
<1> HIDE DEF start
<1>5. end \in start..length
  <2>1. start \in Int /\ start <= length
    BY <1>2, <1>4
  <2> QED BY <1>2, <2>1, ClampedWithin, Zenon
<1> HIDE DEF end
<1> QED BY <1>1, <1>2, <1>3, <1>4, <1>5 DEF Within

\* The model's results are for its rules, with places in the chunk.
LEMMA ModelResults ==
  ASSUME NEW rules, NEW chunk \in Chunks, NEW Said, NEW reply \in Answers(Said),
         NEW i \in DOMAIN rules
  PROVE  /\ LLMResults(rules, chunk, reply)[i].rule = rules[i]
         /\ Within(LLMResults(rules, chunk, reply)[i].span, chunk)
<1>1. CASE reply.list /\ i \in DOMAIN reply.items
  <2>1. reply.items[i].from \in Int /\ reply.items[i].to \in Int
    <3>1. reply.items \in Seq(Items(Said))
      BY DEF Answers
    <3>2. reply.items[i] \in Items(Said)
      BY <1>1, <3>1
    <3> QED BY <3>2 DEF Items
  <2>2. LLMResults(rules, chunk, reply)[i] =
          Result(rules[i], reply.items[i].verdict,
                 CitedSpan(chunk, reply.items[i].from, reply.items[i].to), "llm")
    BY <1>1 DEF LLMResults
  <2> QED BY <2>1, <2>2, CitedWithin DEF Result
<1>2. CASE ~(reply.list /\ i \in DOMAIN reply.items)
  <2>1. LLMResults(rules, chunk, reply)[i] =
          Result(rules[i], "insufficient_evidence",
                 [start |-> chunk.start, end |-> chunk.end], "llm")
    BY <1>2 DEF LLMResults
  <2> QED BY <2>1 DEF Result, Within, Chunks
<1> QED BY <1>1, <1>2

\* The structured rule reads the first rate above the limit, or the last one.
LEMMA RateResult ==
  ASSUME NEW rule, NEW chunk \in Chunks
  PROVE  /\ StructuredResult(rule, chunk).rule = rule
         /\ StructuredResult(rule, chunk).method = "structured"
         /\ Within(StructuredResult(rule, chunk).span, chunk)
         /\ (\E i \in DOMAIN chunk.rates : chunk.rates[i].value > 36)
              => StructuredResult(rule, chunk).verdict = "fail"
<1> DEFINE rates == chunk.rates
           high  == {i \in DOMAIN rates : rates[i].value > 36}
<1>1. rates \in Seq(Rates) /\ \A i \in DOMAIN rates : rates[i].from \in Int /\ rates[i].to \in Int
  <2>1. chunk \in [start : Int, end : Int, rates : Seq(Rates)]
    BY DEF Chunks
  <2>2. rates \in Seq(Rates)
    BY <2>1
  <2>3. \A i \in DOMAIN rates : rates[i] \in Rates
    BY <2>2
  <2> QED BY <2>2, <2>3 DEF Rates
<1>2. CASE rates = <<>>
  BY <1>2 DEF StructuredResult, Result, Within, Chunks
<1>3. CASE rates # <<>> /\ high # {}
  <2>1. high \in SUBSET Nat
    BY <1>1
  <2>2. Min(high) \in high
    BY <1>3, <2>1, LeastExists
  <2>3. StructuredResult(rule, chunk) =
          Result(rule, "fail", CitedSpan(chunk, rates[Min(high)].from, rates[Min(high)].to),
                 "structured")
    BY <1>3 DEF StructuredResult
  <2>4. rates[Min(high)].from \in Int /\ rates[Min(high)].to \in Int
    BY <1>1, <2>2
  <2>5. Within(CitedSpan(chunk, rates[Min(high)].from, rates[Min(high)].to), chunk)
    BY <2>4, CitedWithin
  <2> HIDE DEF high, rates
  <2> QED BY <2>3, <2>5 DEF Result
<1>4. CASE rates # <<>> /\ high = {}
  <2>1. Len(rates) \in DOMAIN rates
    BY <1>1, <1>4
  <2>2. StructuredResult(rule, chunk) =
          Result(rule, "pass", CitedSpan(chunk, rates[Len(rates)].from, rates[Len(rates)].to),
                 "structured")
    BY <1>4 DEF StructuredResult
  <2> QED BY <1>1, <1>4, <2>1, <2>2, CitedWithin DEF Result
<1> QED BY <1>2, <1>3, <1>4

\* Whatever a model answers for whatever chunks, a finding cites a place in a chunk
\* that was evaluated, for a rule that was checked, and a rate above the limit is
\* found if the check completes (match_rules_against_sources.py, evaluators.py).
THEOREM FindingsCiteChunks ==
  ASSUME NEW rules, NEW structured \in Seq(STRING), NEW Said, NEW chunks \in Seq(Chunks),
         NEW answers \in [DOMAIN chunks -> Answers(Said)]
  PROVE  FindingsAreGrounded(rules, structured, chunks, answers)
<1> DEFINE out == MatchSources(rules, structured, chunks, answers)
           of(i) == ChunkFindings(rules, structured, chunks[i], answers[i])
<1>1. \A i \in DOMAIN chunks : chunks[i] \in Chunks /\ answers[i] \in Answers(Said)
  OBVIOUS
<1>2. out.findings = {} \/ out.findings = UNION {of(i) : i \in DOMAIN chunks}
  BY DEF MatchSources
<1>3. out.status = "completed" => out.findings = UNION {of(i) : i \in DOMAIN chunks}
  BY DEF MatchSources
<1> HIDE DEF out
<1>4. ASSUME NEW i \in DOMAIN chunks, NEW f \in of(i)
      PROVE  /\ f.rule \in Range(rules) \cup Range(structured) /\ Actionable(f)
             /\ Within(f.span, chunks[i])
  <2>1. Actionable(f)
    BY DEF ChunkFindings
  <2>2. CASE f \in Range(LLMResults(rules, chunks[i], answers[i]))
    <3>1. PICK k \in DOMAIN rules : f = LLMResults(rules, chunks[i], answers[i])[k]
      BY <2>2 DEF Range, LLMResults
    <3> QED BY <1>1, <2>1, <3>1, ModelResults DEF Range
  <2>3. CASE \E k \in DOMAIN structured : f = StructuredResult(structured[k], chunks[i])
    BY <1>1, <2>1, <2>3, RateResult DEF Range
  <2> QED BY <2>2, <2>3 DEF ChunkFindings
<1>5. ASSUME out.status = "completed", structured # <<>>,
             NEW i \in DOMAIN chunks, NEW j \in DOMAIN chunks[i].rates,
             chunks[i].rates[j].value > 36
      PROVE  \E f \in out.findings : f.method = "structured"
  <2> DEFINE f == StructuredResult(structured[1], chunks[i])
  <2>1. 1 \in DOMAIN structured
    BY <1>5
  <2>2. f.method = "structured" /\ f.verdict = "fail"
    BY <1>1, <1>5, RateResult
  <2>3. f \in of(i)
    BY <2>1, <2>2 DEF ChunkFindings, Actionable
  <2> QED BY <1>3, <1>5, <2>2, <2>3
<1>6. \A f \in out.findings : \E i \in DOMAIN chunks : f \in of(i)
  BY <1>2
<1>7. ASSUME NEW f \in out.findings
      PROVE  /\ f.rule \in Range(rules) \cup Range(structured) /\ Actionable(f)
             /\ \E i \in DOMAIN chunks : Within(f.span, chunks[i])
  BY <1>4, <1>6
<1> QED BY <1>5, <1>7 DEF FindingsAreGrounded, Within, out
-----------------------------------------------------------------------------
(* Finite sets in their order, and the ranks of numbers among them *)

\* In a finite set one member comes before all others, by any order; the smallest
\* set without one would lack it still with a member less.
LEMMA FirstExists ==
  ASSUME NEW S, IsFiniteSet(S), S # {}, NEW R,
         \A x, y \in S : x = y \/ <<x, y>> \in R \/ <<y, x>> \in R,
         \A x, y, z \in S : <<x, y>> \in R /\ <<y, z>> \in R => <<x, z>> \in R
  PROVE  \E b \in S : \A k \in S \ {b} : <<b, k>> \in R
<1> DEFINE Has(G) == \E b \in G : \A k \in G \ {b} : <<b, k>> \in R
           Sizes  == {n \in Nat : \E G \in SUBSET S : /\ G # {} /\ ~Has(G)
                                                      /\ Cardinality(G) = n}
<1>1. SUFFICES ASSUME ~Has(S) PROVE FALSE
  OBVIOUS
<1>2. \A G \in SUBSET S : IsFiniteSet(G) /\ Cardinality(G) \in Nat
  BY FS_Subset, FS_CardinalityType
<1>3. Sizes # {}
  <2>1. Cardinality(S) \in Sizes
    BY <1>1, <1>2
  <2> QED BY <2>1
<1>4. Min(Sizes) \in Sizes /\ \A n \in Sizes : Min(Sizes) <= n
  BY <1>3, LeastExists
<1>5. PICK G \in SUBSET S : G # {} /\ ~Has(G) /\ Cardinality(G) = Min(Sizes)
  BY <1>4
<1>6. PICK x \in G : TRUE
  BY <1>5
<1> DEFINE F == G \ {x}
<1>7. F \in SUBSET S /\ Cardinality(F) = Cardinality(G) - 1
  BY <1>2, <1>6, FS_RemoveElement
<1>8. F # {}
  BY <1>5, <1>6
<1>9. Has(F)
  <2>1. Cardinality(F) \in Nat /\ Cardinality(G) \in Nat /\ Cardinality(F) < Min(Sizes)
    BY <1>2, <1>5, <1>7
  <2>2. Cardinality(F) \notin Sizes
    <3>1. ~(Min(Sizes) <= Cardinality(F))
      BY <1>4, <2>1
    <3> QED BY <1>4, <3>1
  <2> QED BY <1>7, <1>8, <2>1, <2>2
<1>10. PICK b \in F : \A k \in F \ {b} : <<b, k>> \in R
  BY <1>9
<1>11. CASE <<b, x>> \in R
  <2>1. \A k \in G \ {b} : <<b, k>> \in R
    BY <1>10, <1>11
  <2> QED BY <1>5, <1>10, <2>1
<1>12. CASE <<x, b>> \in R
  <2>1. \A k \in G \ {x} : <<x, k>> \in R
    BY <1>5, <1>6, <1>10, <1>12
  <2> QED BY <1>5, <1>6, <2>1
<1> QED BY <1>6, <1>10, <1>11, <1>12

\* A finite set of numbers has a greatest member.
LEMMA GreatestExists ==
  ASSUME NEW S, IsFiniteSet(S), \A n \in S : n \in Int, S # {}
  PROVE  Max(S) \in S /\ \A n \in S : n <= Max(S)
<1> DEFINE R == {ss \in Int \X Int : ss[1] > ss[2]}
<1>1. \A x, y \in Int : <<x, y>> \in R <=> x > y
  OBVIOUS
<1> HIDE DEF R
<1>2. ASSUME NEW x \in S, NEW y \in S
      PROVE  x = y \/ <<x, y>> \in R \/ <<y, x>> \in R
  <2>1. x \in Int /\ y \in Int /\ (x = y \/ x > y \/ y > x)
    OBVIOUS
  <2> QED BY <1>1, <2>1, Zenon
<1>3. ASSUME NEW x \in S, NEW y \in S, NEW z \in S, <<x, y>> \in R, <<y, z>> \in R
      PROVE  <<x, z>> \in R
  <2>1. x \in Int /\ y \in Int /\ z \in Int
    OBVIOUS
  <2>2. x > y /\ y > z
    BY <1>1, <1>3, <2>1, Zenon
  <2>3. x > z
    BY <2>1, <2>2
  <2> QED BY <1>1, <2>1, <2>3, Zenon
<1>4. \E b \in S : \A k \in S \ {b} : <<b, k>> \in R
  <2>1. \A x, y \in S : x = y \/ <<x, y>> \in R \/ <<y, x>> \in R
    BY <1>2
  <2>2. \A x, y, z \in S : <<x, y>> \in R /\ <<y, z>> \in R => <<x, z>> \in R
    BY <1>3
  <2> QED BY <2>1, <2>2, FirstExists
<1>5. PICK b \in S : \A k \in S \ {b} : <<b, k>> \in R
  BY <1>4
<1>6. \A k \in S : b >= k
  <2> TAKE k \in S
  <2>1. k \in Int /\ b \in Int /\ (k = b => b >= k) /\ (b > k => b >= k)
    OBVIOUS
  <2> QED BY <1>1, <1>5, <2>1, Zenon
<1>7. Max(S) \in S /\ \A k \in S : Max(S) >= k
  BY <1>6 DEF Max
<1> QED BY <1>7
-----------------------------------------------------------------------------
\* How many members of a set are not beyond a place.
Rank(S, i) == Cardinality({j \in S : j <= i})

\* It is a number, and grows by one at each member.
LEMMA RankStep ==
  ASSUME NEW S, IsFiniteSet(S), \A n \in S : n \in Nat, NEW i \in Int
  PROVE  /\ Rank(S, i) \in 0..Cardinality(S)
         /\ Rank(S, i) = Rank(S, i - 1) + IF i \in S THEN 1 ELSE 0
<1> DEFINE T(k) == {j \in S : j <= k}
<1>1. \A k \in Int : /\ IsFiniteSet(T(k)) /\ Cardinality(T(k)) \in 0..Cardinality(S)
  <2>1. Cardinality(S) \in Nat
    BY FS_CardinalityType
  <2> TAKE k \in Int
  <2>2. IsFiniteSet(T(k)) /\ Cardinality(T(k)) <= Cardinality(S)
    BY FS_Subset
  <2> QED BY <2>1, <2>2, FS_CardinalityType
<1>2. IsFiniteSet(T(i - 1)) /\ i \notin T(i - 1)
  <2>1. i - 1 \in Int /\ ~(i <= i - 1)
    OBVIOUS
  <2> QED BY <1>1, <2>1
<1>3. CASE i \in S
  <2>1. T(i) = T(i - 1) \cup {i}
    <3>1. \A j \in S : j <= i <=> j <= i - 1 \/ j = i
      OBVIOUS
    <3> QED BY <1>3, <3>1
  <2>2. Cardinality(T(i)) = Cardinality(T(i - 1)) + 1
    BY <1>2, <2>1, FS_AddElement
  <2> QED BY <1>1, <1>3, <2>2 DEF Rank
<1>4. CASE i \notin S
  <2>1. T(i) = T(i - 1)
    <3>1. \A j \in S : j # i
      BY <1>4
    <3>2. \A j \in S : j <= i <=> j <= i - 1
      BY <3>1
    <3> QED BY <3>2
  <2>2. Cardinality(T(i)) \in Int
    BY <1>1
  <2> QED BY <1>1, <1>4, <2>1, <2>2 DEF Rank
<1> QED BY <1>3, <1>4

\* A member farther on has a greater rank.
LEMMA RankGrows ==
  ASSUME NEW S, IsFiniteSet(S), \A n \in S : n \in Nat, NEW i \in Int, NEW k \in Int, i <= k
  PROVE  /\ Rank(S, i) <= Rank(S, k)
         /\ i < k /\ k \in S => Rank(S, i) < Rank(S, k)
<1> DEFINE T(n) == {j \in S : j <= n}
<1>1. \A n \in Int : IsFiniteSet(T(n)) /\ Cardinality(T(n)) \in Nat
  BY FS_Subset, FS_CardinalityType
<1>2. T(i) \in SUBSET T(k)
  OBVIOUS
<1>3. Cardinality(T(i)) <= Cardinality(T(k))
      /\ (Cardinality(T(k)) = Cardinality(T(i)) => T(k) = T(i))
  BY <1>1, <1>2, FS_Subset
<1>4. i < k /\ k \in S => T(i) # T(k)
  OBVIOUS
<1> HIDE DEF T
<1>5. Cardinality(T(i)) \in Nat /\ Cardinality(T(k)) \in Nat
  BY <1>1
<1>6. i < k /\ k \in S => Cardinality(T(i)) < Cardinality(T(k))
  BY <1>3, <1>4, <1>5
<1> QED BY <1>3, <1>6 DEF Rank, T

\* Every rank is reached: by the first place that has it.
LEMMA RankReached ==
  ASSUME NEW S, IsFiniteSet(S), \A n \in S : n \in Nat, NEW k \in 1..Cardinality(S)
  PROVE  \E i \in S : Rank(S, i) = k
<1> DEFINE Reach == {n \in Nat : Rank(S, n) >= k}
<1>1. Cardinality(S) \in Nat /\ k \in Nat \ {0}
  BY FS_CardinalityType
<1>2. S # {}
  BY <1>1, FS_EmptySet
<1>3. Max(S) \in S /\ \A n \in S : n <= Max(S)
  BY <1>2, GreatestExists
<1>4. Rank(S, Max(S)) = Cardinality(S)
  <2>1. {j \in S : j <= Max(S)} = S
    BY <1>3
  <2> QED BY <2>1 DEF Rank
<1>5. Max(S) \in Reach
  <2>1. Max(S) \in Nat /\ Rank(S, Max(S)) >= k
    BY <1>1, <1>3, <1>4
  <2> QED BY <2>1
<1>6. Min(Reach) \in Reach /\ \A n \in Reach : Min(Reach) <= n
  BY <1>5, LeastExists
<1> DEFINE m == Min(Reach)
<1>7. m \in Nat /\ Rank(S, m) >= k /\ \A n \in Nat : Rank(S, n) >= k => m <= n
  BY <1>6
<1> HIDE DEF m, Reach
<1>8. Rank(S, m) \in Nat /\ Rank(S, m - 1) \in Nat
      /\ Rank(S, m) = Rank(S, m - 1) + IF m \in S THEN 1 ELSE 0
  <2>1. Rank(S, m) \in 0..Cardinality(S) /\ Rank(S, m - 1) \in 0..Cardinality(S)
        /\ Rank(S, m) = Rank(S, m - 1) + IF m \in S THEN 1 ELSE 0
    BY <1>7, RankStep
  <2> QED BY <1>1, <2>1
<1>9. Rank(S, m - 1) < k
  <2>1. CASE m = 0
    <3>1. {j \in S : j <= m - 1} = {}
      BY <2>1
    <3> QED BY <1>1, <3>1, FS_EmptySet DEF Rank
  <2>2. CASE m # 0
    <3>1. m - 1 \in Nat /\ ~(m <= m - 1)
      BY <1>7, <2>2
    <3> QED BY <1>1, <1>7, <1>8, <3>1
  <2> QED BY <2>1, <2>2
<1>10. m \in S /\ Rank(S, m) = k
  BY <1>1, <1>7, <1>8, <1>9
<1> QED BY <1>10

\* Sorted has each member at its rank, and nothing else.
LEMMA SortedByRank ==
  ASSUME NEW S, IsFiniteSet(S), \A n \in S : n \in Nat
  PROVE  /\ DOMAIN Sorted(S) = 1..Cardinality(S) /\ Cardinality(S) \in Nat
         /\ \A k \in 1..Cardinality(S) : Sorted(S)[k] \in S /\ Rank(S, Sorted(S)[k]) = k
         /\ \A i \in S : /\ Rank(S, i) \in 1..Cardinality(S)
                         /\ Sorted(S)[Rank(S, i)] = i
<1>1. DOMAIN Sorted(S) = 1..Cardinality(S) /\ Cardinality(S) \in Nat
  BY FS_CardinalityType DEF Sorted
<1>2. ASSUME NEW k \in 1..Cardinality(S)
      PROVE  Sorted(S)[k] \in S /\ Rank(S, Sorted(S)[k]) = k
  <2>1. Sorted(S)[k] = CHOOSE i \in S : Rank(S, i) = k
    BY DEF Sorted, Rank
  <2>2. \E i \in S : Rank(S, i) = k
    BY RankReached
  <2> QED BY <2>1, <2>2
<1>3. ASSUME NEW i \in S
      PROVE  Rank(S, i) \in 1..Cardinality(S) /\ Sorted(S)[Rank(S, i)] = i
  <2>1. i \in Int /\ i - 1 \in Int
    OBVIOUS
  <2>2. Rank(S, i) \in 1..Cardinality(S)
    <3>1. Rank(S, i) \in 0..Cardinality(S) /\ Rank(S, i - 1) \in 0..Cardinality(S)
          /\ Rank(S, i) = Rank(S, i - 1) + 1
      BY <2>1, RankStep
    <3> QED BY <1>1, <3>1
  <2> DEFINE n == Sorted(S)[Rank(S, i)]
  <2>3. n \in S /\ Rank(S, n) = Rank(S, i)
    BY <1>2, <2>2
  <2> HIDE DEF n
  <2>4. n \in Int /\ Rank(S, i) \in Int
    BY <1>1, <2>2, <2>3
  <2>5. ~(n < i)
    <3>1. n < i => n <= i
      BY <2>1, <2>4
    <3>2. n < i => Rank(S, n) < Rank(S, i)
      BY <2>1, <2>4, <3>1, RankGrows, Zenon
    <3> QED BY <2>3, <2>4, <3>2
  <2>6. ~(i < n)
    <3>1. i < n => i <= n
      BY <2>1, <2>4
    <3>2. i < n => Rank(S, i) < Rank(S, n)
      BY <2>1, <2>3, <2>4, <3>1, RankGrows, Zenon
    <3> QED BY <2>3, <2>4, <3>2
  <2>7. n = i
    BY <2>1, <2>4, <2>5, <2>6
  <2> QED BY <2>2, <2>7 DEF n
<1> QED BY <1>1, <1>2, <1>3
-----------------------------------------------------------------------------
\* T has up to d what S has after s.
Shifted(S, T, s, d) == \A n \in 1..d : n \in T <=> s + n \in S

\* A part of a set seen from a place has the ranks of the set, less those before.
LEMMA RankShift ==
  ASSUME NEW S, IsFiniteSet(S), \A n \in S : n \in Nat,
         NEW T, IsFiniteSet(T), \A n \in T : n \in Nat \ {0},
         NEW s \in Nat, NEW d \in Nat, Shifted(S, T, s, d),
         NEW i \in 0..d
  PROVE  Rank(T, i) = Rank(S, s + i) - Rank(S, s)
<1> DEFINE Off == {n \in Nat : n <= d /\ Rank(T, n) # Rank(S, s + n) - Rank(S, s)}
<1>1. /\ \A n \in Int : Rank(S, n) \in Int /\ Rank(T, n) \in Int
      /\ \A n \in Int : Rank(S, n) = Rank(S, n - 1) + IF n \in S THEN 1 ELSE 0
      /\ \A n \in Int : Rank(T, n) = Rank(T, n - 1) + IF n \in T THEN 1 ELSE 0
  <2>1. Cardinality(S) \in Nat /\ Cardinality(T) \in Nat
    BY FS_CardinalityType
  <2>2. \A n \in T : n \in Nat
    OBVIOUS
  <2> QED BY <2>1, <2>2, RankStep
<1>2. SUFFICES ASSUME Off # {} PROVE FALSE
  <2>1. i \in Nat /\ i <= d
    OBVIOUS
  <2> QED BY <2>1
<1>3. Min(Off) \in Off /\ \A n \in Off : Min(Off) <= n
  BY <1>2, LeastExists
<1> DEFINE m == Min(Off)
<1>4. /\ m \in Nat /\ m <= d /\ Rank(T, m) # Rank(S, s + m) - Rank(S, s)
      /\ m - 1 \in Nat => Rank(T, m - 1) = Rank(S, s + (m - 1)) - Rank(S, s)
  <2>1. m \in Nat /\ m <= d /\ Rank(T, m) # Rank(S, s + m) - Rank(S, s)
    BY <1>3
  <2>2. m - 1 \in Nat => m - 1 <= d /\ m - 1 \notin Off
    BY <1>3, <2>1
  <2> QED BY <2>1, <2>2
<1> HIDE DEF m, Off
<1>5. CASE m = 0
  <2>1. {j \in T : j <= 0} = {}
    OBVIOUS
  <2>2. Rank(T, 0) = 0
    BY <2>1, FS_EmptySet DEF Rank
  <2> QED BY <1>1, <1>4, <1>5, <2>2
<1>6. CASE m # 0
  <2>1. m - 1 \in Nat /\ m \in 1..d /\ s + m \in Int /\ s \in Int /\ m \in Int
        /\ s + (m - 1) = s + m - 1
    BY <1>4, <1>6
  <2>2. m \in T <=> s + m \in S
    BY <2>1 DEF Shifted
  <2>3. Rank(T, m - 1) = Rank(S, s + m - 1) - Rank(S, s)
    BY <1>4, <2>1
  <2>4. /\ Rank(T, m) = Rank(T, m - 1) + IF m \in T THEN 1 ELSE 0
        /\ Rank(S, s + m) = Rank(S, s + m - 1) + IF s + m \in S THEN 1 ELSE 0
    BY <1>1, <2>1
  <2>5. Rank(T, m - 1) \in Int /\ Rank(S, s + m - 1) \in Int /\ Rank(S, s) \in Int
    <3>1. s + m - 1 \in Int /\ m - 1 \in Int
      BY <2>1
    <3> QED BY <1>1, <2>1, <3>1
  <2>6. Rank(T, m) = Rank(S, s + m) - Rank(S, s)
    BY <2>2, <2>3, <2>4, <2>5
  <2> QED BY <1>4, <2>6
<1> QED BY <1>5, <1>6
-----------------------------------------------------------------------------
\* A character that is no space stays one, and every space becomes a plain one.
LEMMA FoldKeeps ==
  ASSUME NEW c
  PROVE  /\ c \notin Spaces => Fold(c) \notin Spaces
         /\ c \in Spaces => Fold(c) = " "
         /\ " " \in Spaces
BY WordsAssumption, SpacesAssumption DEF Fold

\* Where a text has no space.
Solid(text) == {i \in 1..Len(text) : text[i] \notin Spaces}

\* What is kept of a text.
LEMMA KeptPlaces ==
  ASSUME NEW C, NEW text \in Seq(C)
  PROVE  /\ Kept(text) = {i \in 1..Len(text) :
                            \/ i \in Solid(text)
                            \/ i - 1 \in Solid(text) /\ \E j \in Solid(text) : j > i}
         /\ IsFiniteSet(Kept(text))
         /\ \A i \in Kept(text) : i \in Nat \ {0} /\ i \in 1..Len(text)
<1>1. DOMAIN text = 1..Len(text) /\ Len(text) \in Nat
  OBVIOUS
<1>2. Kept(text) = {i \in 1..Len(text) :
                      \/ i \in Solid(text)
                      \/ i - 1 \in Solid(text) /\ \E j \in Solid(text) : j > i}
  BY <1>1 DEF Kept, Solid
<1>3. Kept(text) \in SUBSET (1..Len(text))
  BY <1>2
<1>4. IsFiniteSet(1..Len(text))
  BY <1>1, FS_Interval
<1>5. IsFiniteSet(Kept(text))
  BY <1>3, <1>4, FS_Subset
<1> QED BY <1>1, <1>2, <1>3, <1>5

\* What a text is normalized to, at the rank of each place that is kept.
LEMMA NormalizeByRank ==
  ASSUME NEW C, NEW text \in Seq(C)
  PROVE  /\ Normalize(text) \in Seq({Fold(c) : c \in C})
         /\ Len(Normalize(text)) = Cardinality(Kept(text))
         /\ Cardinality(Kept(text)) \in Nat
         /\ \A i \in Kept(text) : /\ Rank(Kept(text), i) \in 1..Cardinality(Kept(text))
                                  /\ Normalize(text)[Rank(Kept(text), i)] = Fold(text[i])
<1> DEFINE K == Kept(text)
           n == Cardinality(K)
           D == {Fold(c) : c \in C}
<1>1. IsFiniteSet(K) /\ \A i \in K : i \in Nat /\ i \in 1..Len(text)
  BY KeptPlaces
<1>2. /\ DOMAIN Sorted(K) = 1..n /\ n \in Nat
      /\ \A k \in 1..n : Sorted(K)[k] \in K
      /\ \A i \in K : Rank(K, i) \in 1..n /\ Sorted(K)[Rank(K, i)] = i
  BY <1>1, SortedByRank
<1>3. Normalize(text) = [k \in 1..n |-> Fold(text[Sorted(K)[k]])]
  BY <1>2 DEF Normalize
<1> HIDE DEF K, n
<1>4. \A k \in 1..n : Fold(text[Sorted(K)[k]]) \in D
  <2> TAKE k \in 1..n
  <2>1. text[Sorted(K)[k]] \in C
    BY <1>1, <1>2
  <2> QED BY <2>1
<1> HIDE DEF D
<1>5. Normalize(text) \in [1..n -> D]
  BY <1>3, <1>4
<1>6. Normalize(text) \in Seq(D) /\ Len(Normalize(text)) = n
  BY <1>2, <1>5
<1>7. \A i \in K : Normalize(text)[Rank(K, i)] = Fold(text[i])
  BY <1>2, <1>3
<1> QED BY <1>2, <1>6, <1>7 DEF K, n, D

\* A normalized text neither starts nor ends with a space.
LEMMA NormalizedEnds ==
  ASSUME NEW C, NEW text \in Seq(C), Len(Normalize(text)) > 0
  PROVE  /\ Normalize(text)[1] \notin Spaces
         /\ Normalize(text)[Len(Normalize(text))] \notin Spaces
<1> DEFINE K == Kept(text)
           n == Cardinality(K)
<1>1. /\ Len(Normalize(text)) = n /\ n \in Nat
      /\ \A i \in K : Normalize(text)[Rank(K, i)] = Fold(text[i])
  BY NormalizeByRank
<1>2. /\ K = {i \in 1..Len(text) : \/ i \in Solid(text)
                                   \/ i - 1 \in Solid(text) /\ \E j \in Solid(text) : j > i}
      /\ IsFiniteSet(K) /\ \A i \in K : i \in Nat
  BY KeptPlaces
<1>3. Solid(text) \subseteq K
  BY <1>2 DEF Solid
<1>4. \A i \in K : Rank(K, i) \in 1..n
  BY NormalizeByRank
<1> HIDE DEF K, n
<1>5. \A i \in K, j \in K : i < j => Rank(K, i) < Rank(K, j)
  <2> SUFFICES ASSUME NEW i \in K, NEW j \in K, i < j PROVE Rank(K, i) < Rank(K, j)
    OBVIOUS
  <2>1. i \in Int /\ j \in Int /\ i <= j
    BY <1>2
  <2> QED BY <1>2, <2>1, RankGrows
<1>6. \A i \in K : Rank(K, i) = 1 => i \in Solid(text)
  <2> SUFFICES ASSUME NEW i \in K, Rank(K, i) = 1, i \notin Solid(text) PROVE FALSE
    OBVIOUS
  <2>1. i - 1 \in K /\ i - 1 < i
    <3>1. i - 1 \in Solid(text)
      BY <1>2
    <3>2. i - 1 \in K
      BY <1>3, <3>1
    <3>3. i \in Nat
      BY <1>2
    <3> QED BY <3>2, <3>3
  <2>2. Rank(K, i - 1) < Rank(K, i) /\ Rank(K, i - 1) \in 1..n
    BY <1>4, <1>5, <2>1
  <2> QED BY <2>2
<1>7. \A i \in K : Rank(K, i) = n => i \in Solid(text)
  <2> SUFFICES ASSUME NEW i \in K, Rank(K, i) = n, i \notin Solid(text) PROVE FALSE
    OBVIOUS
  <2>1. PICK j \in Solid(text) : j > i
    BY <1>2
  <2>2. j \in K /\ i < j
    BY <1>2, <1>3, <2>1
  <2>3. Rank(K, i) < Rank(K, j) /\ Rank(K, j) \in 1..n
    BY <1>4, <1>5, <2>2
  <2> QED BY <1>1, <2>3
<1>8. ASSUME NEW k \in 1..n, \A i \in K : Rank(K, i) = k => i \in Solid(text)
      PROVE  Normalize(text)[k] \notin Spaces
  <2>1. PICK i \in K : Rank(K, i) = k
    BY <1>2, RankReached DEF n
  <2>2. text[i] \notin Spaces
    BY <1>8, <2>1 DEF Solid
  <2> QED BY <1>1, <2>1, <2>2, FoldKeeps
<1>9. 1 \in 1..n /\ n \in 1..n
  BY <1>1
<1> QED BY <1>1, <1>6, <1>7, <1>8, <1>9

\* The spaces before the first character that is none are skipped.
LEMMA LeadingSpaces ==
  ASSUME NEW C, NEW text \in Seq(C), Plain(text), Solid(text) # {}
  PROVE  /\ Leading(text) \in Nat /\ Leading(text) + 1 \in Solid(text)
         /\ \A j \in 1..Leading(text) : text[j] \in Spaces
<1> DEFINE S == {i \in 0..Len(text) : i = Len(text) \/ text[i + 1] \notin PlainSpaces}
           m == Leading(text)
<1>1. Len(text) \in Nat
  OBVIOUS
<1>2. PICK z \in Solid(text) : TRUE
  OBVIOUS
<1>3. z \in 1..Len(text) /\ text[z] \notin Spaces
  BY <1>2 DEF Solid
<1>4. z - 1 \in S /\ z - 1 < Len(text)
  <2>1. z - 1 \in 0..Len(text) /\ (z - 1) + 1 = z /\ z - 1 < Len(text)
    BY <1>1, <1>3
  <2>2. text[z] \notin PlainSpaces
    BY <1>3, SpacesAssumption
  <2> QED BY <2>1, <2>2
<1>5. S \in SUBSET Nat /\ S # {}
  BY <1>1, <1>4
<1>6. m \in S /\ \A i \in S : m <= i
  <2>1. m = Min(S)
    BY DEF Leading
  <2> HIDE DEF S, m
  <2> QED BY <1>5, <2>1, LeastExists
<1>7. m \in Nat /\ m < Len(text) /\ text[m + 1] \notin PlainSpaces
  <2>1. m <= z - 1 /\ m \in 0..Len(text)
    BY <1>4, <1>6
  <2>2. m < Len(text)
    BY <1>1, <1>3, <2>1
  <2> QED BY <1>1, <1>6, <2>2
<1>8. m + 1 \in Solid(text)
  BY <1>1, <1>7 DEF Solid, Plain
<1>9. ASSUME NEW j \in 1..m PROVE text[j] \in Spaces
  <2>1. j - 1 \in 0..Len(text) /\ (j - 1) + 1 = j /\ ~(m <= j - 1)
    BY <1>1, <1>7
  <2>2. j - 1 \notin S
    BY <1>6, <2>1
  <2>3. text[j] \in PlainSpaces
    BY <2>1, <2>2
  <2> QED BY <2>3, SpacesAssumption
<1> QED BY <1>7, <1>8, <1>9

\* What is counted is what is kept, up to the last character that is no space.
LEMMA WalkedIsRank ==
  ASSUME NEW C, NEW text \in Seq(C), Plain(text), Solid(text) # {},
         NEW i \in Leading(text)..Len(text),
         i = Leading(text) \/ \E z \in Solid(text) : i <= z
  PROVE  Walked(text, i) = Rank(Kept(text), i)
<1> DEFINE K == Kept(text)
           first == Leading(text) + 1
<1>1. /\ Leading(text) \in Nat /\ first \in Solid(text)
      /\ \A j \in 1..Leading(text) : text[j] \in Spaces
  BY LeadingSpaces
<1>2. /\ K = {j \in 1..Len(text) : \/ j \in Solid(text)
                                   \/ j - 1 \in Solid(text) /\ \E z \in Solid(text) : z > j}
      /\ \A j \in K : j \in Nat \ {0} /\ j \in 1..Len(text)
  BY KeptPlaces
<1>3. Len(text) \in Nat /\ first \in Nat \ {0} /\ i \in Nat /\ i <= Len(text)
  BY <1>1
<1> HIDE DEF K, first
<1> DEFINE In(j) == \/ text[j] \notin PlainSpaces
                    \/ j = first
                    \/ text[j - 1] \notin PlainSpaces
<1>4. ASSUME NEW j \in first..i, In(j) PROVE j \in K
  <2>1. j \in 1..Len(text) /\ j \in Nat
    BY <1>3
  <2>2. CASE text[j] \notin Spaces
    BY <1>2, <2>1, <2>2 DEF Solid
  <2>3. CASE text[j] \in Spaces
    <3>1. j # first
      BY <1>1, <2>3 DEF Solid, first
    <3>2. text[j] \in PlainSpaces
      BY <2>1, <2>3 DEF Plain
    <3>3. text[j - 1] \notin PlainSpaces
      BY <1>4, <3>1, <3>2
    <3>4. j - 1 \in 1..Len(text)
      BY <1>3, <2>1, <3>1
    <3>5. j - 1 \in Solid(text)
      BY <3>3, <3>4 DEF Plain, Solid
    <3>6. i # Leading(text)
      <4>1. first <= i
        BY <1>3
      <4> QED BY <1>1, <1>3, <4>1 DEF first
    <3>7. PICK z \in Solid(text) : i <= z
      BY <3>6
    <3>8. z \in 1..Len(text) /\ z # j
      BY <2>3, <3>7 DEF Solid
    <3>9. z > j
      BY <1>3, <3>7, <3>8
    <3> QED BY <1>2, <2>1, <3>5, <3>9
  <2> QED BY <2>2, <2>3
<1>5. ASSUME NEW j \in K, j <= i PROVE j \in first..i /\ In(j)
  <2>1. j \in Nat \ {0} /\ j \in 1..Len(text)
    BY <1>2
  <2>2. j \in Solid(text) \/ j - 1 \in Solid(text)
    BY <1>2
  <2>3. \A n \in Solid(text) : n \in 1..Len(text) /\ text[n] \notin Spaces
    BY DEF Solid
  <2>4. \A n \in Solid(text) : n >= first /\ text[n] \notin PlainSpaces
    <3> TAKE n \in Solid(text)
    <3>1. n \in 1..Len(text) /\ text[n] \notin Spaces
      BY <2>3
    <3>2. n \notin 1..Leading(text)
      BY <1>1, <3>1
    <3>3. n >= Leading(text) + 1
      BY <1>1, <3>1, <3>2
    <3> QED BY <3>1, <3>3, SpacesAssumption DEF first
  <2>5. j >= first
    <3>1. j - 1 >= first => j >= first
      BY <1>3, <2>1
    <3> QED BY <2>2, <2>4, <3>1
  <2>6. j \in first..i
    BY <1>3, <1>5, <2>1, <2>5
  <2> QED BY <2>2, <2>4, <2>6
<1>6. {j \in first..i : In(j)} = {j \in K : j <= i}
  <2>1. \A j \in first..i : j <= i
    BY <1>3
  <2> QED BY <1>4, <1>5, <2>1
<1>7. Walked(text, i) = Cardinality({j \in first..i : In(j)})
  BY DEF Walked, first
<1> QED BY <1>6, <1>7 DEF Rank, K

\* Walking until n characters are counted ends at the character of rank n, or before
\* the first one.
LEMMA MapPositionByRank ==
  ASSUME NEW C, NEW text \in Seq(C), Plain(text), Solid(text) # {},
         NEW n \in 0..Cardinality(Kept(text))
  PROVE  /\ MapPosition(text, n) \in 0..Len(text)
         /\ Rank(Kept(text), MapPosition(text, n)) = n
         /\ n > 0 => MapPosition(text, n) \in Kept(text)
         /\ n = 0 => MapPosition(text, n) \notin Solid(text)
<1> DEFINE K == Kept(text)
           low == Leading(text)
           S == {i \in low..Len(text) : i = Len(text) \/ Walked(text, i) >= n}
           m == MapPosition(text, n)
<1>1. /\ low \in Nat /\ low + 1 \in Solid(text)
      /\ \A j \in 1..low : text[j] \in Spaces
  BY LeadingSpaces
<1>2. /\ K = {j \in 1..Len(text) : \/ j \in Solid(text)
                                   \/ j - 1 \in Solid(text) /\ \E z \in Solid(text) : z > j}
      /\ IsFiniteSet(K) /\ \A j \in K : j \in Nat /\ j \in 1..Len(text)
  BY KeptPlaces
<1>3. Len(text) \in Nat /\ low + 1 \in 1..Len(text) /\ low < Len(text)
  BY <1>1 DEF Solid
<1>4. m = Min(S)
  BY DEF MapPosition
<1>5. S \in SUBSET Nat
  BY <1>1, <1>3
<1>6. \A s \in S : (\A i \in S : s <= i) => Min(S) = s
  <2> SUFFICES ASSUME NEW s \in S, \A i \in S : s <= i PROVE Min(S) = s
    OBVIOUS
  <2>1. Min(S) \in S /\ \A i \in S : Min(S) <= i
    BY <1>5, LeastExists
  <2>2. Min(S) \in Nat /\ s \in Nat
    BY <1>5, <2>1
  <2> QED BY <2>1, <2>2
<1>7. CASE n = 0
  <2>1. Walked(text, low) = 0 /\ Rank(K, low) = 0
    <3>1. (low + 1)..low = {}
      BY <1>1
    <3>2. Walked(text, low) = 0
      BY <3>1, FS_EmptySet DEF Walked
    <3>3. low \in low..Len(text)
      BY <1>1, <1>3
    <3> QED BY <3>2, <3>3, WalkedIsRank
  <2>2. low \in S /\ \A i \in S : low <= i
    BY <1>1, <1>3, <1>7, <2>1
  <2>3. m = low
    BY <1>4, <1>6, <2>2
  <2>4. low \notin Solid(text)
    BY <1>1 DEF Solid
  <2>5. low \in 0..Len(text)
    BY <1>1, <1>3
  <2> QED BY <1>7, <2>1, <2>3, <2>4, <2>5
<1>8. CASE n # 0
  <2>1. n \in 1..Cardinality(K)
    BY <1>8
  <2>2. PICK o \in K : Rank(K, o) = n
    BY <1>2, <2>1, RankReached
  <2>3. o \in 1..Len(text) /\ \E z \in Solid(text) : o <= z
    <3>1. o \in 1..Len(text)
      BY <1>2
    <3>2. CASE o \in Solid(text)
      BY <3>1, <3>2
    <3>3. ASSUME NEW z \in Solid(text), z > o PROVE \E y \in Solid(text) : o <= y
      <4>1. z \in 1..Len(text)
        BY DEF Solid
      <4> QED BY <3>1, <3>3, <4>1
    <3> QED BY <1>2, <3>1, <3>2, <3>3
  <2>4. o >= low + 1
    <3>1. \A x \in Solid(text) : x \in Nat /\ x >= low + 1
      <4> TAKE x \in Solid(text)
      <4>1. x \in 1..Len(text) /\ text[x] \notin Spaces
        BY DEF Solid
      <4>2. x \notin 1..low
        BY <1>1, <4>1
      <4> QED BY <1>1, <4>1, <4>2
    <3>2. o \in Solid(text) \/ o - 1 \in Solid(text)
      BY <1>2
    <3>3. o \in Nat /\ (o - 1 >= low + 1 => o >= low + 1)
      BY <1>1, <2>3
    <3> QED BY <3>1, <3>2, <3>3
  <2>5. o \in low..Len(text)
    BY <1>1, <1>3, <2>3, <2>4
  <2>6. Walked(text, o) = n
    BY <2>2, <2>3, <2>5, WalkedIsRank
  <2>7. o \in S
    <3>1. n >= n
      BY <2>1
    <3> QED BY <2>5, <2>6, <3>1
  <2>8. ASSUME NEW i \in S PROVE o <= i
    <3>1. SUFFICES ASSUME i < o PROVE FALSE
      BY <1>1, <1>3, <2>3
    <3>2. i \in low..Len(text) /\ i \in Int /\ o \in Int /\ i <= o /\ i # Len(text)
      BY <1>1, <1>3, <2>3, <3>1
    <3>3. \E z \in Solid(text) : i <= z
      <4>1. PICK z \in Solid(text) : o <= z
        BY <2>3
      <4>2. z \in Int
        BY DEF Solid
      <4> QED BY <3>2, <4>1, <4>2
    <3>4. Walked(text, i) = Rank(K, i)
      BY <3>2, <3>3, WalkedIsRank
    <3>5. Rank(K, i) < Rank(K, o)
      BY <1>2, <3>1, <3>2, RankGrows
    <3>6. Rank(K, i) \in 0..Cardinality(K)
      BY <1>2, <3>2, RankStep
    <3>7. Walked(text, i) >= n
      BY <3>2
    <3> QED BY <2>1, <2>2, <3>4, <3>5, <3>6, <3>7
  <2>9. m = o
    BY <1>4, <1>6, <2>7, <2>8
  <2>10. o \in 0..Len(text)
    BY <1>3, <2>3
  <2> QED BY <1>8, <2>2, <2>9, <2>10
<1> QED BY <1>7, <1>8

\* What a slice holds.
LEMMA SlicePlaces ==
  ASSUME NEW C, NEW text \in Seq(C), NEW s \in 0..Len(text), NEW e \in s..Len(text)
  PROVE  LET part == Slice(text, <<s, e>>)
         IN  /\ part \in Seq(C) /\ Len(part) = e - s
             /\ \A i \in 1..e - s : part[i] = text[s + i]
<1> DEFINE part == SubSeq(text, s + 1, e)
<1>1. s \in Nat /\ e \in Nat /\ Len(text) \in Nat
  OBVIOUS
<1>2. Slice(text, <<s, e>>) = part
  BY DEF Slice
<1>3. \A i \in (s + 1)..e : text[i] \in C
  BY <1>1
<1>4. s + 1 \in Int /\ e \in Int
  BY <1>1
<1>5. /\ part \in Seq(C)
      /\ Len(part) = IF s + 1 <= e THEN e - (s + 1) + 1 ELSE 0
      /\ \A i \in 1..(e - (s + 1) + 1) : part[i] = text[(s + 1) + i - 1]
  BY <1>3, <1>4, SubSeqProperties
<1> HIDE DEF part
<1>6. Len(part) = e - s /\ e - (s + 1) + 1 = e - s
  BY <1>1, <1>5
<1>7. \A i \in 1..e - s : (s + 1) + i - 1 = s + i
  BY <1>1
<1>8. \A i \in 1..e - s : part[i] = text[s + i]
  BY <1>5, <1>6, <1>7
<1> QED BY <1>2, <1>5, <1>6, <1>8

\* The part of a text from a place to another that is no space keeps what the text
\* keeps there, unless it starts with the space after a character.
LEMMA SliceKeeps ==
  ASSUME NEW C, NEW text \in Seq(C), NEW s \in 0..Len(text), NEW e \in Solid(text), s < e,
         s \in Solid(text) => s + 1 \in Solid(text)
  PROVE  LET part == Slice(text, <<s, e>>)
         IN  /\ part \in Seq(C) /\ Len(part) = e - s
             /\ \A i \in 1..e - s : /\ part[i] = text[s + i]
                                    /\ i \in Kept(part) <=> s + i \in Kept(text)
<1> DEFINE part == Slice(text, <<s, e>>)
           d == e - s
<1>1. e \in 1..Len(text) /\ Len(text) \in Nat /\ s \in Nat /\ e \in Nat
  BY DEF Solid
<1>3. /\ part \in Seq(C) /\ Len(part) = d /\ d \in Nat /\ d > 0
      /\ \A i \in 1..d : part[i] = text[s + i]
  <2>1. s \in 0..Len(text) /\ e \in s..Len(text)
    BY <1>1
  <2> QED BY <1>1, <2>1, SlicePlaces
<1> HIDE DEF part
<1>4. \A i \in 1..d : i \in Solid(part) <=> s + i \in Solid(text)
  <2> TAKE i \in 1..d
  <2>1. s + i \in 1..Len(text) /\ i \in 1..Len(part)
    BY <1>1, <1>3
  <2> QED BY <1>3, <2>1 DEF Solid
<1>5. \A i \in Int : i \in Solid(part) <=> i \in 1..d /\ s + i \in Solid(text)
  <2> TAKE i \in Int
  <2>1. i \in Solid(part) => i \in 1..d
    BY <1>3 DEF Solid
  <2> QED BY <1>4, <2>1
<1>6. d \in Solid(part)
  <2>1. s + d = e /\ d \in 1..d
    BY <1>1, <1>3
  <2> QED BY <1>4, <2>1
<1>7. /\ Kept(text) = {i \in 1..Len(text) :
                         \/ i \in Solid(text)
                         \/ i - 1 \in Solid(text) /\ \E j \in Solid(text) : j > i}
      /\ Kept(part) = {i \in 1..Len(part) :
                         \/ i \in Solid(part)
                         \/ i - 1 \in Solid(part) /\ \E j \in Solid(part) : j > i}
  BY <1>3, KeptPlaces
<1>8. ASSUME NEW i \in 1..d, i \in Kept(part) PROVE s + i \in Kept(text)
  <2>1. s + i \in 1..Len(text) /\ i \in Int
    BY <1>1, <1>3
  <2>2. CASE i \in Solid(part)
    BY <1>5, <1>7, <2>1, <2>2
  <2>3. ASSUME i - 1 \in Solid(part), NEW j \in Solid(part), j > i
        PROVE  s + i \in Kept(text)
    <3>1. i - 1 \in Int /\ j \in Int /\ s + (i - 1) = s + i - 1
      BY <1>1, <2>1 DEF Solid
    <3>2. s + i - 1 \in Solid(text) /\ s + j \in Solid(text)
      BY <1>5, <2>3, <3>1
    <3>3. s + j > s + i
      BY <1>1, <2>1, <2>3, <3>1
    <3> QED BY <1>7, <2>1, <3>2, <3>3
  <2> QED BY <1>7, <1>8, <2>2, <2>3
<1>9. ASSUME NEW i \in 1..d, s + i \in Kept(text) PROVE i \in Kept(part)
  <2>1. s + i \in Int /\ i \in Int /\ i \in 1..Len(part)
    BY <1>1, <1>3
  <2>2. CASE s + i \in Solid(text)
    BY <1>4, <1>7, <2>1, <2>2
  <2>3. CASE s + i \notin Solid(text) /\ s + i - 1 \in Solid(text)
    <3>1. i # 1
      <4>1. i = 1 => s + i - 1 = s /\ s + i = s + 1
        BY <1>1
      <4> QED BY <2>3, <4>1
    <3>2. i - 1 \in 1..d /\ s + (i - 1) = s + i - 1 /\ i - 1 \in Int
      BY <1>1, <1>3, <3>1
    <3>3. i - 1 \in Solid(part)
      BY <1>5, <2>3, <3>2
    <3>4. i # d
      <4>1. s + d = e
        BY <1>1
      <4> QED BY <2>3, <4>1
    <3>5. d > i
      BY <1>3, <3>4
    <3> QED BY <1>6, <1>7, <2>1, <3>3, <3>5
  <2> QED BY <1>7, <1>9, <2>2, <2>3
<1> QED BY <1>3, <1>8, <1>9 DEF part

\* ... and is normalized to what the text is normalized to there.
LEMMA SliceNormalized ==
  ASSUME NEW C, NEW text \in Seq(C), NEW s \in 0..Len(text), NEW e \in Solid(text), s < e,
         s \in Solid(text) => s + 1 \in Solid(text)
  PROVE  LET part == Slice(text, <<s, e>>)
             p    == Rank(Kept(text), s)
         IN  /\ Len(Normalize(part)) = Rank(Kept(text), e) - p
             /\ \A k \in 1..Len(Normalize(part)) :
                  Normalize(part)[k] = Normalize(text)[p + k]
<1> DEFINE part == Slice(text, <<s, e>>)
           d == e - s
           K == Kept(text)
           H == Kept(part)
           p == Rank(K, s)
<1>1. /\ e \in 1..Len(text) /\ Len(text) \in Nat /\ s \in Nat /\ e \in Nat
      /\ d \in Nat /\ d > 0 /\ s + d = e
  BY DEF Solid
<1>2. /\ part \in Seq(C) /\ Len(part) = d
      /\ \A i \in 1..d : part[i] = text[s + i]
      /\ \A i \in 1..d : i \in H <=> s + i \in K
  BY SliceKeeps
<1>3. IsFiniteSet(K) /\ \A i \in K : i \in Nat
  BY KeptPlaces
<1> HIDE DEF part, d
<1>4. IsFiniteSet(H) /\ \A i \in H : i \in Nat \ {0} /\ i \in 1..d
  BY <1>2, KeptPlaces
<1>5. /\ Len(Normalize(part)) = Cardinality(H) /\ Cardinality(H) \in Nat
      /\ \A i \in H : /\ Rank(H, i) \in 1..Cardinality(H)
                      /\ Normalize(part)[Rank(H, i)] = Fold(part[i])
  BY <1>2, NormalizeByRank
<1>6. \A i \in K : /\ Rank(K, i) \in 1..Cardinality(K)
                   /\ Normalize(text)[Rank(K, i)] = Fold(text[i])
  BY NormalizeByRank
<1> HIDE DEF K, H
<1>7. \A n \in 0..d : Rank(H, n) = Rank(K, s + n) - p
  <2> TAKE n \in 0..d
  <2>1. \A i \in H : i \in Nat \ {0}
    BY <1>4
  <2>2. Shifted(K, H, s, d)
    BY <1>2 DEF Shifted
  <2>3. IsFiniteSet(H) /\ s \in Nat /\ d \in Nat
    BY <1>1, <1>4
  <2>4. \A m \in 0..d : Rank(H, m) = Rank(K, s + m) - Rank(K, s)
    BY <1>3, <2>1, <2>2, <2>3, RankShift
  <2> QED BY <2>4
<1>8. Cardinality(H) = Rank(K, e) - p
  <2>1. {j \in H : j <= d} = H
    BY <1>1, <1>4
  <2>2. Rank(H, d) = Cardinality(H)
    BY <2>1 DEF Rank
  <2>3. d \in 0..d
    BY <1>1
  <2> QED BY <1>1, <1>7, <2>2, <2>3
<1>9. ASSUME NEW k \in 1..Cardinality(H)
      PROVE  Normalize(part)[k] = Normalize(text)[p + k]
  <2>1. PICK i \in H : Rank(H, i) = k
    BY <1>4, RankReached
  <2>2. i \in 1..d /\ s + i \in K /\ i \in 0..d
    BY <1>2, <1>4
  <2>3. k = Rank(K, s + i) - p
    BY <1>7, <2>1, <2>2
  <2>4. Rank(K, s + i) \in Int /\ p \in Int
    <3>1. s \in Int
      BY <1>1
    <3>2. p \in 0..Cardinality(K)
      BY <1>3, <3>1, RankStep
    <3> QED BY <1>6, <2>2, <3>2
  <2>5. p + k = Rank(K, s + i)
    BY <2>3, <2>4
  <2>6. Normalize(part)[k] = Fold(part[i])
    BY <1>5, <2>1
  <2>7. Normalize(text)[p + k] = Fold(text[s + i])
    BY <1>6, <2>2, <2>5
  <2> QED BY <1>2, <2>2, <2>6, <2>7
<1> QED BY <1>5, <1>8, <1>9 DEF part, K, H

\* A span that fits the text and says the claim.
Locates(span, claim, text) ==
  \E s, e \in Nat : /\ span = <<s, e>> /\ s < e /\ e <= Len(text)
                    /\ Says(Slice(text, <<s, e>>), claim)

\* A claim that is in the text up to case and spaces is mapped to a part of the text
\* that is the claim up to case and spaces.
LEMMA NormalizedSays ==
  ASSUME NEW C, NEW text \in Seq(C), NEW claim \in Seq(C), Plain(text),
         Quoted(claim, text)
  PROVE  Locates(NormalizedSpan(claim, text), claim, text)
<1> DEFINE quote == Normalize(claim)
           whole == Normalize(text)
           K     == Kept(text)
           D     == {Fold(c) : c \in C}
           at    == Min(Occurrences(whole, quote))
           s     == MapPosition(text, at)
           e     == MapPosition(text, at + Len(quote))
           part  == Slice(text, <<s, e>>)
<1>1. /\ whole \in Seq(D) /\ Len(whole) = Cardinality(K) /\ Len(whole) \in Nat
      /\ \A i \in K : whole[Rank(K, i)] = Fold(text[i])
  BY NormalizeByRank
<1>2. quote \in Seq(D) /\ Len(quote) \in Nat
  BY NormalizeByRank
<1>3. /\ IsFiniteSet(K) /\ \A i \in K : i \in Nat /\ i \in 1..Len(text)
      /\ K = {i \in 1..Len(text) : \/ i \in Solid(text)
                                   \/ i - 1 \in Solid(text) /\ \E j \in Solid(text) : j > i}
  BY KeptPlaces
<1> HIDE DEF whole, quote, K, D
<1>4. Len(quote) > 0
  <2>1. Len(quote) >= 3 \/ \E k \in DOMAIN quote : TRUE
    BY DEF LongEnough, Quoted, quote
  <2>2. DOMAIN quote = 1..Len(quote)
    BY <1>2
  <2> QED BY <1>2, <2>1, <2>2
<1>5. /\ at \in 0..Len(whole) - Len(quote)
      /\ SubSeq(whole, at + 1, at + Len(quote)) = quote
  <2>1. Occurrences(whole, quote) \in SUBSET Nat /\ Occurrences(whole, quote) # {}
    <3>1. Occurrences(whole, quote) \in SUBSET Nat
      BY <1>1, <1>2 DEF Occurrences
    <3> QED BY <3>1 DEF Quoted, whole, quote
  <2>2. at \in Occurrences(whole, quote)
    BY <2>1, LeastExists
  <2> QED BY <2>2 DEF Occurrences
<1> HIDE DEF at
<1>6. /\ at \in Nat /\ at \in 0..Cardinality(K) /\ at + Len(quote) \in 1..Cardinality(K)
      /\ at + Len(quote) \in 0..Cardinality(K)
  BY <1>1, <1>2, <1>4, <1>5
<1>7. \A k \in 1..Len(quote) : whole[at + k] = quote[k]
  <2>1. at + 1 \in Int /\ at + Len(quote) \in Int
        /\ (at + Len(quote)) - (at + 1) + 1 = Len(quote)
    BY <1>2, <1>6
  <2>2. \A i \in (at + 1)..(at + Len(quote)) : whole[i] \in D
    BY <1>1, <1>2, <1>6
  <2>3. \A i \in 1..((at + Len(quote)) - (at + 1) + 1) :
          SubSeq(whole, at + 1, at + Len(quote))[i] = whole[(at + 1) + i - 1]
    BY <2>1, <2>2, SubSeqProperties
  <2>4. \A i \in 1..Len(quote) : (at + 1) + i - 1 = at + i
    BY <1>6
  <2> QED BY <1>5, <2>1, <2>3, <2>4
<1>8. Solid(text) # {}
  <2>1. K = {} => Cardinality(K) = 0
    BY FS_EmptySet
  <2>2. Cardinality(K) # 0
    BY <1>6
  <2>3. PICK i \in K : TRUE
    BY <2>1, <2>2
  <2> QED BY <1>3, <2>3
<1>9. /\ s \in 0..Len(text) /\ Rank(K, s) = at
      /\ e \in K /\ Rank(K, e) = at + Len(quote)
  <2>1. at + Len(quote) > 0
    BY <1>6
  <2> QED BY <1>6, <1>8, <2>1, MapPositionByRank DEF K
<1> HIDE DEF s, e
<1>10. s \in Nat /\ e \in Nat /\ e \in 1..Len(text) /\ e <= Len(text) /\ Len(text) \in Nat
  BY <1>3, <1>9
<1>11. s < e
  <2>1. e <= s => Rank(K, e) <= Rank(K, s)
    BY <1>3, <1>10, RankGrows
  <2> QED BY <1>2, <1>4, <1>6, <1>9, <1>10, <2>1
<1>12. quote[1] \notin Spaces /\ quote[Len(quote)] \notin Spaces
  BY <1>4, NormalizedEnds DEF quote
<1>13. e \in Solid(text)
  <2>1. Len(quote) \in 1..Len(quote)
    BY <1>2, <1>4
  <2>2. Fold(text[e]) = quote[Len(quote)]
    BY <1>1, <1>7, <1>9, <2>1
  <2>3. text[e] \notin Spaces
    BY <1>12, <2>2, FoldKeeps
  <2> QED BY <1>10, <2>3 DEF Solid
<1>14. s \in Solid(text) => s + 1 \in Solid(text)
  <2> SUFFICES ASSUME s \in Solid(text), s + 1 \notin Solid(text) PROVE FALSE
    OBVIOUS
  <2>1. s + 1 \in 1..Len(text) /\ s + 1 \in Int /\ (s + 1) - 1 = s
    BY <1>10, <1>11
  <2>2. e > s + 1
    <3>1. e # s + 1
      BY <1>13
    <3> QED BY <1>10, <1>11, <3>1
  <2>3. s + 1 \in K
    BY <1>3, <1>13, <2>1, <2>2
  <2>4. Rank(K, s + 1) = at + 1
    <3>1. ASSUME NEW i \in Int
          PROVE  Rank(K, i) = Rank(K, i - 1) + IF i \in K THEN 1 ELSE 0
      <4>1. IsFiniteSet(K) /\ \A n \in K : n \in Nat
        BY <1>3
      <4> QED BY <4>1, RankStep
    <3>2. Rank(K, s + 1) = Rank(K, (s + 1) - 1) + 1
      BY <2>1, <2>3, <3>1
    <3> QED BY <1>9, <2>1, <3>2
  <2>5. 1 \in 1..Len(quote)
    BY <1>2, <1>4
  <2>6. Fold(text[s + 1]) = quote[1]
    <3>1. whole[Rank(K, s + 1)] = Fold(text[s + 1])
      BY <1>1, <2>3
    <3>2. whole[at + 1] = quote[1]
      BY <1>7, <2>5
    <3> QED BY <2>4, <3>1, <3>2
  <2>7. text[s + 1] \in Spaces
    BY <2>1 DEF Solid
  <2> QED BY <1>12, <2>6, <2>7, FoldKeeps
<1>15. /\ Len(Normalize(part)) = Rank(K, e) - Rank(K, s)
       /\ \A k \in 1..Len(Normalize(part)) : Normalize(part)[k] = whole[Rank(K, s) + k]
  BY <1>9, <1>11, <1>13, <1>14, SliceNormalized DEF K, whole
<1>16. Normalize(part) \in Seq(D)
  <2>1. part \in Seq(C)
    <3>1. s \in 0..Len(text) /\ e \in s..Len(text)
      BY <1>9, <1>10, <1>11
    <3> QED BY <3>1, SlicePlaces
  <2> QED BY <2>1, NormalizeByRank DEF D
<1> HIDE DEF part
<1>17. Normalize(part) = quote
  <2>1. Len(Normalize(part)) = Len(quote)
    BY <1>2, <1>6, <1>9, <1>15
  <2>2. \A k \in 1..Len(quote) : Normalize(part)[k] = quote[k]
    BY <1>7, <1>9, <1>15, <2>1
  <2> QED BY <1>2, <1>16, <2>1, <2>2
<1>18. NormalizedSpan(claim, text) = <<s, e>>
  <2>1. /\ <<s, e>>[1] = s /\ <<s, e>>[2] = e
    OBVIOUS
  <2> QED BY <1>11, <2>1 DEF NormalizedSpan, Quoted, quote, whole, at, s, e
<1>19. Says(part, claim)
  BY <1>17 DEF Says, quote
<1> QED BY <1>10, <1>11, <1>18, <1>19 DEF Locates, part
-----------------------------------------------------------------------------
\* The tokens of a text are in their order, each a word of it.
LEMMA TokenPlaces ==
  ASSUME NEW C, NEW text \in Seq(C)
  PROVE  /\ Len(Tokens(text)) \in Nat /\ DOMAIN Tokens(text) = 1..Len(Tokens(text))
         /\ \A k \in 1..Len(Tokens(text)) : /\ Tokens(text)[k] \in 1..Len(text)
                                            /\ text[Tokens(text)[k]] \in Words
         /\ \A a, b \in 1..Len(Tokens(text)) :
              a <= b => Tokens(text)[a] <= Tokens(text)[b]
<1> DEFINE W == {i \in DOMAIN text : text[i] \in Words}
           n == Cardinality(W)
           place == Tokens(text)
<1>1. /\ IsFiniteSet(W)
      /\ \A i \in W : i \in Nat /\ i \in 1..Len(text) /\ text[i] \in Words
  <2>1. DOMAIN text = 1..Len(text) /\ Len(text) \in Nat
    OBVIOUS
  <2>2. IsFiniteSet(1..Len(text))
    BY <2>1, FS_Interval
  <2>3. W \in SUBSET (1..Len(text))
    BY <2>1
  <2>4. IsFiniteSet(W)
    BY <2>2, <2>3, FS_Subset
  <2> QED BY <2>1, <2>4
<1>2. place = Sorted(W)
  BY DEF Tokens
<1> HIDE DEF W, place
<1>3. /\ DOMAIN place = 1..n /\ n \in Nat
      /\ \A k \in 1..n : place[k] \in W /\ Rank(W, place[k]) = k
  BY <1>1, <1>2, SortedByRank
<1>4. Len(place) = n
  <2>1. place = [k \in 1..n |-> CHOOSE i \in W : Cardinality({j \in W : j <= i}) = k]
    BY <1>2 DEF Sorted
  <2>2. place \in [1..n -> W]
    BY <1>3, <2>1
  <2>3. place \in Seq(W)
    BY <1>3, <2>2
  <2> QED BY <1>3, <2>3
<1> HIDE DEF n
<1>5. ASSUME NEW a \in 1..n, NEW b \in 1..n, a <= b
      PROVE  place[a] <= place[b]
  <2>1. place[a] \in Int /\ place[b] \in Int /\ a \in Int /\ b \in Int
    BY <1>1, <1>3
  <2>2. CASE place[b] <= place[a]
    <3>1. Rank(W, place[b]) <= Rank(W, place[a])
      BY <1>1, <2>1, <2>2, RankGrows
    <3>2. a = b
      BY <1>3, <1>5, <2>1, <3>1
    <3> QED BY <2>1, <3>2
  <2> QED BY <2>1, <2>2
<1> QED BY <1>1, <1>3, <1>4, <1>5 DEF place

\* A text has finitely many significant tokens.
LEMMA SignificantIsFinite ==
  ASSUME NEW C, NEW text \in Seq(C)
  PROVE  IsFiniteSet(Significant(text)) /\ Cardinality(Significant(text)) \in Nat
<1> DEFINE I == {j \in DOMAIN text : text[j] \in Words}
           f == [i \in I |-> Lower[text[i]]]
           T == {Lower[text[i]] : i \in I}
<1>1. IsFiniteSet(I)
  <2>1. DOMAIN text = 1..Len(text) /\ Len(text) \in Nat
    OBVIOUS
  <2>2. IsFiniteSet(1..Len(text))
    BY <2>1, FS_Interval
  <2> QED BY <2>1, <2>2, FS_Subset
<1>2. f \in Surjection(I, T)
  BY DEF Surjection
<1>3. IsFiniteSet(T)
  <2> HIDE DEF f, I, T
  <2> QED BY <1>1, <1>2, FS_Surjection
<1>4. Significant(text) \in SUBSET T
  BY DEF Significant
<1>5. IsFiniteSet(Significant(text))
  <2> HIDE DEF T
  <2> QED BY <1>3, <1>4, FS_Subset
<1> QED BY <1>5, FS_CardinalityType
-----------------------------------------------------------------------------
\* A window is better than another: denser, or as dense with more hits, or earlier.
Better(score, width, i, k) ==
  \/ score[i] * width[k] > score[k] * width[i]
  \/ /\ score[i] * width[k] = score[k] * width[i]
     /\ score[i] > score[k] \/ (score[i] = score[k] /\ i < k)

\* Of two fractions and a third in between, the first is at least the last.
LEMMA Densities ==
  ASSUME NEW a \in Nat, NEW b \in Nat, NEW c \in Nat,
         NEW p \in Nat \ {0}, NEW q \in Nat \ {0}, NEW r \in Nat \ {0},
         a * q >= b * p, b * r >= c * q
  PROVE  /\ a * r >= c * p
         /\ a * q > b * p \/ b * r > c * q => a * r > c * p
<1>1. q * (a * r) >= r * (b * p)
  <2>1. r * (a * q) >= r * (b * p)
    OBVIOUS
  <2> QED BY <2>1
<1>2. p * (b * r) >= q * (c * p)
  <2>1. p * (b * r) >= p * (c * q)
    OBVIOUS
  <2> QED BY <2>1
<1>3. q * (a * r) >= q * (c * p)
  BY <1>1, <1>2
<1>4. a * r >= c * p
  BY <1>3
<1>5. ASSUME a * q > b * p \/ b * r > c * q PROVE a * r > c * p
  <2>1. q * (a * r) > q * (c * p)
    BY <1>1, <1>2, <1>5
  <2> QED BY <2>1
<1> QED BY <1>4, <1>5

\* One window is better than all others.
LEMMA BestExists ==
  ASSUME NEW S, IsFiniteSet(S), S # {}, \A i \in S : i \in Nat,
         NEW score, NEW width,
         \A i \in S : score[i] \in Nat /\ width[i] \in Nat \ {0}
  PROVE  \E b \in S : \A k \in S \ {b} : Better(score, width, b, k)
<1> DEFINE R == {ss \in S \X S : Better(score, width, ss[1], ss[2])}
<1>1. \A x, y \in S : <<x, y>> \in R <=> Better(score, width, x, y)
  OBVIOUS
<1> HIDE DEF R
<1>2. ASSUME NEW x \in S, NEW y \in S
      PROVE  x = y \/ <<x, y>> \in R \/ <<y, x>> \in R
  <2>1. /\ x \in Nat /\ y \in Nat /\ score[x] \in Nat /\ score[y] \in Nat
        /\ score[x] * width[y] \in Int /\ score[y] * width[x] \in Int
    OBVIOUS
  <2>2. x = y \/ Better(score, width, x, y) \/ Better(score, width, y, x)
    BY <2>1 DEF Better
  <2> QED BY <1>1, <2>2
<1>3. ASSUME NEW x \in S, NEW y \in S, NEW z \in S, <<x, y>> \in R, <<y, z>> \in R
      PROVE  <<x, z>> \in R
  <2>1. Better(score, width, x, y) /\ Better(score, width, y, z)
    BY <1>1, <1>3
  <2> DEFINE a == score[x]  b == score[y]  c == score[z]
             p == width[x]  q == width[y]  r == width[z]
  <2>2. /\ a \in Nat /\ b \in Nat /\ c \in Nat
        /\ p \in Nat \ {0} /\ q \in Nat \ {0} /\ r \in Nat \ {0}
        /\ x \in Nat /\ y \in Nat /\ z \in Nat
    OBVIOUS
  <2>3. /\ a * q > b * p \/ (a * q = b * p /\ (a > b \/ (a = b /\ x < y)))
        /\ b * r > c * q \/ (b * r = c * q /\ (b > c \/ (b = c /\ y < z)))
    BY <2>1 DEF Better
  <2> HIDE DEF a, b, c, p, q, r
  <2>4. /\ a * q \in Int /\ b * p \in Int /\ b * r \in Int /\ c * q \in Int
        /\ a * r \in Int /\ c * p \in Int
    BY <2>2
  <2>5. a * q >= b * p /\ b * r >= c * q
    BY <2>3, <2>4
  <2>6. /\ a * r >= c * p
        /\ a * q > b * p \/ b * r > c * q => a * r > c * p
    BY <2>2, <2>5, Densities
  <2>7. a * r > c * p \/ (a * r = c * p /\ (a > c \/ (a = c /\ x < z)))
    <3>1. a > b /\ b > c => a > c
      BY <2>2
    <3>2. x < y /\ y < z => x < z
      BY <2>2
    <3> QED BY <2>2, <2>3, <2>4, <2>6, <3>1, <3>2
  <2>8. Better(score, width, x, z)
    BY <2>7 DEF Better, a, c, p, r
  <2> QED BY <1>1, <2>8
<1>4. \E b \in S : \A k \in S \ {b} : <<b, k>> \in R
  <2>1. \A x, y \in S : x = y \/ <<x, y>> \in R \/ <<y, x>> \in R
    BY <1>2
  <2>2. \A x, y, z \in S : <<x, y>> \in R /\ <<y, z>> \in R => <<x, z>> \in R
    BY <1>3
  <2> QED BY <2>1, <2>2, FirstExists
<1> QED BY <1>1, <1>4

\* A place found by its tokens runs from a word of the claim to another and holds
\* three fifths of its words.
LEMMA AnchorSays ==
  ASSUME NEW C, NEW text \in Seq(C), NEW claim \in Seq(C),
         TokenAnchorSpan(claim, text) # None
  PROVE  Locates(TokenAnchorSpan(claim, text), claim, text)
<1> DEFINE wanted  == Significant(claim)
           place   == Tokens(text)
           word(j) == Lower[text[place[j]]]
           hits    == {j \in DOMAIN place : word(j) \in wanted}
           window  == Max({3 * Cardinality(wanted), 8})
           firsts  == [i \in hits |-> {j \in hits : /\ i <= j /\ j < i + window
                                                   /\ \A k \in hits : i <= k /\ k < j =>
                                                        word(k) # word(j)}]
           score   == [i \in hits |-> Cardinality(firsts[i])]
           width   == [i \in hits |-> Max({Max(firsts[i]) - Min(firsts[i]), 1})]
           good    == {i \in hits : 10 * score[i] >= 6 * Cardinality(wanted)}
           best    == CHOOSE i \in good : \A k \in good \ {i} : Better(score, width, i, k)
           F       == firsts[best]
           left    == Min({a \in 1..Min(F) : a..Min(F) \subseteq hits})
           right   == Max({b \in Max(F)..Len(place) : Max(F)..b \subseteq hits})
           s       == place[left] - 1
           e       == place[right]
           part    == Slice(text, <<s, e>>)
           n       == Len(place)
<1>1. TokenAnchorSpan(claim, text) =
        IF Cardinality(wanted) < 2 \/ good = {} THEN None ELSE <<s, e>>
  BY DEF TokenAnchorSpan, Better
<1>2. good # {}
  <2> HIDE DEF good, wanted, s, e
  <2> QED BY <1>1
<1>3. TokenAnchorSpan(claim, text) = <<s, e>>
  <2> HIDE DEF good, wanted, s, e
  <2> QED BY <1>1
<1>4. Cardinality(wanted) \in Nat
  BY SignificantIsFinite
<1>5. /\ n \in Nat /\ DOMAIN place = 1..n
      /\ \A k \in 1..n : place[k] \in 1..Len(text) /\ text[place[k]] \in Words
      /\ \A a, b \in 1..n : a <= b => place[a] <= place[b]
  BY TokenPlaces
<1>6. window \in Int /\ window >= 8
  <2> DEFINE thrice == 3 * Cardinality(wanted)
  <2>1. thrice \in Int /\ 8 \in Int /\ window = Max({thrice, 8})
    BY <1>4
  <2> HIDE DEF thrice, window
  <2>2. Max({thrice, 8}) = IF thrice <= 8 THEN 8 ELSE thrice
    BY <2>1, OfTwo
  <2> QED BY <2>1, <2>2
<1> HIDE DEF place, n, window, wanted
<1>7. IsFiniteSet(hits) /\ \A j \in hits : j \in 1..n /\ j \in Nat /\ word(j) \in wanted
  <2>1. IsFiniteSet(1..n)
    BY <1>5, FS_Interval
  <2>2. hits \in SUBSET (1..n)
    BY <1>5
  <2>3. IsFiniteSet(hits)
    <3> HIDE DEF hits
    <3> QED BY <2>1, <2>2, FS_Subset
  <2> QED BY <1>5, <2>3
<1> HIDE DEF hits
<1>8. \A i \in hits : firsts[i] \in SUBSET hits /\ i \in firsts[i]
  <2> TAKE i \in hits
  <2>1. firsts[i] = {j \in hits : /\ i <= j /\ j < i + window
                                  /\ \A k \in hits : i <= k /\ k < j => word(k) # word(j)}
    OBVIOUS
  <2>2. i <= i /\ i < i + window
    BY <1>6, <1>7
  <2>3. \A k \in hits : ~(i <= k /\ k < i)
    BY <1>7
  <2> QED BY <2>1, <2>2, <2>3
<1>9. \A i \in hits : \A j, k \in firsts[i] : j # k => word(j) # word(k)
  <2> SUFFICES ASSUME NEW i \in hits, NEW j \in firsts[i], NEW k \in firsts[i], j # k
               PROVE  word(j) # word(k)
    OBVIOUS
  <2>1. firsts[i] = {m \in hits : /\ i <= m /\ m < i + window
                                  /\ \A l \in hits : i <= l /\ l < m => word(l) # word(m)}
    OBVIOUS
  <2> HIDE DEF firsts
  <2>2. j \in hits /\ k \in hits /\ i <= j /\ i <= k
    BY <2>1
  <2>3. j < k => word(j) # word(k)
    BY <2>1, <2>2
  <2>4. k < j => word(k) # word(j)
    BY <2>1, <2>2
  <2>5. j < k \/ k < j
    BY <1>7, <2>2
  <2> QED BY <2>3, <2>4, <2>5
<1> HIDE DEF firsts
<1>10. \A i \in hits : /\ score[i] \in Nat /\ width[i] \in Nat \ {0}
                       /\ IsFiniteSet(firsts[i])
                       /\ Min(firsts[i]) \in firsts[i] /\ Max(firsts[i]) \in firsts[i]
                       /\ \A j \in firsts[i] : Min(firsts[i]) <= j /\ j <= Max(firsts[i])
  <2> TAKE i \in hits
  <2>1. IsFiniteSet(firsts[i]) /\ Cardinality(firsts[i]) \in Nat
    BY <1>7, <1>8, FS_Subset, FS_CardinalityType
  <2>2. firsts[i] # {} /\ firsts[i] \in SUBSET Nat /\ \A j \in firsts[i] : j \in Int
    BY <1>7, <1>8
  <2>3. Min(firsts[i]) \in firsts[i] /\ \A j \in firsts[i] : Min(firsts[i]) <= j
    BY <2>2, LeastExists
  <2>4. Max(firsts[i]) \in firsts[i] /\ \A j \in firsts[i] : j <= Max(firsts[i])
    BY <2>1, <2>2, GreatestExists
  <2>5. Max(firsts[i]) - Min(firsts[i]) \in Int /\ 1 \in Int
    BY <2>2, <2>3, <2>4
  <2>6. width[i] = Max({Max(firsts[i]) - Min(firsts[i]), 1}) /\ score[i] = Cardinality(firsts[i])
    OBVIOUS
  <2>7. width[i] \in Nat \ {0}
    <3> DEFINE steps == Max(firsts[i]) - Min(firsts[i])
    <3>1. steps \in Int /\ 1 \in Int /\ width[i] = Max({steps, 1})
      BY <2>5, <2>6
    <3> HIDE DEF steps, width
    <3>2. Max({steps, 1}) = IF steps <= 1 THEN 1 ELSE steps
      BY <3>1, OfTwo
    <3> QED BY <3>1, <3>2
  <2> QED BY <2>1, <2>3, <2>4, <2>6, <2>7
<1>11. good \in SUBSET hits /\ \A i \in good : 10 * score[i] >= 6 * Cardinality(wanted)
  OBVIOUS
<1> HIDE DEF score, width, good
<1>12. best \in good
  <2>1. IsFiniteSet(good) /\ \A i \in good : i \in Nat
    BY <1>7, <1>11, FS_Subset
  <2>2. \A i \in good : score[i] \in Nat /\ width[i] \in Nat \ {0}
    BY <1>10, <1>11
  <2>3. \E b \in good : \A k \in good \ {b} : Better(score, width, b, k)
    BY <1>2, <2>1, <2>2, BestExists
  <2> QED BY <2>3
<1> HIDE DEF best
<1>13. /\ best \in hits /\ F \in SUBSET hits
       /\ Min(F) \in F /\ Max(F) \in F /\ IsFiniteSet(F)
       /\ \A j \in F : Min(F) <= j /\ j <= Max(F)
       /\ \A j, k \in F : j # k => word(j) # word(k)
       /\ 10 * score[best] >= 6 * Cardinality(wanted) /\ score[best] \in Nat
       /\ score[best] = Cardinality(F)
  <2>1. score[best] = Cardinality(F)
    BY <1>11, <1>12 DEF score
  <2> QED BY <1>8, <1>9, <1>10, <1>11, <1>12, <2>1
<1> HIDE DEF F
<1>14. Min(F) \in 1..n /\ Max(F) \in 1..n /\ Min(F) \in hits /\ Max(F) \in hits
  BY <1>7, <1>13
<1>15. left \in hits /\ left <= Min(F)
  <2> DEFINE S == {a \in 1..Min(F) : a..Min(F) \subseteq hits}
  <2>1. Min(F) \in S
    <3>1. \A a \in Min(F)..Min(F) : a = Min(F)
      BY <1>14
    <3> QED BY <1>14, <3>1
  <2>2. S \in SUBSET Nat
    OBVIOUS
  <2>3. left \in S
    <3> HIDE DEF S
    <3>1. Min(S) \in S
      BY <2>1, <2>2, LeastExists
    <3> QED BY <3>1 DEF S
  <2>4. left \in left..Min(F) /\ left <= Min(F)
    BY <1>14, <2>3
  <2> QED BY <2>3, <2>4
<1>16. right \in hits /\ Max(F) <= right
  <2> DEFINE S == {b \in Max(F)..Len(place) : Max(F)..b \subseteq hits}
  <2>1. Max(F) \in S
    <3>1. \A a \in Max(F)..Max(F) : a = Max(F)
      BY <1>14
    <3> QED BY <1>14, <3>1 DEF n
  <2>2. IsFiniteSet(S) /\ \A b \in S : b \in Int
    <3>1. IsFiniteSet(Max(F)..n)
      BY <1>5, <1>14, FS_Interval
    <3>2. S \in SUBSET (Max(F)..n)
      BY DEF n
    <3> HIDE DEF S
    <3>3. IsFiniteSet(S)
      BY <3>1, <3>2, FS_Subset
    <3>4. \A b \in S : b \in Max(F)..n
      BY <3>2
    <3> QED BY <3>3, <3>4
  <2>3. right \in S
    <3> HIDE DEF S
    <3>1. Max(S) \in S
      BY <2>1, <2>2, GreatestExists
    <3> QED BY <3>1 DEF S
  <2>4. right \in Max(F)..right /\ Max(F) <= right
    BY <1>14, <2>3
  <2> QED BY <2>3, <2>4
<1> HIDE DEF left, right
<1>17. \A j \in F : /\ j \in 1..n /\ place[left] <= place[j] /\ place[j] <= place[right]
  <2> TAKE j \in F
  <2>1. j \in 1..n /\ left \in 1..n /\ right \in 1..n
    BY <1>7, <1>13, <1>15, <1>16
  <2>2. left <= j /\ j <= right
    <3>1. Min(F) <= j /\ j <= Max(F)
      BY <1>13
    <3> QED BY <1>5, <1>14, <1>15, <1>16, <2>1, <3>1
  <2> QED BY <1>5, <2>1, <2>2
<1>18. /\ place[left] \in 1..Len(text) /\ place[right] \in 1..Len(text)
       /\ text[place[left]] \in Words /\ text[place[right]] \in Words
       /\ word(left) \in wanted /\ word(right) \in wanted
  BY <1>5, <1>7, <1>15, <1>16
<1>19. /\ s \in Nat /\ e \in Nat /\ s < e /\ e <= Len(text) /\ s + 1 = place[left]
       /\ s \in 0..Len(text) /\ e \in s..Len(text)
  <2>1. place[left] <= place[right]
    <3>1. place[left] <= place[Min(F)] /\ place[Min(F)] <= place[right] /\ Min(F) \in 1..n
      BY <1>13, <1>17
    <3>2. place[Min(F)] \in Int
      BY <1>5, <3>1
    <3> QED BY <1>18, <3>1, <3>2
  <2>2. Len(text) \in Nat
    OBVIOUS
  <2> QED BY <1>18, <2>1, <2>2
<1> HIDE DEF s
<1>20. /\ part \in Seq(C) /\ Len(part) = e - s
       /\ \A i \in 1..e - s : part[i] = text[s + i]
  <2> HIDE DEF e
  <2> QED BY <1>19, SlicePlaces
<1> HIDE DEF part
<1>21. {Fold(Head(part)), Fold(Last(part))} \subseteq wanted
  <2>1. /\ 1 \in 1..e - s /\ e - s \in 1..e - s /\ s + (e - s) = e
    BY <1>19
  <2>2. Head(part) = part[1] /\ Last(part) = part[Len(part)]
    <3>1. part # <<>>
      BY <1>20, <2>1
    <3> QED BY <1>20, <3>1 DEF Last
  <2>3. Head(part) = text[place[left]] /\ Last(part) = text[place[right]]
    BY <1>19, <1>20, <2>1, <2>2
  <2> QED BY <1>18, <2>3 DEF Fold
<1>22. Cardinality(F) <= Cardinality(Significant(part) \cap wanted)
       /\ Cardinality(Significant(part) \cap wanted) \in Nat
  <2> DEFINE X == Significant(part) \cap wanted
             f == [j \in F |-> word(j)]
  <2>1. IsFiniteSet(X) /\ Cardinality(X) \in Nat
    <3>1. IsFiniteSet(Significant(part))
      BY <1>20, SignificantIsFinite
    <3>2. IsFiniteSet(X)
      BY <3>1, FS_Subset
    <3> QED BY <3>2, FS_CardinalityType
  <2>2. \A j \in F : word(j) \in X
    <3> TAKE j \in F
    <3>1. word(j) \in wanted /\ text[place[j]] \in Words
      BY <1>5, <1>7, <1>13, <1>17
    <3>2. /\ place[j] - s \in 1..e - s /\ s + (place[j] - s) = place[j]
      <4>1. place[j] \in Int /\ place[left] <= place[j] /\ place[j] <= e
        BY <1>5, <1>17
      <4> QED BY <1>19, <4>1
    <3>3. place[j] - s \in DOMAIN part /\ part[place[j] - s] = text[place[j]]
      BY <1>19, <1>20, <3>2
    <3>4. word(j) \notin Stopwords
      BY <3>1 DEF wanted, Significant
    <3> QED BY <3>1, <3>3, <3>4 DEF Significant
  <2>3. f \in Injection(F, X)
    <3>1. f \in [F -> X]
      BY <2>2
    <3>2. \A j, k \in F : f[j] = f[k] => j = k
      BY <1>13
    <3> HIDE DEF f, X
    <3>3. IsInjective(f)
      BY <3>1, <3>2 DEF IsInjective
    <3> QED BY <3>1, <3>3 DEF Injection
  <2> HIDE DEF X, f
  <2>4. Cardinality(F) <= Cardinality(X)
    BY <2>1, <2>3, FS_Injection
  <2> QED BY <2>1, <2>4 DEF X
<1>23. 10 * Cardinality(Significant(part) \cap wanted) >= 6 * Cardinality(wanted)
  BY <1>4, <1>13, <1>22
<1>24. Says(part, claim)
  BY <1>21, <1>23 DEF Says, wanted
<1> QED BY <1>3, <1>19, <1>24 DEF Locates, part
-----------------------------------------------------------------------------
\* A span that locates the claim is shown, and none is shown as unverifiable.
LEMMA CitationSays ==
  ASSUME NEW claim, NEW text, Len(text) \in Nat, NEW span
  PROVE  /\ Locates(span, claim, text) =>
              /\ Citation(span, text).status = "grounded"
              /\ Says(Citation(span, text).snippet, claim)
         /\ span = None => Citation(span, text).status = "unverifiable"
<1>1. ASSUME Locates(span, claim, text)
      PROVE  /\ Citation(span, text).status = "grounded"
             /\ Says(Citation(span, text).snippet, claim)
  <2>1. PICK s, e \in Nat : /\ span = <<s, e>> /\ s < e /\ e <= Len(text)
                            /\ Says(Slice(text, <<s, e>>), claim)
    BY <1>1 DEF Locates
  <2>2. span # None /\ span[1] = s /\ span[2] = e
    BY <2>1 DEF None
  <2>3. Citation(span, text) = [status |-> "grounded", snippet |-> Slice(text, <<s, e>>)]
    BY <2>1, <2>2 DEF Citation
  <2> QED BY <2>1, <2>3
<1>2. span = None => Citation(span, text).status = "unverifiable"
  BY DEF Citation
<1> QED BY <1>1, <1>2

\* A claim that is in the text word for word is located at the first place it has.
LEMMA ExactSays ==
  ASSUME NEW C, NEW text \in Seq(C), NEW claim \in Seq(C), claim # <<>>,
         Occurrences(text, claim) # {}
  PROVE  Locates(ResolveSpan(claim, text), claim, text)
<1> DEFINE at   == Min(Occurrences(text, claim))
           last == at + Len(claim)
<1>1. Len(text) \in Nat /\ Len(claim) \in Nat \ {0}
  OBVIOUS
<1>2. Occurrences(text, claim) \in SUBSET Nat
  BY DEF Occurrences
<1>3. at \in Occurrences(text, claim)
  BY <1>2, LeastExists
<1>4. /\ at \in 0..Len(text) - Len(claim)
      /\ SubSeq(text, at + 1, last) = claim
  BY <1>3 DEF Occurrences
<1>5. ResolveSpan(claim, text) = <<at, last>>
  <2>1. text # <<>>
    <3> HIDE DEF at
    <3> QED BY <1>1, <1>4
  <2> QED BY <2>1 DEF ResolveSpan
<1> HIDE DEF at
<1>6. at \in Nat /\ last \in Nat /\ at < last /\ last <= Len(text)
  BY <1>1, <1>4
<1>7. Slice(text, <<at, last>>) = claim
  BY <1>4 DEF Slice
<1> HIDE DEF last
<1>8. Says(Slice(text, <<at, last>>), claim)
  BY <1>7 DEF Says
<1> QED BY <1>5, <1>6, <1>8 DEF Locates

\* Nothing is found of an empty claim or in an empty text.
LEMMA NothingQuoted ==
  ASSUME NEW C, NEW text \in Seq(C), NEW claim \in Seq(C), claim = <<>> \/ text = <<>>
  PROVE  ~Quoted(claim, text)
<1> SUFFICES ASSUME LongEnough(Normalize(claim))
             PROVE  Occurrences(Normalize(text), Normalize(claim)) = {}
  BY DEF Quoted
<1>1. ASSUME NEW t \in Seq(C), t = <<>> PROVE Len(Normalize(t)) = 0
  <2>1. Kept(t) = {}
    <3>1. \A i \in Kept(t) : i \in 1..0
      BY <1>1, KeptPlaces
    <3> QED BY <3>1
  <2> QED BY <2>1, NormalizeByRank, FS_EmptySet
<1>2. \A t \in Seq(C) : DOMAIN Normalize(t) = 1..Len(Normalize(t)) /\ Len(Normalize(t)) \in Nat
  <2> TAKE t \in Seq(C)
  <2>1. Normalize(t) \in Seq({Fold(c) : c \in C})
    BY NormalizeByRank
  <2> QED BY <2>1
<1>3. Len(Normalize(claim)) > 0
  <2>1. Len(Normalize(claim)) >= 3 \/ DOMAIN Normalize(claim) # {}
    BY DEF LongEnough
  <2>2. DOMAIN Normalize(claim) # {} => Len(Normalize(claim)) > 0
    BY <1>2
  <2> QED BY <1>2, <2>1, <2>2
<1>4. text = <<>>
  BY <1>1, <1>3
<1>5. Len(Normalize(text)) = 0
  BY <1>1, <1>4
<1> QED BY <1>2, <1>3, <1>5 DEF Occurrences

\* For every claim and every text, of any characters: what is shown as the place of a
\* claim says the claim, whichever of the three searches found it, and a claim that is
\* there up to case and spaces is found (resolve_span, build_source_citation).
THEOREM SnippetsSayTheClaims ==
  ASSUME NEW C, NEW text \in Seq(C), NEW claim \in Seq(C)
  PROVE  SnippetSaysTheClaim(claim, text)
<1> DEFINE span  == ResolveSpan(claim, text)
           shown == Citation(span, text)
<1>1. SUFFICES ASSUME Plain(text) \/ ~Quoted(claim, text)
               PROVE  Locates(span, claim, text) \/ (span = None /\ ~Quoted(claim, text))
  <2>1. Len(text) \in Nat
    OBVIOUS
  <2>2. /\ Locates(span, claim, text) => shown.status = "grounded" /\ Says(shown.snippet, claim)
        /\ span = None => shown.status = "unverifiable"
    BY <2>1, CitationSays
  <2> HIDE DEF shown
  <2>3. (Plain(text) \/ ~Quoted(claim, text)) =>
          /\ shown.status = "grounded" => Says(shown.snippet, claim)
          /\ Quoted(claim, text) => shown.status = "grounded"
    BY <1>1, <2>2
  <2> QED BY <2>3 DEF SnippetSaysTheClaim, shown
<1>2. CASE claim = <<>> \/ text = <<>>
  <2>1. ResolveSpan(claim, text) = None
    BY <1>2 DEF ResolveSpan
  <2> QED BY <1>2, <2>1, NothingQuoted
<1>3. CASE claim # <<>> /\ text # <<>> /\ Occurrences(text, claim) # {}
  BY <1>3, ExactSays
<1>4. CASE claim # <<>> /\ text # <<>> /\ Occurrences(text, claim) = {}
  <2>1. CASE Quoted(claim, text)
    <3>1. Locates(NormalizedSpan(claim, text), claim, text)
      BY <1>1, <2>1, NormalizedSays
    <3>2. NormalizedSpan(claim, text) # None
      BY <3>1 DEF Locates, None
    <3>3. ResolveSpan(claim, text) = NormalizedSpan(claim, text)
      BY <1>4, <3>2 DEF ResolveSpan
    <3> QED BY <3>1, <3>3
  <2>2. CASE ~Quoted(claim, text)
    <3>1. NormalizedSpan(claim, text) = None
      BY <2>2 DEF NormalizedSpan, Quoted
    <3>2. ResolveSpan(claim, text) = TokenAnchorSpan(claim, text)
      BY <1>4, <3>1 DEF ResolveSpan
    <3>3. TokenAnchorSpan(claim, text) # None =>
            Locates(TokenAnchorSpan(claim, text), claim, text)
      BY AnchorSays
    <3> QED BY <2>2, <3>2, <3>3
  <2> QED BY <2>1, <2>2
<1> QED BY <1>2, <1>3, <1>4

\* Whatever texts, rules, chunks and replies there are, what is cited is real.
THEOREM CitationsHold == Spec => []CitationsAreReal
<1>1. CitationsAreReal
  <2>1. ASSUME NEW claim \in ClaimTexts, NEW text \in SourceTexts
        PROVE  SnippetSaysTheClaim(claim, text)
    <3> DEFINE C == Words \cup Spaces \cup Marks
    <3>1. claim \in Seq(C) /\ text \in Seq(C)
      BY InputsAssumption
    <3> HIDE DEF C
    <3> QED BY <3>1, SnippetsSayTheClaims
  <2>2. ASSUME NEW rules \in RuleLists, NEW structured \in StructuredLists,
               NEW chunks \in ChunkLists, NEW replies \in [DOMAIN chunks -> Replies]
        PROVE  FindingsAreGrounded(rules, structured, chunks, replies)
    <3>1. structured \in Seq(STRING) /\ chunks \in Seq(Chunks)
          /\ replies \in [DOMAIN chunks -> Answers(STRING)]
      BY InputsAssumption
    <3> QED BY <3>1, FindingsCiteChunks
  <2> QED BY <2>1, <2>2 DEF CitationsAreReal
<1> QED BY <1>1, PTL
=============================================================================
