--------------------------- MODULE SourceFindings ---------------------------
(***************************************************************************)
(* The rules checked against the chunks of a document by the graph's node  *)
(* match_rules_against_sources, with the evaluators it calls.  A model's   *)
(* answer is whatever JSON it sends: verdicts in any number, with offsets  *)
(* relative to the chunk that may lie anywhere.  The findings are a set:   *)
(* their order, which is that of the chunks, matters to no property.       *)
(***************************************************************************)
EXTENDS Integers, Sequences, SequencesExt, FiniteSetsExt

\* What the check reads: chunks with the rates in them, and what a model says of a
\* chunk, with offsets anywhere.
Rates         == [value : Int, from : Int, to : Int]
Chunks        == {c \in [start : Int, end : Int, rates : Seq(Rates)] : c.start <= c.end}
Items(Said)   == [verdict : Said, from : Int, to : Int]
Answers(Said) == [fails : BOOLEAN, list : BOOLEAN, items : Seq(Items(Said))]

\* CitedSpan and Finding, with absolute offsets
Clamp(n, low, high) == Max({low, Min({n, high})})

\* mutant: the end is only kept within the chunk
SpanUnordered(chunk, from, to) ==
  LET length == chunk.end - chunk.start
  IN  [start |-> chunk.start + Clamp(from, 0, length), end |-> chunk.start + Min({to, length})]

CitedSpan(chunk, from, to) ==
  LET length == chunk.end - chunk.start
      start  == Clamp(from, 0, length)
  IN  [start |-> chunk.start + start, end |-> chunk.start + Clamp(to, start, length)]

Result(rule, verdict, span, method) ==
  [rule |-> rule, verdict |-> verdict, span |-> span, method |-> method]

\* evaluate_batch: answers belong to rules by their position; what is missing, or an
\* answer that is no list, is insufficient evidence for the whole chunk.  With one
\* rule the answer is the item itself, and one that is no object fails the call.
LLMResults(rules, chunk, answer) ==
  [i \in DOMAIN rules |->
     IF answer.list /\ i \in DOMAIN answer.items
     THEN LET item == answer.items[i]
          IN  Result(rules[i], item.verdict, CitedSpan(chunk, item.from, item.to), "llm")
     ELSE Result(rules[i], "insufficient_evidence",
                 [start |-> chunk.start, end |-> chunk.end], "llm")]

\* _check_apr_exceeds_36: the first percentage above 36, or the last one, with its
\* place in the chunk
StructuredResult(rule, chunk) ==
  LET rates == chunk.rates
      high  == {i \in DOMAIN rates : rates[i].value > 36}
      cite(i) == CitedSpan(chunk, rates[i].from, rates[i].to)
  IN  IF rates = <<>>
      THEN Result(rule, "not_applicable", [start |-> chunk.start, end |-> chunk.end],
                  "structured")
      ELSE IF high # {} THEN Result(rule, "fail", cite(Min(high)), "structured")
      ELSE Result(rule, "pass", cite(Len(rates)), "structured")

Actionable(result) == result.verdict \in {"fail", "review_required"}

\* one chunk: the rules for the model in one call, then the structured one
ChunkFindings(rules, structured, chunk, answer) ==
  LET results == Range(LLMResults(rules, chunk, answer))
                   \cup {StructuredResult(structured[i], chunk) : i \in DOMAIN structured}
  IN  {result \in results : Actionable(result)}

\* match_rules_against_sources: a call that fails is a transient error without
\* findings, whatever the chunks before it gave
MatchSources(rules, structured, chunks, answers) ==
  IF rules # <<>> /\ \E i \in DOMAIN chunks : answers[i].fails
  THEN [status |-> "error", findings |-> {}]
  ELSE [status |-> "completed",
        findings |-> UNION {ChunkFindings(rules, structured, chunks[i], answers[i]) :
                              i \in DOMAIN chunks}]

-----------------------------------------------------------------------------
\* Every finding is for a rule of this node, calls for an action and cites a place
\* in a chunk that was evaluated; a document whose rates exceed the limit has one.
FindingsAreGrounded(rules, structured, chunks, answers) ==
  LET out == MatchSources(rules, structured, chunks, answers)
  IN  /\ \A f \in out.findings :
           /\ f.rule \in Range(rules) \cup Range(structured) /\ Actionable(f)
           /\ \E i \in DOMAIN chunks : /\ chunks[i].start <= f.span.start
                                       /\ f.span.start <= f.span.end
                                       /\ f.span.end <= chunks[i].end
      /\ (out.status = "completed" /\ structured # <<>>) =>
           \A i \in DOMAIN chunks : \A j \in DOMAIN chunks[i].rates :
             chunks[i].rates[j].value > 36 =>
               \E f \in out.findings : f.method = "structured"
=============================================================================
