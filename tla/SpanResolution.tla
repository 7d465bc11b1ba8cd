--------------------------- MODULE SpanResolution ---------------------------
(***************************************************************************)
(* How a claim is located in the text it was extracted from                *)
(* (span_resolution.py), and the citation a reviewer is shown              *)
(* (citation_payload.py).                                                  *)
(*                                                                         *)
(* A text is a sequence of words, spaces and marks, each of width one.  A  *)
(* word stands for a token of at least three characters, so two words are  *)
(* never adjacent.  Offsets count from 0 and a span <<s, e>> excludes e.   *)
(***************************************************************************)
EXTENDS Naturals, Integers, Sequences, FiniteSets, FiniteSetsExt, SequencesExt

CONSTANTS
  Words,        \* tokens, in upper and lower case
  Lower,        \* their lower case
  Stopwords,    \* those without locating signal
  Spaces,       \* what \s matches
  PlainSpaces,  \* what _map_normalized_pos_to_original takes for a space
  Marks         \* punctuation

ASSUME WordsAssumption == Lower \in [Words -> Words] /\ Stopwords \subseteq Words
ASSUME SpacesAssumption ==
  /\ PlainSpaces \subseteq Spaces /\ " " \in PlainSpaces
  /\ Words \cap (Spaces \cup Marks) = {} /\ Marks \cap Spaces = {}

None == <<>>
Slice(text, span) == SubSeq(text, span[1] + 1, span[2])

Fold(c)    == IF c \in Words THEN Lower[c] ELSE IF c \in Spaces THEN " " ELSE c

\* The members of a set of numbers in their order, each at its rank.
Sorted(S) ==
  [k \in 1..Cardinality(S) |-> CHOOSE i \in S : Cardinality({j \in S : j <= i}) = k]

\* _normalize_for_matching: lower case, runs of spaces one space, none at the ends
Kept(text) ==
  LET solid == {i \in DOMAIN text : text[i] \notin Spaces}
  IN  solid \cup {i \in DOMAIN text : i - 1 \in solid /\ \E j \in solid : j > i}

Normalize(text) ==
  LET order == Sorted(Kept(text)) IN [k \in DOMAIN order |-> Fold(text[order[k]])]

\* str.find
Occurrences(text, part) ==
  {i \in 0..Len(text) - Len(part) : SubSeq(text, i + 1, i + Len(part)) = part}

Leading(text) ==
  Min({i \in 0..Len(text) : i = Len(text) \/ text[i + 1] \notin PlainSpaces})

\* mutant: every space counts, not every run of spaces
MapEvery(text, n) ==
  Min({i \in Leading(text)..Len(text) : i = Len(text) \/ i - Leading(text) >= n})

\* _map_normalized_pos_to_original: a run of spaces counts as one, those at the start
\* as none; and how far to walk until n characters are counted
Walked(text, i) ==
  LET first == Leading(text) + 1
  IN  Cardinality({j \in first..i : \/ text[j] \notin PlainSpaces
                                    \/ j = first
                                    \/ text[j - 1] \notin PlainSpaces})

MapPosition(text, n) ==
  Min({i \in Leading(text)..Len(text) : i = Len(text) \/ Walked(text, i) >= n})

\* three characters, as every word has
LongEnough(quote) == Len(quote) >= 3 \/ \E k \in DOMAIN quote : quote[k] \in Words

NormalizedSpan(claim, text) ==
  LET quote == Normalize(claim)
      found == Occurrences(Normalize(text), quote)
      span  == <<MapPosition(text, Min(found)), MapPosition(text, Min(found) + Len(quote))>>
  IN  IF LongEnough(quote) /\ found # {} /\ span[1] < span[2] THEN span ELSE None

\* _significant_tokens, and the tokens of the source with their places
Significant(claim) == {Lower[claim[i]] : i \in {j \in DOMAIN claim : claim[j] \in Words}}
                        \ Stopwords
Tokens(text) == Sorted({i \in DOMAIN text : text[i] \in Words})

\* _token_anchor_span
TokenAnchorSpan(claim, text) ==
  LET wanted  == Significant(claim)
      place   == Tokens(text)
      word(j) == Lower[text[place[j]]]
      hits    == {j \in DOMAIN place : word(j) \in wanted}
      window  == Max({3 * Cardinality(wanted), 8})
      \* for each hit, the first hits of each token in the window it starts
      firsts  == [i \in hits |-> {j \in hits : /\ i <= j /\ j < i + window
                                              /\ \A k \in hits : i <= k /\ k < j =>
                                                   word(k) # word(j)}]
      score   == [i \in hits |-> Cardinality(firsts[i])]
      width   == [i \in hits |-> Max({Max(firsts[i]) - Min(firsts[i]), 1})]
      good    == {i \in hits : 10 * score[i] >= 6 * Cardinality(wanted)}
      \* denser first, then more hits, then earlier
      before(i, k) == \/ score[i] * width[k] > score[k] * width[i]
                      \/ /\ score[i] * width[k] = score[k] * width[i]
                         /\ score[i] > score[k] \/ (score[i] = score[k] /\ i < k)
      best    == CHOOSE i \in good : \A k \in good \ {i} : before(i, k)
      \* outward through adjacent tokens of the claim
      left    == Min({a \in 1..Min(firsts[best]) : a..Min(firsts[best]) \subseteq hits})
      right   == Max({b \in Max(firsts[best])..Len(place) :
                        Max(firsts[best])..b \subseteq hits})
  IN  IF Cardinality(wanted) < 2 \/ good = {} THEN None
      ELSE <<place[left] - 1, place[right]>>

\* resolve_span, and _locate_span of the executor: a chunk is a part of the text, so
\* its search there finds nothing new
ResolveSpan(claim, text) ==
  IF claim = <<>> \/ text = <<>> THEN None
  ELSE IF Occurrences(text, claim) # {}
       THEN LET at == Min(Occurrences(text, claim)) IN <<at, at + Len(claim)>>
  ELSE IF NormalizedSpan(claim, text) # None THEN NormalizedSpan(claim, text)
  ELSE TokenAnchorSpan(claim, text)

\* build_source_citation over the span recorded for a claim: a span that does not
\* fit the text is shown as unverifiable
Citation(span, text) ==
  IF span # None /\ 0 <= span[1] /\ span[1] < span[2] /\ span[2] <= Len(text)
  THEN [status |-> "grounded", snippet |-> Slice(text, span)]
  ELSE [status |-> "unverifiable", snippet |-> <<>>]

-----------------------------------------------------------------------------
\* A snippet says the claim when it is the claim up to case and spaces, or it runs
\* from one word of the claim to another and holds three fifths of its words.
Says(snippet, claim) ==
  LET words == Significant(claim)
  IN  \/ Normalize(snippet) = Normalize(claim)
      \/ /\ {Fold(Head(snippet)), Fold(Last(snippet))} \subseteq words
         /\ 10 * Cardinality(Significant(snippet) \cap words) >= 6 * Cardinality(words)

\* Every space of the text is one that the mapping of positions knows.
Plain(text) == \A i \in DOMAIN text : text[i] \in Spaces => text[i] \in PlainSpaces

\* The claim is in the text up to case and spaces.
Quoted(claim, text) == /\ LongEnough(Normalize(claim))
                       /\ Occurrences(Normalize(text), Normalize(claim)) # {}

\* What a reviewer is shown as the place of a claim says the claim, and a claim that
\* is in the text up to case and spaces is located; of a text with other spaces this
\* is said only where no position is mapped.
SnippetSaysTheClaim(claim, text) ==
  LET shown == Citation(ResolveSpan(claim, text), text)
  IN  Plain(text) \/ ~Quoted(claim, text) =>
        /\ shown.status = "grounded" => Says(shown.snippet, claim)
        /\ Quoted(claim, text) => shown.status = "grounded"
=============================================================================
