----------------------------- MODULE MCEvidence -----------------------------
(* Two claims and a check of up to two judgements; texts of up to four words *)
(* and claims of up to three, apart by a space, two spaces or a comma; two   *)
(* chunks with up to two rules for the model and the structured one.         *)
EXTENDS Evidence

MCWords     == {"rate", "Rate", "fee", "term", "the"}
MCLower     == [w \in MCWords |-> IF w = "Rate" THEN "rate" ELSE w]
MCStopwords == {"the"}
MCSpaces    == {" ", "\n", "\f"}
MCPlain     == {" ", "\n"}
MCMarks     == {","}

Gaps == {<<" ">>, <<" ", "\n">>, <<",">>}
RECURSIVE Texts(_, _)
Texts(W, n) == IF n = 1 THEN {<<w>> : w \in W}
               ELSE {t \o g \o <<w>> : t \in Texts(W, n - 1), g \in Gaps, w \in W}

SmallTexts  == {<<>>} \cup UNION {Texts({"Rate", "fee", "the"}, n) : n \in 1..4}
                 \cup {<<"\n">> \o t : t \in Texts({"Rate", "fee", "the"}, 2)}
                 \cup {<<"fee">> \o g \o t : g \in {<<"\f">>, <<" ", "\f">>},
                                           t \in Texts({"Rate", "fee", "the"}, 2)}
SmallClaims == {<<>>, <<" ">>, <<" ", ",">>} \cup Texts({"rate", "fee", "the"}, 1)
                 \cup Texts({"rate", "fee", "the"}, 2)
                 \cup {<<a, " ", b, " ", c>> : a, b, c \in {"rate", "fee", "term"}}

SmallRules      == {<<>>, <<"r1">>, <<"r1", "r2">>}
SmallStructured == {<<>>, <<"apr">>}
SmallChunks ==
  {<<[start |-> 0, end |-> 4, rates |-> a], [start |-> 4, end |-> 6, rates |-> b]>> :
     a \in {<<>>, <<[value |-> 30, from |-> 0, to |-> 1]>>,
            <<[value |-> 30, from |-> 0, to |-> 1], [value |-> 40, from |-> 2, to |-> 4]>>},
     b \in {<<>>, <<[value |-> 37, from |-> 0, to |-> 2]>>}}
SmallItems   == [verdict: {"fail", "pass", "review_required"}, from: {-1, 1, 9}, to: {-1, 0, 9}]
SmallReplies == {[fails |-> TRUE, list |-> FALSE, items |-> <<>>],
                 [fails |-> FALSE, list |-> FALSE, items |-> <<>>]}
                \cup [fails: {FALSE}, list: {TRUE}, items: UpTo(SmallItems, 1)]
=============================================================================
