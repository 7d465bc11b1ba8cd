------------------------ MODULE MCIncrementalUpdate ------------------------
(* A run that found one fact, two documents to come: what they say is a new
   fact, the same value, another value, nothing at all, or two values. *)
EXTENDS IncrementalUpdate

One(v) == [said |-> {v}, last |-> v]
Both   == [said |-> {"5", "7"}, last |-> "7"]

TwoFacts  == {"rate", "fee"}
TwoValues == {"5", "7"}
TwoStyles == {"typed", "numbered"}
OneStyle  == {"typed"}
OneReport == <<[f \in TwoFacts |-> IF f = "rate" THEN "5" ELSE "none"]>>
TwoReports == <<OneReport[1], [f \in TwoFacts |-> IF f = "rate" THEN "7" ELSE "not_found"]>>
Papers    == {[f \in TwoFacts |-> One("5")],
              [f \in TwoFacts |-> IF f = "rate" THEN Both ELSE One("not_found")],
              [f \in TwoFacts |-> IF f = "rate" THEN Silent ELSE One("7")]}
=============================================================================
