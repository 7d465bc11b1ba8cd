--------------------------- MODULE MCPipelineGraph ---------------------------
(* An instance of PipelineGraph: two values of config.max_retries stand for
   all of them, since nothing counts retries, and five verdicts for all
   verdicts: one for every line of route_to_queue's partition. *)
EXTENDS PipelineGraph

NoRetryOrDefault == {0, 3}

OnePerLine ==
  {[kind |-> "compliant", sure |-> TRUE, flag |-> FALSE],
   [kind |-> "compliant", sure |-> FALSE, flag |-> FALSE],
   [kind |-> "compliant", sure |-> TRUE, flag |-> TRUE],
   [kind |-> "indeterminate", sure |-> TRUE, flag |-> FALSE],
   [kind |-> "non_compliant", sure |-> TRUE, flag |-> FALSE]}
=============================================================================
