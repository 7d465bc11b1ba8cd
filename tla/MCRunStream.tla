---------------------------- MODULE MCRunStream ----------------------------
(* One node, which may pause the run; a page that opens the stream twice,  *)
(* with one request in flight and one fault.                               *)
EXTENDS RunStream
=============================================================================
