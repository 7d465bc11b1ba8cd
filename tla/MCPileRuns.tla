----------------------------- MODULE MCPileRuns -----------------------------
(* One pile, two uploads of which one may hold two files, and one start.   *)
EXTENDS PileRuns
=============================================================================
