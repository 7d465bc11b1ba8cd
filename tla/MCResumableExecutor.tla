------------------------- MODULE MCResumableExecutor -------------------------
(* Two calls for a run of three nodes, in every order, with every failure:
   the second starts while the first executes, or after it ended. *)
EXTENDS ResumableExecutor

ThreeNodes == 3
=============================================================================
