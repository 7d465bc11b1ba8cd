-------------------------- MODULE RunExpectations ---------------------------
(***************************************************************************)
(* What the comments of the code say of a run and the code of RunLifecycle *)
(* does not keep; the run that checks it ends in a counterexample.         *)
(***************************************************************************)
EXTENDS RunLifecycle

\* demo_executor.py 1300-1302: each escalated claim becomes an item to be
\* decided, this is the human gate.  A report is stored only when all are.
GateHolds ==
  deliverable # {} => \A c \in escalated : items[c] \in Decisions
=============================================================================
