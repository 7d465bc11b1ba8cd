---------------------------- MODULE CheckpointLog ----------------------------
(***************************************************************************)
(* What resumability promises of one run (docs/invariants.md, 1 and 3):    *)
(* checkpoints are written once, in the order of the nodes, and a node     *)
(* whose checkpoint is durable is not run again.                           *)
(***************************************************************************)
EXTENDS Naturals

CONSTANT NodeCount

VARIABLES
  durable,   \* the nodes with a durable checkpoint
  active     \* the nodes being executed by some call

Steps == 1..NodeCount

LogInit == durable = {} /\ active = {}

Start  == \E n \in Steps : /\ active = {}
                           /\ \A m \in durable : m < n
                           /\ active' = {n}
                           /\ UNCHANGED durable
Fail   == active' = {} /\ UNCHANGED durable
Commit == \E n \in active : /\ active' = {}
                            /\ durable' = durable \cup {n}

LogNext == Start \/ Fail \/ Commit
LogSpec == LogInit /\ [][LogNext]_<<durable, active>>
=============================================================================
