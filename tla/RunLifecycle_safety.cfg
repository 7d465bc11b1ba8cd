SPECIFICATION Spec
CONSTANTS
  Claims = {c1, c2}
  Tasks = {t1, t2}
  Clients = {u1, u2}
  Prep = 2
  MaxFaults = 1
  McpOn = TRUE
SYMMETRY Symmetry
INVARIANTS
  SingleExecutor
  StatusUpdatesAccepted
  PausedAtTheGate
  WokenWhenDecided
  DeliverableFaithful
PROPERTIES
  CheckpointsAreFinal
  KeepsContract
