SPECIFICATION Spec
CONSTANTS
  Claims = {c1}
  Tasks = {t1, t2}
  Clients = {u1}
  Prep = 2
  MaxFaults = 0
  McpOn = FALSE
INVARIANT
  GateHolds
