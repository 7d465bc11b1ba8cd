SPECIFICATION FairSpec
CONSTANTS
  Items = {i1, i2, i3}
  Claims = {c1, c2}
  Requests = {r1, r2}
  McpRequests = {r2}
  MaxFaults = 1
INVARIANTS
  TwoTablesAgree
  AnswersAreTrue
  DeletedLeavesNothing
PROPERTIES
  ImplementsLedger
  EveryCallAnswered
CHECK_DEADLOCK FALSE
