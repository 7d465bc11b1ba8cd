SPECIFICATION FairSpec
CONSTANTS
  Claims = {c1, c2}
  Tasks = {t1, t2}
  Clients = {u1, u2}
  Prep = 1
  MaxFaults = 0
  McpOn = FALSE
PROPERTIES
  RunningComesToRest
  DecidedRunResumes
  CancelIsHonoured
