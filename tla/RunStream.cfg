SPECIFICATION FairSpec
CONSTANTS
  N = 1
  Gate = 1
  Conns = 2
  Requests = {"r1"}
  MaxFaults = 1
INVARIANTS
  NothingIsMissed
  EndShownIsReal
PROPERTIES
  EndIsShown
CHECK_DEADLOCK FALSE
