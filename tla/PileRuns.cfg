SPECIFICATION FairPileSpec
CONSTANTS
  Piles = {"p"}
  Uploads = {"u", "v"}
  MaxFiles = 2
  Starts = {"s"}
  MaxDocs = 2
  MaxRuns = 2
  MaxFailures = 1
INVARIANTS
  AnsweredIsStored
  DocumentsHaveFiles
PROPERTIES
  EveryRunGetsItsTurn
CHECK_DEADLOCK FALSE
