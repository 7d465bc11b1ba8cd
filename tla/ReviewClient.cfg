SPECIFICATION FairSpec
CONSTANTS
  Items <- OneItem
  Runs <- TwoRuns
  RunOf <- InRun
  Polls = {p1, p2}
  Posts = {k1}
INVARIANTS
  ShownIsReal
  MarkedWhileSubmitting
  PollsWhatIsShown
PROPERTIES
  CatchesUp
