SPECIFICATION Spec
CONSTANTS
  Facts <- TwoFacts
  Values <- TwoValues
  Extractions <- Papers
  Reports <- TwoReports
  IdStyles <- TwoStyles
  FileCount = 0
  Contents = {"a", "b"}
  Uploads = {"u", "v"}
INVARIANTS
  ConflictsAreNotApplied
CHECK_DEADLOCK FALSE
