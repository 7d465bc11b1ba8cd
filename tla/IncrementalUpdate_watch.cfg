SPECIFICATION FairSpec
CONSTANTS
  Facts <- TwoFacts
  Values <- TwoValues
  Extractions <- Papers
  Reports <- OneReport
  IdStyles <- OneStyle
  FileCount = 2
  Contents = {"a", "b"}
  Uploads = {}
INVARIANTS
  NothingSaidIsLost
PROPERTIES
  OnlyAgreementIsMerged
  StableFileIsProcessed
