SPECIFICATION Spec
CONSTANTS
  Words <- MCWords
  Lower <- MCLower
  Stopwords <- MCStopwords
  Spaces <- MCSpaces
  PlainSpaces <- MCPlain
  Marks <- MCMarks
  Contents = {"a"}
  Missing = "missing"
  Confidences = {65, 90}
  NoAnswer = NoAnswer
  Thresholds = {60, 80}
  MaxClaims = 2
  MaxAnswers = 2
  ClaimTexts <- SmallClaims
  SourceTexts <- SmallTexts
  RuleLists <- SmallRules
  StructuredLists <- SmallStructured
  ChunkLists <- SmallChunks
  Replies <- SmallReplies
INVARIANTS
  CitationsAreReal
  NoVerdictNoApproval
  CompletedIsDurable
  BadNewsReachesTheReport
CHECK_DEADLOCK FALSE
