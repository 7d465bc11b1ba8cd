SPECIFICATION FairSpec
CONSTANTS
  Claims = {c1, c2}
  RetryLimits <- NoRetryOrDefault
  Judgements <- OnePerLine
INVARIANTS
  ApprovalsAreJustified
  NoClaimIsLost
PROPERTIES
  EndsWhenServicesRecover
CHECK_DEADLOCK FALSE
