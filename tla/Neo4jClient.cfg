SPECIFICATION ClientFairSpec
CONSTANTS
  MaxRetries = 2
  RetryBackoff <- MCRetryBackoff
  MaxBackoff = 2
  AttemptTicks = 3
  MaxRows = 2
INVARIANTS
  ClientTypeOK
  AttemptsAccountForOutcome
  QueryTimeBounded
PROPERTY ImplementsQueryService
