SPECIFICATION Spec
CONSTANTS
  c1 = c1
  c2 = c2
  c3 = c3
  Calls = {c1, c2, c3}
  FailThreshold = 4
  ResetSeconds = 2
  MaxRetries = 1
  MaxBackoff = 2
  MaxRetryAfter = 1
INVARIANTS CopiesAccounted OpensOnFaults HammeringBounded
PROPERTY FailedTrialReopens
CHECK_DEADLOCK FALSE
