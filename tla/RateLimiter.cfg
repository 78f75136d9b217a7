SPECIFICATION RateSpec
CONSTANTS
  r1 = r1
  r2 = r2
  Requests <- TwoRequests
  Limits <- Both
  SecTicks = 3
  MinTicks = 9
  Span = 15
  MaxDelay = 2
INVARIANTS
  RateTypeOK
  WindowsWithinLimit
  SlidingBound
PROPERTIES
  RetryAfterSuffices
