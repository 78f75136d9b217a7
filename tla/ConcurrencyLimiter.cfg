SPECIFICATION LimiterSpec
CONSTANTS
  r1 = r1
  r2 = r2
  r3 = r3
  k1 = k1
  k2 = k2
  None = None
  Requests <- MCRequests
  Keys <- MCKeys
  Limits <- MCLimits
INVARIANTS
  LimiterTypeOK
  OneCounterPerKey
  HoldersWithinLimit
  SlotsAccounted
PROPERTIES
  RejectedOnlyUnderContention
  AcquireReturns
