SPECIFICATION ProxySpec
CONSTANTS
  r1 = r1
  r2 = r2
  r3 = r3
  k1 = k1
  None = None
  Nil = Nil
  Keep = Keep
  Requests <- TwoRequests
  Keys <- OneKey
  Upstream <- OpenAIKey
  Limits <- Small
  Fields <- Settings
  Values <- Small
  Configs <- Patched
  Costs <- Unit
  MeterFails = FALSE
  MaxTime = 1
  MaxSpend = 3
  MaxOps = 2
  MaxDay = 0
  DaysPerMonth = 1
  Backends = {"sqlite"}
CHECK_DEADLOCK FALSE
SYMMETRY Symmetric
INVARIANTS
  ProxyTypeOK
  SlotsFollowRequests
  GatesEnforced
  BilledBeforeRelease
  OvershootBounded
PROPERTIES
  UsesLimiter
